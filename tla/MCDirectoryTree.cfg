\* One worker that copies or moves and one that removes; a file, a link and a
\* subdirectory with a file in it.
SPECIFICATION FairSpec
CONSTANTS
  mover = mover
  remover = remover
  file = file
  link = link
  below = below
  sub = sub
  root = root
  Files = {file, link, below}
  Links = {link}
  Dirs = {root, sub}
  Root = root
  In <- Tree
  Workers = {mover, remover}
  MayCall <- Callable
  Retries = 2
  MaxCalls = 1
  MaxTrouble = 1
INVARIANTS
  MoveLosesNothing
  CopyIsComplete
  RemovalsFinish
PROPERTIES
  SuccessMeansGone
  CallsReturn
CHECK_DEADLOCK FALSE
