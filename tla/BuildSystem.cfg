\* Boost, in the two versions there are archives of, and the library that decides which is built.
\* Room for a download taken up again, and for: create, a cleanup cut short, update, make.
CONSTANTS
  Libraries = {"BOOST", "LIBBITCOIN_SYSTEM"}
  Kept = {}
  MaxGrabs = 2
  MaxScripts = 4
  MaxInterrupts = 1
SPECIFICATION Spec
INVARIANTS
  InUseStaysWhole
  CleanupIsComplete
  GrabKeepsOnlyGoodArchives
  DependenciesAreOn
CHECK_DEADLOCK FALSE
