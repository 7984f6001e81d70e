--------------------------- MODULE MCDirectoryTree ---------------------------
EXTENDS DirectoryTree, TLC
CONSTANTS mover, remover, file, link, below, sub, root
\* A file, a link and a subdirectory with a file in it.
Tree == [x \in {file, link, sub} |-> root] @@ [x \in {below} |-> sub]
\* One worker copies or moves, the other removes.
Callable == (mover :> {"copy", "move", "stay"}) @@ (remover :> {"remove"})
=============================================================================
