\* Chunks of two bytes with one byte of overhead, sources of up to three
\* chunks, with and without a header of two bytes.
CONSTANTS
  DataChunk = 2
  Overhead = 1
  KdfSize = 2
  FileSizes = {0, 1, 3, 4, 5}
  Requests = {1, 3, 4, 12}
  MaxCalls = 3
  MaxFailures = 1
SPECIFICATION Spec
INVARIANTS
  DeliversTheCipher
PROPERTIES
  ReadsAllThatIsLeft
CHECK_DEADLOCK FALSE
