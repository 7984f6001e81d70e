\* One failing read of the source, and a retry.
CONSTANTS
  DataChunk = 2
  Overhead = 1
  KdfSize = 2
  FileSizes = {3}
  Requests = {4}
  MaxCalls = 2
  MaxFailures = 1
SPECIFICATION Spec
INVARIANT SuccessIsCipher
CHECK_DEADLOCK FALSE
