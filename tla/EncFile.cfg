\* Every source of up to three chunks of two bytes, with and without a header,
\* none or one of the chunks damaged, every range, two truncations or writes.
CONSTANTS
  DataChunk = 2
  Overhead = 3
  KdfSize = 2
  FileSizes = {0, 1, 2, 3, 4, 5, 6}
  MaxOffset = 7
  MaxOps = 2
SPECIFICATION Spec
INVARIANTS
  DeliversARunOfTheRange
  DeliversTheWholeRange
  WholeChunkDecrypts
PROPERTIES
  TruncateIsExact
  FailedTruncateSparesTheRest
CHECK_DEADLOCK FALSE
