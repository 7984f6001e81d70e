SPECIFICATION JsonSpec
CONSTANTS
    Objects = {f, g}
    Paths = {a, b}
    Inodes = {i1, i2, i3, i4, i5}
    Bytes = {0, 1}
    Hole = 0
    MaxLen = 2
    MaxCalls = 5
    JsonPath = a
    Documents <- MCDocuments
    BufferSize = 1
    MaxJson = 5
    None = None
SYMMETRY Symmetry
INVARIANTS OnlyRejectedBytesLinger ReadsWhatWasWritten
PROPERTIES StaysOnItsFile NamesTheSameFile
CHECK_DEADLOCK FALSE
