SPECIFICATION QuerySpec
CONSTANTS
    Kinds = {"select", "update", "delete"}
    Rows = 3
    Values = {1, 2}
    Null = Null
    Texts = {2}
    Odd = {3}
    Handles = {h1, h2}
    MaxBuilt = 6
    MaxReads = 3
    MaxFaults = 1
INVARIANTS QueryIsTheOneMeant RunsOnce
PROPERTIES AnswersTheQuestion
CHECK_DEADLOCK FALSE
