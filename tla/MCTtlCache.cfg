SPECIFICATION FairSpec
CONSTANTS
    k1 = k1
    k2 = k2
    Keys = {k1, k2}
    Values = {0, 1, 2}
    Threads = {t1, t2}
    Objects = {x1, x2, x3, x4, x5, x6, x7}
    Nobody = Nobody
    ComparedKeys <- OneWay
    Durations = {1, 2}
    MaxTime = 1
    MaxCalls = 3
    None = None
INVARIANTS HandleIsTheEntry AnswersForOneInstant
PROPERTIES PurgeIsExact EveryCallReturns
CHECK_DEADLOCK FALSE
