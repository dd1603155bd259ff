SPECIFICATION CallbackSpec
CONSTANTS
    t1 = t1
    t2 = t2
    o1 = o1
    o2 = o2
    v1 = v1
    v2 = v2
    Absent = absent
    Unusable = unusable
    Threads <- OneThread
    Origins <- TwoOrigins
    Values <- TwoValues
    ReadsFail = TRUE
    MaxId = 2
    Older = 1
    MaxOthers = 0
    MaxRewrites = 0
INVARIANT
    AcceptedIsInAQMS
