SPECIFICATION Spec
CONSTANTS
    t1 = t1
    t2 = t2
    o1 = o1
    o2 = o2
    v1 = v1
    v2 = v2
    Absent = absent
    Threads <- OneThread
    Origins <- TwoOrigins
    Values <- TwoValues
    ReadsFail = TRUE
    MaxId = 3
    Older = 2
    MaxOthers = 1
SYMMETRY Symmetry
INVARIANTS
    TypeOK
    OneCoda
    PreferredExists
    ClientInv
    WorkInv
PROPERTY
    AllOrNothing
