SPECIFICATION Spec
CONSTANTS
    e1 = e1
    n1 = n1
    e2 = e2
    e3 = e3
    a = a
    b = b
    c = c
    Streams <- FourStreams
    Stations <- ThreeStations
    StationOf <- TwoAtA
    Documents <- SomeDocuments
INVARIANTS
    EveryValueShown
    ResidualsAreOfTheFit
    ColumnsAreRight
    StoredIsShown
CHECK_DEADLOCK FALSE
