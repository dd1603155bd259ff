SPECIFICATION StartUpSpec
CONSTANTS
    c1 = c1
    c2 = c2
    Connections <- TwoConnections
    Requests <- SomeRequests
    Outcomes <- SomeOutcomes
    NumThreads = 1
    MaxSessions = 1
    MaxRequests <- RequestsOf
    Schemas <- BothSchemas
    Inis <- OneVaried
INVARIANTS
    HttpTypeOK
    RequestsInOrder
    OnlyLastInDoubt
    NothingAfterSuccess
    ServesWhenComplete
PROPERTIES
    NeverGuesses
    StartUpEnds
    EverySessionEnds
    EveryClientIsAccepted
CHECK_DEADLOCK FALSE
