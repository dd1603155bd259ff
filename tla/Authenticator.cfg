SPECIFICATION Spec
CONSTANTS
    u1 = u1
    u2 = u2
    t1 = t1
    t2 = t2
    h1 = h1
    h2 = h2
    Users <- TwoUsers
    Threads <- TwoThreads
    Handles <- TwoHandles
    Messages <- SomeMessages
    Expiration = 1
    Leeway = 1
    MaxClock = 5
    MaxRestarts = 1
    MaxLogins = 3
SYMMETRY Symmetry
INVARIANTS
    TypeOK
    TokenWorks
    HandleIsSound
PROPERTY AuthorizedByLogin
CHECK_DEADLOCK FALSE
