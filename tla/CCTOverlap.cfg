SPECIFICATION Spec
CONSTANTS
    s1 = s1
    s2 = s2
    e1 = e1
    e2 = e2
    u1 = u1
    u2 = u2
    Poller = poller
    None = none
    Schemas <- OneSchema
    Events <- TwoEvents
    Reviewers <- OneReviewer
    Times <- Times4
    ClockSteps <- DistinctStamps
    RowLimit = 2
    MaxWrites = 2
    MaxRestarts = 0
INVARIANT NothingLostToOverlap
