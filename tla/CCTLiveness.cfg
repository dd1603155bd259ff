SPECIFICATION FairSpec
CONSTANTS
    s1 = s1
    s2 = s2
    e1 = e1
    e2 = e2
    u1 = u1
    u2 = u2
    Poller = poller
    None = none
    Schemas <- TwoSchemas
    Events <- OneEvent
    Reviewers <- OneReviewer
    Times <- Times2
    ClockSteps <- DistinctStamps
    RowLimit = 1
    MaxWrites = 1
    MaxRestarts = 0
PROPERTIES
    Converges
    ReviewsAreAnswered
