SPECIFICATION HistorySpec
CONSTANTS
    s1 = s1
    s2 = s2
    e1 = e1
    e2 = e2
    u1 = u1
    u2 = u2
    Poller = poller
    None = none
    Schemas <- OneSchema
    Events <- OneEvent
    Reviewers <- TwoReviewers
    Times <- Times2
    ClockSteps <- AnyStep
    RowLimit = 1
    MaxWrites = 2
    MaxRestarts = 1
SYMMETRY ReviewerSymmetry
INVARIANT AnswerInv
PROPERTIES
    AcknowledgedReview
    KeepsPromises
