------------------------- MODULE MCCCTPostgresService --------------------------
(* Small instances of CCTPostgresService for TLC.                          *)
EXTENDS CCTPostgresService, TLC

CONSTANTS s1, s2, e1, e2, u1, u2

OneSchema == {s1}
TwoSchemas == {s1, s2}
OneEvent == {e1}
TwoEvents == {e1, e2}
OneReviewer == {u1}
TwoReviewers == {u1, u2}

Times2 == 0..2
Times3 == 0..3
Times4 == 0..4

AnyStep == {0, 1}
DistinctStamps == {1}

EventSymmetry == Permutations({e1, e2})
ReviewerSymmetry == Permutations({u1, u2})
=============================================================================
