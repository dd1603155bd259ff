------------------------- MODULE MCAQMSPostgresClient --------------------------
(* Small instances of AQMSPostgresClient for TLC.                          *)
EXTENDS AQMSPostgresClient, TLC

CONSTANTS t1, t2, o1, o2, v1, v2

OneThread == {t1}
TwoThreads == {t1, t2}
OneOrigin == {o1}
TwoOrigins == {o1, o2}
OneValue == {v1}
TwoValues == {v1, v2}

Symmetry == Permutations({o1, o2}) \union Permutations({v1, v2})
=============================================================================
