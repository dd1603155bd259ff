------------------------------ MODULE MCCallback -------------------------------
(* Small instances of Callback for TLC.                                    *)
EXTENDS Callback, TLC

CONSTANTS t1, t2, o1, o2, v1, v2

OneThread == {t1}
TwoThreads == {t1, t2}
TwoOrigins == {o1, o2}
TwoValues == {v1, v2}

(* Bound: the event is changed at most once from outside, by another       *)
(* program in AQMS or by the pipeline in the CCT database.  TLC explores   *)
(* no further from a state that has both changes.                          *)
OneChange == others + rewrites <= 1

Symmetry == Permutations({o1, o2}) \union Permutations({v1, v2})
=============================================================================
