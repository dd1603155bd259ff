---------------------------- MODULE MCAuthenticator ----------------------------
(* A small instance of Authenticator for TLC.                              *)
EXTENDS Authenticator, TLC

CONSTANTS u1, u2, t1, t2, h1, h2

TwoUsers == {u1, u2}
TwoThreads == {t1, t2}
TwoHandles == {h1, h2}

(* A request that is well formed, and one entry of it spoilt.              *)
Good(type) == [verb |-> "put", body |-> "object", requestType |-> type,
               schema |-> "known", eventIdentifier |-> "known"]
SomeMessages ==
    {Good("availableSchemas"), [Good("hash") EXCEPT !.schema = "unknown"],
     [Good("eventData") EXCEPT !.eventIdentifier = "number"],
     [Good("accept") EXCEPT !.verb = "delete"]}

Symmetry == Permutations(TwoUsers) \union Permutations(TwoThreads)
                \union Permutations(TwoHandles)
=============================================================================
