------------------------------- MODULE MCStartUp -------------------------------
(* A small instance of StartUp, and with it of HttpService, for TLC.       *)
EXTENDS StartUp

CONSTANTS c1, c2

(* The second client connects and never says anything.                     *)
TwoConnections == {c1, c2}
RequestsOf == [c \in TwoConnections |-> IF c = c1 THEN 2 ELSE 0]
BothSchemas == {"production", "test"}

(* A call, which may succeed, over a connection that is to be kept, and a  *)
(* request the parser refuses.                                             *)
SomeRequests ==
    {[verb |-> "call", keep |-> TRUE], [verb |-> "malformed", keep |-> FALSE]}
SomeOutcomes == {"payload", "InvalidPermissionException"}

(* Everything inline, and up to one entry other than that.                 *)
Good(k) == [inline |-> "value", file |-> "absent"]
Variants(k) ==
    IF k \in SecretKeys THEN [inline : Inline \ {"garbage", "zero"}, file : File]
    ELSE IF k \in PortKeys
         THEN [inline : {"absent", "garbage", "zero", "value"}, file : {"absent"}]
    ELSE IF k = <<"Beast", "numberOfThreads">>
         THEN [inline : {"absent", "zero", "value"}, file : {"absent"}]
    ELSE IF k = <<"Beast", "address">>
         THEN [inline : {"absent", "empty", "garbage", "value"}, file : {"absent"}]
    ELSE [inline : {"absent", "empty", "value"}, file : {"absent"}]
OneVaried ==
    UNION {{[j \in Keys |-> IF j = k THEN v ELSE Good(j)] : v \in Variants(k)} :
           k \in Keys}
=============================================================================
