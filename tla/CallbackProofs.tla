----------------------------- MODULE CallbackProofs -----------------------------
(***************************************************************************)
(* Proofs about Callback: type correctness for any number of threads, and, *)
(* for a single request thread, that a review changes AQMS before it is    *)
(* stored, that a review answered with success was done, and that reviews  *)
(* change the AQMS tables in whole steps.                                  *)
(***************************************************************************)
EXTENDS Callback, AQMSPostgresClientProofs

(* The call of each stage, and the arguments it has.                       *)
CallsOK ==
    \A t \in Threads :
        /\ stage[t] \in {"idle", "store", "answered"} =>
              op[t] = "none" /\ at[t] = "idle"
        /\ at[t] = "origin" => op[t] = "origin"
        /\ stage[t] = "origin" => op[t] = "origin" /\ request[t] = "accept"
        /\ stage[t] = "origin" /\ at[t] = "returned" => orid[t] \in Origins
        /\ stage[t] = "find" =>
              /\ op[t] = "find" /\ request[t] = "accept"
              /\ val[t] \in Values /\ orid[t] \in Origins
        /\ stage[t] = "exists" => op[t] = "exists" /\ request[t] = "reject"
        /\ stage[t] = "change" =>
              \/ request[t] = "accept" /\ op[t] \in {"insert", "update"}
              \/ request[t] = "reject" /\ op[t] = "delete"

(* The types of what a request keeps.                                      *)
RequestOK ==
    /\ size \in Sizes /\ cached \in Sizes \union {Absent}
    /\ recent \in SUBSET Sizes
    /\ status \in Statuses /\ rewrites \in 0..MaxRewrites
    /\ request \in [Threads -> Requests \union {"none"}]
    /\ stage \in [Threads -> Stages]
    /\ answer \in [Threads -> Answer]
    /\ misled \in [Threads -> BOOLEAN]

CallbackTypeInv == TypeInv /\ RequestOK /\ CallsOK

LEMMA CallbackTypeParts == CallbackTypeInv => CallbackTypeOK
BY DEF CallbackTypeInv, TypeInv, RequestOK, CallbackTypeOK

-----------------------------------------------------------------------------
(***************************************************************************)
(* Types.                                                                  *)
(***************************************************************************)
(* A call begins or is left, and the shared tables stay.                   *)
LEMMA BeginType ==
    ASSUME TypeInv, NEW t \in Threads, NEW o \in Operations,
           NEW origin \in Origins \union {Absent},
           NEW v \in Values \union {Absent},
           NEW i \in Ids \union {FalseId, NoMagnitude},
           o = "insert" => origin \in Origins,
           o \in {"insert", "update"} => v \in Values,
           o = "update" => i # NoMagnitude,
           StartCall(t, o, origin, v, i), UNCHANGED aqmsVars
    PROVE  TypeInv'
<1>1. LocalsOK /\ ArgumentsOK /\ SharedOK'
  BY TypeParts DEF TypeInv, SharedOK, aqmsVars
<1>2. LocalsOK' /\ ArgumentsOK'
  BY <1>1, StartCallType
<1> QED
  BY <1>1, <1>2 DEF TypeInv, TypeOK, SharedOK, LocalsOK

(* What StartCall makes of the locals of its thread and of the others.     *)
LEMMA BegunCall ==
    ASSUME TypeInv, NEW t \in Threads, NEW o, NEW origin, NEW v, NEW i,
           StartCall(t, o, origin, v, i)
    PROVE  /\ op'[t] = o /\ orid'[t] = origin /\ val'[t] = v /\ id'[t] = i
           /\ found'[t] = FALSE
           /\ o = "none" => at'[t] = "idle"
           /\ o = "origin" => at'[t] = "origin"
           /\ o \notin {"none", "origin"} => at'[t] = "exists"
           /\ \A u \in Threads : u # t =>
                op'[u] = op[u] /\ orid'[u] = orid[u] /\ val'[u] = val[u]
                /\ at'[u] = at[u]
<1>1. LocalsOK
  BY TypeParts DEF TypeInv
<1>2. at'[t] = (CASE o = "none" -> "idle" [] o = "origin" -> "origin"
                  [] OTHER -> "exists")
  BY <1>1 DEF StartCall, Goto, LocalsOK
<1> QED
  BY <1>1, <1>2 DEF StartCall, Goto, LocalsOK

(* A step within a call keeps the call and its arguments, but for the      *)
(* origin, which a call for the origin sets.                               *)
LEMMA WithinCall ==
    ASSUME TypeInv, CallsOK, NEW t \in Threads, ClientStep(t)
    PROVE  /\ op' = op /\ val' = val
           /\ op[t] # "origin" => orid' = orid
           /\ op[t] = "origin" /\ at'[t] = "returned" => orid'[t] = View.prefor
           /\ op[t] # "none" /\ at[t] # "idle" /\ at'[t] # "origin"
           /\ \A u \in Threads : u # t => at'[u] = at[u] /\ orid'[u] = orid[u]
<1>1. LocalsOK /\ ArgumentsOK
  BY TypeParts DEF TypeInv
<1>2. at[t] \in {"origin", "exists", "find"} \union ChangePlaces
  BY DEF ClientStep, ReadOrigin, ReadExistence, ReadIdentifier, ReadPreferred,
         ConnectionBroken, BeginTransaction, InsertMagnitude, UpdateMagnitude,
         DeleteMagnitude, Prefer, Replace, Record, Commit, StatementFails,
         ChangePlaces
<1>3. op' = op /\ val' = val
  BY DEF ClientStep, ReadOrigin, ReadExistence, ReadIdentifier, ReadPreferred,
         ConnectionBroken, BeginTransaction, InsertMagnitude, UpdateMagnitude,
         DeleteMagnitude, Prefer, Replace, Record, Commit, StatementFails,
         localVars
<1>4. \A u \in Threads : u # t => at'[u] = at[u]
  BY <1>1
     DEF ClientStep, ReadOrigin, ReadExistence, ReadIdentifier, ReadPreferred,
         ConnectionBroken, BeginTransaction, InsertMagnitude, UpdateMagnitude,
         DeleteMagnitude, Prefer, Replace, Record, Commit, StatementFails,
         Goto, LocalsOK
<1>5. ~ReadOrigin(t) => orid' = orid
  BY DEF ClientStep, ReadExistence, ReadIdentifier, ReadPreferred,
         ConnectionBroken, BeginTransaction, InsertMagnitude, UpdateMagnitude,
         DeleteMagnitude, Prefer, Replace, Record, Commit, StatementFails,
         localVars
<1>6. ReadOrigin(t) =>
        /\ op[t] = "origin"
        /\ at'[t] = "returned" => orid'[t] = View.prefor
        /\ \A u \in Threads : u # t => orid'[u] = orid[u]
  BY <1>1 DEF ReadOrigin, CallsOK, Goto, LocalsOK
<1>7. op[t] # "none"
  BY <1>1, <1>2 DEF ArgumentsOK, CallsOK, ChangePlaces, Changes
<1>8. at'[t] # "origin"
  BY <1>1
     DEF ClientStep, ReadOrigin, ReadExistence, ReadIdentifier, ReadPreferred,
         ConnectionBroken, BeginTransaction, InsertMagnitude, UpdateMagnitude,
         DeleteMagnitude, Prefer, Replace, Record, Commit, StatementFails,
         Goto, LocalsOK, AfterExists
<1>9. ASSUME op[t] = "origin", at'[t] = "returned", ~ReadOrigin(t) PROVE FALSE
  <2>1. at[t] = "origin"
    BY <1>1, <1>2, <1>9 DEF ArgumentsOK, ChangePlaces, Changes
  <2> QED  BY <1>1, <1>9, <2>1
     DEF ClientStep, ReadExistence, ReadIdentifier, ReadPreferred,
         ConnectionBroken, BeginTransaction, InsertMagnitude, UpdateMagnitude,
         DeleteMagnitude, Prefer, Replace, Record, Commit, StatementFails,
         Goto, LocalsOK
<1>10. at[t] # "idle"
  BY <1>2 DEF ChangePlaces
<1>11. op[t] # "origin" => orid' = orid
  BY <1>5, <1>6
<1>12. op[t] = "origin" /\ at'[t] = "returned" => orid'[t] = View.prefor
  BY <1>6, <1>9
<1>13. \A u \in Threads : u # t => orid'[u] = orid[u]
  BY <1>5, <1>6
<1> QED  BY <1>3, <1>4, <1>7, <1>8, <1>10, <1>11, <1>12, <1>13

LEMMA ClientType ==
    ASSUME CallbackTypeInv, NEW t \in Threads, Client(t)
    PROVE  CallbackTypeInv'
<1>1. TypeInv /\ RequestOK /\ CallsOK /\ ClientStep(t)
  BY DEF CallbackTypeInv, Client
<1>2. TypeInv'
  BY <1>1, NextType DEF Next
<1>3. RequestOK'
  <2>1. misled' \in [Threads -> BOOLEAN]
    <3>1. PICK b \in BOOLEAN : misled' = [misled EXCEPT ![t] = b]
      <4>1. (misled[t] \/ Misled(t)) \in BOOLEAN
        OBVIOUS
      <4> QED  BY <4>1 DEF Client
    <3> QED  BY <1>1, <3>1 DEF RequestOK
  <2> QED  BY <1>1, <2>1 DEF RequestOK, Client, cctVars
<1>4. CallsOK'
  <2>1. /\ op' = op /\ val' = val
        /\ op[t] # "origin" => orid' = orid
        /\ op[t] = "origin" /\ at'[t] = "returned" => orid'[t] = View.prefor
        /\ op[t] # "none" /\ at[t] # "idle" /\ at'[t] # "origin"
        /\ \A u \in Threads : u # t => at'[u] = at[u] /\ orid'[u] = orid[u]
    BY <1>1, WithinCall
  <2>2. View.prefor \in Origins
    BY <1>1, TypeParts, ViewType, DatabaseFields DEF TypeInv
  <2>3. stage' = stage /\ request' = request
    BY DEF Client
  <2> QED  BY <1>1, <2>1, <2>2, <2>3 DEF CallsOK
<1> QED  BY <1>2, <1>3, <1>4 DEF CallbackTypeInv

(* A thread goes on with its request r in stage s: it begins call o, or    *)
(* leaves it; and the call is one that fits the stage.                     *)
Moves(t, o, origin, v, i, s, r) ==
    /\ StartCall(t, o, origin, v, i) /\ UNCHANGED <<aqmsVars, cctVars>>
    /\ stage' = [stage EXCEPT ![t] = s]
    /\ request' = [request EXCEPT ![t] = r]
    /\ answer' \in [Threads -> Answer] /\ misled' \in [Threads -> BOOLEAN]

Fits(o, origin, v, i, s, r) ==
    /\ o \in Operations /\ s \in Stages /\ r \in Requests \union {"none"}
    /\ origin \in Origins \union {Absent} /\ v \in Values \union {Absent}
    /\ i \in Ids \union {FalseId, NoMagnitude}
    /\ o \in {"insert", "find"} => origin \in Origins
    /\ o \in {"insert", "update", "find"} => v \in Values
    /\ o = "update" => i # NoMagnitude
    /\ s \in {"idle", "store", "answered"} => o = "none"
    /\ s = "origin" => o = "origin" /\ r = "accept"
    /\ s = "find" => o = "find" /\ r = "accept"
    /\ s = "exists" => o = "exists" /\ r = "reject"
    /\ s = "change" => \/ r = "accept" /\ o \in {"insert", "update"}
                       \/ r = "reject" /\ o = "delete"

LEMMA RequestType ==
    ASSUME CallbackTypeInv, NEW t \in Threads,
           NEW o, NEW origin, NEW v, NEW i, NEW s, NEW r,
           Moves(t, o, origin, v, i, s, r), Fits(o, origin, v, i, s, r)
    PROVE  CallbackTypeInv'
<1> USE DEF Moves, Fits
<1>1. TypeInv /\ RequestOK /\ CallsOK
  BY DEF CallbackTypeInv
<1>2. TypeInv'
  BY <1>1, BeginType
<1>3. RequestOK'
  BY <1>1 DEF RequestOK, cctVars
<1>4. /\ op'[t] = o /\ orid'[t] = origin /\ val'[t] = v
      /\ o = "none" => at'[t] = "idle"
      /\ o = "origin" => at'[t] = "origin"
      /\ o \notin {"none", "origin"} => at'[t] = "exists"
      /\ \A u \in Threads : u # t =>
            op'[u] = op[u] /\ orid'[u] = orid[u] /\ val'[u] = val[u]
            /\ at'[u] = at[u]
  BY <1>1, BegunCall
<1>5. /\ stage'[t] = s /\ request'[t] = r
      /\ \A u \in Threads : u # t => stage'[u] = stage[u] /\ request'[u] = request[u]
  BY <1>1 DEF RequestOK
<1>6. ASSUME NEW u \in Threads
      PROVE  /\ stage'[u] \in {"idle", "store", "answered"} =>
                    op'[u] = "none" /\ at'[u] = "idle"
             /\ at'[u] = "origin" => op'[u] = "origin"
             /\ stage'[u] = "origin" => op'[u] = "origin" /\ request'[u] = "accept"
             /\ stage'[u] = "origin" /\ at'[u] = "returned" => orid'[u] \in Origins
             /\ stage'[u] = "find" =>
                    /\ op'[u] = "find" /\ request'[u] = "accept"
                    /\ val'[u] \in Values /\ orid'[u] \in Origins
             /\ stage'[u] = "exists" => op'[u] = "exists" /\ request'[u] = "reject"
             /\ stage'[u] = "change" =>
                    \/ request'[u] = "accept" /\ op'[u] \in {"insert", "update"}
                    \/ request'[u] = "reject" /\ op'[u] = "delete"
  <2>1. CASE u = t
    BY <1>4, <1>5, <2>1
  <2>2. CASE u # t
    BY <1>1, <1>4, <1>5, <2>2 DEF CallsOK
  <2> QED  BY <2>1, <2>2
<1>7. CallsOK'
  BY <1>6 DEF CallsOK
<1> QED  BY <1>2, <1>3, <1>7 DEF CallbackTypeInv

(* The steps of a request, each a call begun or left.                      *)
LEMMA ServeType ==
    ASSUME CallbackTypeInv, NEW t \in Threads, Serve(t)
    PROVE  CallbackTypeInv'
<1>1. TypeInv /\ RequestOK /\ CallsOK /\ LocalsOK
  BY TypeParts DEF CallbackTypeInv, TypeInv
<1>2. /\ answer \in [Threads -> Answer] /\ misled \in [Threads -> BOOLEAN]
      /\ request[t] \in Requests \union {"none"}
      /\ request \in [Threads -> Requests \union {"none"}]
      /\ orid[t] \in Origins \union {Absent}
      /\ val[t] \in Values \union {Absent}
      /\ id[t] \in Ids \union {FalseId, NoMagnitude}
  BY <1>1 DEF RequestOK, LocalsOK
<1>3. request = [request EXCEPT ![t] = request[t]]
  BY <1>2
<1>4. /\ \A a \in Answer : [answer EXCEPT ![t] = a] \in [Threads -> Answer]
      /\ \A b \in BOOLEAN : [misled EXCEPT ![t] = b] \in [Threads -> BOOLEAN]
  BY <1>2
<1>5. /\ NoAnswer \in Answer
      /\ [status |-> "failure", reason |-> TRUE] \in Answer
      /\ [status |-> "success", reason |-> FALSE] \in Answer
      /\ [status |-> StatusOfFailure(request[t]), reason |-> TRUE] \in Answer
  BY DEF NoAnswer, Answer, StatusOfFailure
<1>6. ASSUME NEW q \in Requests, UnknownEvent(t, q) PROVE CallbackTypeInv'
  <2>1. TypeInv' /\ UNCHANGED clientVars
    BY <1>1, <1>6, NextType DEF UnknownEvent
  <2>2. RequestOK'
    BY <1>1, <1>4, <1>5, <1>6
    DEF RequestOK, UnknownEvent, ToStage, cctVars, Stages
  <2>3. CallsOK'
    BY <1>1, <1>6 DEF CallsOK, RequestOK, UnknownEvent, ToStage, clientVars
  <2> QED  BY <2>1, <2>2, <2>3 DEF CallbackTypeInv
<1>7. ASSUME AcceptBegin(t) PROVE CallbackTypeInv'
  <2>1. Moves(t, "origin", Absent, Magnitude, NoMagnitude, "origin",
                 "accept")
    BY <1>2, <1>4, <1>7 DEF Moves, AcceptBegin, ToStage
  <2>2. Fits("origin", Absent, Magnitude, NoMagnitude, "origin",
                 "accept")
    BY <1>1 DEF Magnitude, RequestOK, Sizes, Fits, Operations, Stages, Requests
  <2> QED  BY <2>1, <2>2, RequestType
<1>8. ASSUME AcceptFind(t), val[t] = Absent PROVE CallbackTypeInv'
  <2>1. Moves(t, "none", Absent, Absent, NoMagnitude, "answered", request[t])
    BY <1>2, <1>3, <1>4, <1>5, <1>8 DEF Moves, AcceptFind, CatchException, Leave, ToStage
  <2>2. Fits("none", Absent, Absent, NoMagnitude, "answered", request[t])
    BY <1>2 DEF Fits, Operations, Stages, Requests
  <2> QED  BY <2>1, <2>2, RequestType
<1>9. ASSUME AcceptFind(t), val[t] # Absent PROVE CallbackTypeInv'
  <2>1. Moves(t, "find", orid[t], val[t], NoMagnitude, "find", request[t])
    BY <1>2, <1>3, <1>9 DEF Moves, AcceptFind, ToStage
  <2>2. Fits("find", orid[t], val[t], NoMagnitude, "find", request[t])
    BY <1>1, <1>2, <1>9 DEF AcceptFind, CallsOK, Fits, Operations, Stages, Requests
  <2> QED  BY <2>1, <2>2, RequestType
<1>10. ASSUME AcceptChange(t) PROVE CallbackTypeInv'
  <2> DEFINE o == IF id[t] # NoMagnitude THEN "update" ELSE "insert"
  <2>1. Moves(t, o, orid[t], val[t], id[t], "change", request[t])
    BY <1>2, <1>3, <1>10 DEF Moves, AcceptChange, ToStage, requestVars
  <2>2. Fits(o, orid[t], val[t], id[t], "change", request[t])
    BY <1>1, <1>2, <1>10 DEF AcceptChange, CallsOK, Fits, Operations, Stages, Requests
  <2> QED  BY <2>1, <2>2, RequestType
<1>11. ASSUME RejectBegin(t) PROVE CallbackTypeInv'
  <2>1. Moves(t, "exists", Absent, Absent, NoMagnitude, "exists", "reject")
    BY <1>2, <1>4, <1>11 DEF Moves, RejectBegin, ToStage
  <2>2. Fits("exists", Absent, Absent, NoMagnitude, "exists", "reject")
    BY <1>2 DEF Fits, Operations, Stages, Requests
  <2> QED  BY <2>1, <2>2, RequestType
<1>12. ASSUME RejectChange(t), found[t] PROVE CallbackTypeInv'
  <2>1. Moves(t, "delete", Absent, Absent, NoMagnitude, "change", request[t])
    BY <1>2, <1>3, <1>12 DEF Moves, RejectChange, ToStage, requestVars
  <2>2. Fits("delete", Absent, Absent, NoMagnitude, "change", request[t])
    BY <1>1, <1>2, <1>12 DEF RejectChange, CallsOK, Fits, Operations, Stages, Requests
  <2> QED  BY <2>1, <2>2, RequestType
<1>13. ASSUME RejectChange(t), ~found[t] PROVE CallbackTypeInv'
  <2>1. Moves(t, "none", Absent, Absent, NoMagnitude, "store", request[t])
    BY <1>2, <1>3, <1>13 DEF Moves, RejectChange, ToStage, Leave, requestVars
  <2>2. Fits("none", Absent, Absent, NoMagnitude, "store", request[t])
    BY <1>2 DEF Fits, Operations, Stages, Requests
  <2> QED  BY <2>1, <2>2, RequestType
<1>14. ASSUME Changed(t) PROVE CallbackTypeInv'
  <2>1. Moves(t, "none", Absent, val[t], NoMagnitude, "store", request[t])
    BY <1>2, <1>3, <1>14 DEF Moves, Changed, ToStage, Leave, requestVars
  <2>2. Fits("none", Absent, val[t], NoMagnitude, "store", request[t])
    BY <1>2 DEF Fits, Operations, Stages, Requests
  <2> QED  BY <2>1, <2>2, RequestType
<1>15. ASSUME CallThrows(t) PROVE CallbackTypeInv'
  <2>1. Moves(t, "none", Absent, Absent, NoMagnitude, "answered", request[t])
    BY <1>2, <1>3, <1>4, <1>5, <1>15 DEF Moves, CallThrows, CatchException, ToStage, Leave
  <2>2. Fits("none", Absent, Absent, NoMagnitude, "answered", request[t])
    BY <1>2 DEF Fits, Operations, Stages, Requests
  <2> QED  BY <2>1, <2>2, RequestType
<1>16. ASSUME Store(t) PROVE CallbackTypeInv'
  <2>1. TypeInv' /\ UNCHANGED clientVars
    BY <1>1, <1>16, NextType DEF Store
  <2>2. /\ stage' = [stage EXCEPT ![t] = "answered"]
        /\ answer' \in [Threads -> Answer]
        /\ status' \in Statuses
    BY <1>1, <1>4, <1>5, <1>16
    DEF Store, Succeed, CatchException, ToStage, RequestOK, ReviewStatus, Statuses
  <2>3. RequestOK'
    BY <1>1, <1>16, <2>2 DEF RequestOK, Store, Refreshed, Stages
  <2>4. CallsOK'
    BY <1>1, <1>16, <2>1, <2>2 DEF CallsOK, RequestOK, Store, clientVars
  <2> QED  BY <2>1, <2>3, <2>4 DEF CallbackTypeInv
<1>17. ASSUME Respond(t) PROVE CallbackTypeInv'
  <2>1. Moves(t, "none", Absent, Absent, NoMagnitude, "idle", "none")
    BY <1>2, <1>4, <1>5, <1>17 DEF Moves, Respond, ToStage, Leave
  <2>2. Fits("none", Absent, Absent, NoMagnitude, "idle", "none")
    BY <1>2 DEF Fits, Operations, Stages, Requests
  <2> QED  BY <2>1, <2>2, RequestType
<1> QED  BY <1>6, <1>7, <1>8, <1>9, <1>10, <1>11, <1>12, <1>13, <1>14, <1>15,
           <1>16, <1>17, ClientType DEF Serve

(* What happens outside of the requests.                                   *)
LEMMA OutsideType ==
    ASSUME CallbackTypeInv, OtherPrograms \/ PipelineRewrite \/ Poll \/ Restart
    PROVE  CallbackTypeInv'
<1>1. TypeInv /\ RequestOK /\ CallsOK
  BY DEF CallbackTypeInv
<1>2. TypeInv'
  BY <1>1, NextType
     DEF Next, OtherPrograms, PipelineRewrite, Poll, Restart
<1>3. misled' \in [Threads -> BOOLEAN]
  BY <1>1, Zenon
     DEF RequestOK, OtherPrograms, PipelineRewrite, Poll, Restart, OutOfDate,
         requestVars
<1>4. RequestOK'
  <2>1. CASE OtherPrograms
    BY <1>1, <1>3, <2>1 DEF RequestOK, OtherPrograms, cctVars
  <2>2. CASE PipelineRewrite
    BY <1>1, <1>3, <2>2, SizesAssumption
    DEF RequestOK, PipelineRewrite, Statuses
  <2>3. CASE Poll
    BY <1>1, <2>3 DEF RequestOK, Poll, Refreshed, requestVars
  <2>4. CASE Restart
    BY <1>1, <1>3, <2>4 DEF RequestOK, Restart, Stages, Answer, NoAnswer
  <2> QED  BY <2>1, <2>2, <2>3, <2>4
<1>5. CallsOK'
  <2>1. CASE OtherPrograms
    BY <1>1, <2>1 DEF CallsOK, OtherPrograms, Relocate, PreferOther, Elsewhere
  <2>2. CASE PipelineRewrite \/ Poll
    BY <1>1, <2>2 DEF CallsOK, PipelineRewrite, Poll, clientVars, requestVars
  <2>3. CASE Restart
    BY <2>3 DEF CallsOK, Restart, Die
  <2> QED  BY <2>1, <2>2, <2>3
<1> QED  BY <1>2, <1>4, <1>5 DEF CallbackTypeInv

LEMMA CallbackNextType == CallbackTypeInv /\ [CallbackNext]_vars => CallbackTypeInv'
<1> SUFFICES ASSUME CallbackTypeInv, [CallbackNext]_vars PROVE CallbackTypeInv'
  OBVIOUS
<1>1. ASSUME UNCHANGED vars PROVE CallbackTypeInv'
  <2>1. TypeInv'
    BY <1>1, NextType DEF CallbackTypeInv, vars
  <2>2. RequestOK' /\ CallsOK'
    BY <1>1 DEF CallbackTypeInv, RequestOK, CallsOK, vars, clientVars
  <2> QED  BY <2>1, <2>2 DEF CallbackTypeInv
<1> QED  BY <1>1, ServeType, OutsideType DEF CallbackNext

LEMMA CallbackInitType == CallbackInit => CallbackTypeInv
<1> SUFFICES ASSUME CallbackInit PROVE CallbackTypeInv
  OBVIOUS
<1>1. TypeInv
  BY InitType DEF CallbackInit
<1>2. RequestOK
  BY SizesAssumption
     DEF CallbackInit, RequestOK, Statuses, Stages, Answer, NoAnswer
<1>3. CallsOK
  BY DEF CallbackInit, CallsOK, Init, NoCalls
<1> QED  BY <1>1, <1>2, <1>3 DEF CallbackTypeInv

(* Whatever requests, statements that fail and other programs do, every    *)
(* variable has values of its kind, for any number of request threads.     *)
THEOREM CallbackTypeCorrect == CallbackSpec => []CallbackTypeOK
<1> QED  BY CallbackInitType, CallbackNextType, CallbackTypeParts, PTL
         DEF CallbackSpec

-----------------------------------------------------------------------------
(***************************************************************************)
(* Why the properties hold, for a single request thread.                   *)
(***************************************************************************)
(* The tables are as a review of kind r with magnitude v wants them.       *)
Done(d, r, v, x) ==
    IF r = "accept"
    THEN \E i \in CodaOfEvent(d) : d.netmag[i].val = v
    ELSE "insert" \in x \/ CodaOfEvent(d) = {}

DoneIn(d, t) == Done(d, request[t], val[t], excused)

(* What a review that is not misled knows of the tables, call by call.     *)
Knows(t) ==
    /\ \/ stage[t] = "origin" /\ at[t] = "returned"
       \/ stage[t] = "find"
       \/ stage[t] = "change" /\ op[t] = "insert"
          /\ at[t] \in {"exists", "prefmag", "begin", "modify"}
       => orid[t] = aqms.prefor
    /\ stage[t] = "find" /\ at[t] = "returned" =>
          id[t] \in CodaOfEvent(aqms) \union {NoMagnitude}
    /\ stage[t] = "exists" /\ at[t] = "returned" /\ ~found[t] =>
          CodaOfEvent(aqms) = {}
    /\ stage[t] = "change" =>
          /\ \/ op[t] = "update" /\ at[t] = "exists"
             \/ op[t] \in {"update", "delete"}
                /\ at[t] \in {"prefmag", "begin", "modify"}
             => id[t] \in CodaOfEvent(aqms)
          /\ at[t] \in {"prefer", "record", "commit"} => DoneIn(working, t)
          /\ at[t] = "returned" => DoneIn(aqms, t)
    /\ stage[t] = "store" => DoneIn(aqms, t)
    /\ stage[t] = "answered" /\ ~answer[t].reason =>
          DoneIn(aqms, t) /\ status = ReviewStatus(request[t])

(* What was found is a coda magnitude, misled or not.                      *)
FoundCoda ==
    \A t \in Threads : stage[t] = "find" =>
        /\ CodaIfAny(aqms, id[t])
        /\ at[t] \in {"exists", "find"} => id[t] = NoMagnitude

ReviewInv ==
    /\ CallbackTypeInv /\ ClientInv /\ FoundCoda
    /\ \A t \in Threads : misled[t] \/ Knows(t)

-----------------------------------------------------------------------------
(***************************************************************************)
(* What the statements do to the magnitudes a review is about.             *)
(***************************************************************************)
LEMMA SameDone ==
    ASSUME NEW d, NEW e, e.netmag = d.netmag, e.prefor = d.prefor
    PROVE  /\ CodaOfEvent(e) = CodaOfEvent(d)
           /\ \A r, v, x : Done(e, r, v, x) <=> Done(d, r, v, x)
<1>1. CodaOfEvent(e) = CodaOfEvent(d)
  BY DEF CodaOfEvent, Codas, Existing
<1> QED  BY <1>1 DEF Done

LEMMA InsertDone ==
    ASSUME NEW d \in Database, NEW i \in Ids, NEW v \in Values, NEW x
    PROVE  Done(InsertNetMag(d, i, d.prefor, v), "accept", v, x)
<1> DEFINE row == [orid |-> d.prefor, coda |-> TRUE, val |-> v]
           e == InsertNetMag(d, i, d.prefor, v)
<1>1. e.netmag = [d.netmag EXCEPT ![i] = row] /\ e.prefor = d.prefor
  BY DEF InsertNetMag, Database
<1>2. e.netmag[i] = row /\ row \in Row
  BY <1>1, DatabaseFields DEF Row
<1>3. row # Absent /\ row.orid = d.prefor /\ row.coda /\ row.val = v
  BY <1>2, AbsentAssumption
<1> HIDE DEF e, row
<1>4. i \in CodaOfEvent(e)
  BY <1>1, <1>2, <1>3 DEF CodaOfEvent, Codas, Existing
<1>5. Done(e, "accept", v, x)
  BY <1>2, <1>3, <1>4 DEF Done
<1> QED  BY <1>5 DEF e

LEMMA UpdateDone ==
    ASSUME NEW d \in Database, NEW i \in CodaOfEvent(d), NEW v \in Values, NEW x
    PROVE  Done(UpdateNetMag(d, i, v), "accept", v, x)
<1> DEFINE row == [orid |-> d.netmag[i].orid, coda |-> TRUE, val |-> v]
           e == UpdateNetMag(d, i, v)
<1>1. /\ i \in Ids /\ d.netmag[i] # Absent /\ d.netmag[i].orid = d.prefor
      /\ d.netmag[i] \in Row
  BY DatabaseFields DEF CodaOfEvent, Codas, Existing
<1>2. e.netmag[i] = row /\ e.prefor = d.prefor /\ row \in Row
  BY <1>1 DEF UpdateNetMag, Database, Row
<1>3. row # Absent /\ row.orid = d.prefor /\ row.coda /\ row.val = v
  BY <1>1, <1>2, AbsentAssumption
<1> HIDE DEF e, row
<1>4. i \in CodaOfEvent(e)
  BY <1>1, <1>2, <1>3 DEF CodaOfEvent, Codas, Existing
<1>5. Done(e, "accept", v, x)
  BY <1>2, <1>3, <1>4 DEF Done
<1> QED  BY <1>5 DEF e

LEMMA DeleteDone ==
    ASSUME NEW d \in Database, NEW i \in CodaOfEvent(d), NEW v, NEW x,
           "insert" \notin x => OneCodaIn(d)
    PROVE  Done(DeleteNetMag(d, i), "reject", v, x)
<1> DEFINE e == DeleteNetMag(d, i)
<1> SUFFICES ASSUME "insert" \notin x, NEW j \in CodaOfEvent(e) PROVE FALSE
  BY DEF Done
<1>1. /\ e.netmag = [k \in Ids |-> IF k = i /\ k \in Existing(d) /\ d.netmag[k].coda
                                   THEN Absent ELSE d.netmag[k]]
      /\ e.prefor = d.prefor
  BY DEF DeleteNetMag, Database
<1> HIDE DEF e
<1>2. j \in Ids /\ e.netmag[j] # Absent /\ e.netmag[j].coda
      /\ e.netmag[j].orid = d.prefor
  BY <1>1 DEF CodaOfEvent, Codas, Existing
<1>3. i \in Existing(d) /\ d.netmag[i].coda /\ i \in Codas(d, d.prefor)
  BY DEF CodaOfEvent, Codas
<1>4. j # i /\ e.netmag[j] = d.netmag[j]
  BY <1>1, <1>2, <1>3
<1>5. j \in Codas(d, d.prefor)
  BY <1>2, <1>4 DEF Codas, Existing
<1>6. OneCodaIn(d) /\ d.prefor \in Origins
  BY DatabaseFields
<1> QED  BY <1>3, <1>4, <1>5, <1>6 DEF OneCodaIn

(* The statements after the change keep the rows of netmag and the origin. *)
LEMMA LaterPrefor ==
    ASSUME ClientInv, NEW t \in Threads, Prefer(t) \/ Replace(t) \/ Record(t)
    PROVE  working'.prefor = working.prefor
<1>1. /\ SessionInv /\ TypeOK /\ View = working /\ working \in Database
      /\ tx = "open"
  <2>1. SessionInv /\ TypeOK /\ View = working /\ working \in Database
    BY ViewIsWorking DEF ClientInv, TypeInv, TypeOK
  <2>2. at[t] \notin Reading
    BY DEF Prefer, Replace, Record, Reading
  <2> QED  BY <2>1, <2>2, Open
<1>2. PICK d : Write(d) /\ d.prefor = working.prefor
  <2>1. CASE Prefer(t)
    <3>1. PICK d : /\ Write(d)
                   /\ \/ d \in SetPrefMagOfEvent(working)
                      \/ \E p : d \in SetPrefMag(working, p)
      BY <1>1, <2>1 DEF Prefer
    <3>2. d.prefor = working.prefor
      BY <1>1, <3>1 DEF SetPrefMagOfEvent, SetPrefMag, Database
    <3> QED  BY <3>1, <3>2
  <2>2. CASE Replace(t) /\ changePrefMag(t)
    <3>1. PICK d \in SetPrefMagOfEventByPrefor(working) : Write(d)
      BY <1>1, <2>2 DEF Replace
    <3>2. d.prefor = working.prefor
      BY <1>1, <3>1 DEF SetPrefMagOfEventByPrefor, Database
    <3> QED  BY <3>1, <3>2
  <2>3. CASE Replace(t) /\ ~changePrefMag(t)
    BY <1>1, <2>3 DEF Replace
  <2>4. CASE Record(t)
    <3>1. PICK l : Write([working EXCEPT !.listed = l])
      BY <1>1, <2>4 DEF Record
    <3>2. [working EXCEPT !.listed = l].prefor = working.prefor
      BY <1>1 DEF Database
    <3> QED  BY <3>1, <3>2
  <2> QED  BY <2>1, <2>2, <2>3, <2>4
<1> QED  BY <1>1, <1>2, WriteEffect

-----------------------------------------------------------------------------
(***************************************************************************)
(* The invariant of the client, when the callback calls it.                *)
(***************************************************************************)
LEMMA BeginClient ==
    ASSUME Solo, ClientInv, TypeInv', NEW t \in Threads,
           at[t] \in {"idle", "returned", "thrown"},
           NEW o, NEW origin, NEW v, NEW i,
           StartCall(t, o, origin, v, i), UNCHANGED aqmsVars,
           o = "update" => CodaIfAny(aqms, i)
    PROVE  ClientInv'
<1>1. TypeInv /\ SessionInv /\ OneCodaInv /\ PreferredInv
  BY DEF ClientInv
<1>2. /\ aqms' = aqms /\ working' = working /\ tx' = tx /\ excused' = excused
  BY DEF aqmsVars
<1>3. /\ op'[t] = o /\ id'[t] = i
      /\ at'[t] \in {"idle", "origin", "exists"}
  BY <1>1, BegunCall
<1>4. tx = "none" /\ working = aqms
  BY <1>1, Quiet DEF Reading
<1>5. SessionInv'
  <2>1. \A u \in Threads : at'[u] \in Reading /\ at'[u] # "modify"
    BY <1>3 DEF Solo, Reading
  <2> QED  BY <1>2, <1>4, <2>1 DEF SessionInv
<1>6. OneCodaInv'
  <2>1. CASE "insert" \in excused
    BY <1>2, <2>1 DEF OneCodaInv
  <2>2. CASE "insert" \notin excused
    <3>1. OneCodaIn(aqms')
      BY <1>1, <1>2, <2>2 DEF OneCodaInv
    <3>2. op'[t] = "update" => CodaIfAny(aqms', id'[t])
      BY <1>2, <1>3
    <3>3. \A u \in Threads : u = t
      BY DEF Solo
    <3> QED  BY <1>2, <1>3, <1>4, <3>1, <3>2, <3>3 DEF OneCodaInv
  <2> QED  BY <2>1, <2>2
<1>7. PreferredInv'
  <2>1. CASE "delete" \in excused
    BY <1>2, <2>1 DEF PreferredInv
  <2>2. CASE "delete" \notin excused
    <3>1. PreferredIn(aqms)
      BY <1>1, <2>2 DEF PreferredInv
    <3>2. PreferredIn(aqms') /\ PreferredIn(working')
      BY <1>2, <1>4, <3>1
    <3> QED  BY <3>2, PreferredSuffices
  <2> QED  BY <2>1, <2>2
<1> QED  BY <1>5, <1>6, <1>7 DEF ClientInv

(* A change begins only with what was found.                               *)
LEMMA ReviewClient ==
    ASSUME Solo, ReviewInv, [CallbackNext]_vars
    PROVE  ClientInv'
<1>1. CallbackTypeInv /\ ClientInv /\ FoundCoda /\ CallsOK
  BY DEF ReviewInv, CallbackTypeInv
<1>2. TypeInv'
  BY <1>1, CallbackNextType DEF CallbackTypeInv
<1>3. [Next]_clientVars => ClientInv'
  BY <1>1, ClientStepInv
<1>4. ASSUME NEW t \in Threads, Client(t) PROVE ClientInv'
  BY <1>3, <1>4 DEF Client, Next
<1>5. ASSUME NEW t \in Threads, NEW o, NEW origin, NEW v, NEW i,
             at[t] \in {"idle", "returned", "thrown"},
             StartCall(t, o, origin, v, i), UNCHANGED aqmsVars,
             o = "update" => CodaIfAny(aqms, i)
      PROVE  ClientInv'
  BY <1>1, <1>2, <1>5, BeginClient
<1>6. ASSUME NEW t \in Threads,
             \/ AcceptBegin(t) \/ AcceptFind(t) \/ RejectBegin(t)
             \/ RejectChange(t) \/ Changed(t) \/ CallThrows(t) \/ Respond(t)
      PROVE  ClientInv'
  <2>1. UNCHANGED aqmsVars
    BY <1>6 DEF AcceptBegin, AcceptFind, RejectBegin, RejectChange, Changed,
                CallThrows, Respond
  <2>2. at[t] \in {"idle", "returned", "thrown"}
    BY <1>1, <1>6 DEF CallsOK, AcceptBegin, AcceptFind, RejectBegin,
                      RejectChange, Changed, CallThrows, Respond
  <2>3. \E o, origin, v, i : StartCall(t, o, origin, v, i) /\ o # "update"
    <3>1. CASE AcceptBegin(t)
      BY <3>1 DEF AcceptBegin
    <3>2. CASE AcceptFind(t)
      BY <3>2 DEF AcceptFind, Leave
    <3>3. CASE RejectBegin(t)
      BY <3>3 DEF RejectBegin
    <3>4. CASE RejectChange(t)
      BY <3>4 DEF RejectChange, Leave
    <3>5. CASE Changed(t) \/ CallThrows(t) \/ Respond(t)
      BY <3>5 DEF Changed, CallThrows, Respond, Leave
    <3> QED  BY <1>6, <3>1, <3>2, <3>3, <3>4, <3>5
  <2> QED  BY <1>5, <2>1, <2>2, <2>3
<1>7. ASSUME NEW t \in Threads, AcceptChange(t) PROVE ClientInv'
  <2>1. /\ StartCall(t, IF id[t] # NoMagnitude THEN "update" ELSE "insert",
                     orid[t], val[t], id[t])
        /\ UNCHANGED aqmsVars /\ stage[t] = "find" /\ at[t] = "returned"
    BY <1>7 DEF AcceptChange
  <2>2. CodaIfAny(aqms, id[t])
    BY <1>1, <2>1 DEF FoundCoda
  <2> QED  BY <1>5, <2>1, <2>2
<1>8. ASSUME OtherPrograms \/ Restart PROVE ClientInv'
  BY <1>3, <1>8 DEF OtherPrograms, Restart, Next
<1>9. ASSUME \/ PipelineRewrite \/ Poll \/ UNCHANGED vars
             \/ \E t \in Threads : \/ \E r \in Requests : UnknownEvent(t, r)
                                   \/ Store(t)
      PROVE  ClientInv'
  <2>1. UNCHANGED clientVars
    BY <1>9 DEF PipelineRewrite, Poll, vars, clientVars, UnknownEvent, Store
  <2> QED  BY <1>3, <2>1
<1> QED  BY <1>4, <1>6, <1>7, <1>8, <1>9 DEF CallbackNext, Serve

-----------------------------------------------------------------------------
(***************************************************************************)
(* What a review knows, after a step of its call.                          *)
(***************************************************************************)
(* The stages of a call, and the facts a step of it starts from.           *)
LEMMA InCall ==
    ASSUME ReviewInv, NEW t \in Threads, Client(t)
    PROVE  /\ ClientInv /\ ClientStep(t) /\ TypeOK /\ ArgumentsOK
           /\ at \in [Threads -> Places] /\ id \in [Threads -> Ids \union {FalseId, NoMagnitude}]
           /\ found \in [Threads -> BOOLEAN] /\ orid \in [Threads -> Origins \union {Absent}]
           /\ stage[t] \in {"origin", "find", "exists", "change"}
           /\ stage[t] \in {"origin", "find", "exists"} => op[t] = stage[t]
           /\ stage[t] = "change" =>
                 \/ request[t] = "accept" /\ op[t] \in {"insert", "update"}
                 \/ request[t] = "reject" /\ op[t] = "delete"
           /\ stage' = stage /\ request' = request /\ answer' = answer
           /\ status' = status /\ op' = op /\ val' = val
           /\ misled'[t] = (misled[t] \/ Misled(t))
           /\ op[t] # "origin" => orid' = orid
           /\ op[t] = "origin" /\ at'[t] = "returned" => orid'[t] = View.prefor
<1>1. /\ TypeInv /\ CallsOK /\ RequestOK /\ ClientInv /\ ClientStep(t)
  BY DEF ReviewInv, CallbackTypeInv, Client
<1>2. /\ TypeOK /\ ArgumentsOK
      /\ at \in [Threads -> Places]
      /\ id \in [Threads -> Ids \union {FalseId, NoMagnitude}]
      /\ found \in [Threads -> BOOLEAN]
      /\ orid \in [Threads -> Origins \union {Absent}]
  BY <1>1 DEF TypeInv, TypeOK
<1>3. /\ op' = op /\ val' = val /\ op[t] # "none"
      /\ op[t] # "origin" => orid' = orid
      /\ op[t] = "origin" /\ at'[t] = "returned" => orid'[t] = View.prefor
  BY <1>1, WithinCall
<1>4. /\ stage' = stage /\ request' = request /\ answer' = answer
      /\ status' = status
  BY DEF Client, cctVars
<1>5. stage[t] \in Stages
  BY <1>1 DEF RequestOK
<1>6. /\ stage[t] \in {"origin", "find", "exists", "change"}
      /\ stage[t] \in {"origin", "find", "exists"} => op[t] = stage[t]
      /\ stage[t] = "change" =>
            \/ request[t] = "accept" /\ op[t] \in {"insert", "update"}
            \/ request[t] = "reject" /\ op[t] = "delete"
  BY <1>1, <1>3, <1>5 DEF CallsOK, Stages
<1>7. misled'[t] = (misled[t] \/ Misled(t))
  BY <1>1, Zenon DEF Client, RequestOK
<1> QED  BY <1>1, <1>2, <1>3, <1>4, <1>6, <1>7

LEMMA KnowsAfterRead ==
    ASSUME ReviewInv, NEW t \in Threads, Client(t), Read(t), ~misled'[t]
    PROVE  Knows(t)'
<1>1. /\ ClientInv /\ ClientStep(t) /\ ArgumentsOK
      /\ at \in [Threads -> Places]
      /\ id \in [Threads -> Ids \union {FalseId, NoMagnitude}]
      /\ found \in [Threads -> BOOLEAN]
      /\ orid \in [Threads -> Origins \union {Absent}]
      /\ stage[t] \in {"origin", "find", "exists", "change"}
      /\ stage[t] \in {"origin", "find", "exists"} => op[t] = stage[t]
      /\ stage[t] = "change" =>
            \/ request[t] = "accept" /\ op[t] \in {"insert", "update"}
            \/ request[t] = "reject" /\ op[t] = "delete"
      /\ stage' = stage /\ request' = request /\ val' = val /\ op' = op
      /\ ~misled[t] /\ ~Misled(t)
      /\ op[t] # "origin" => orid' = orid
      /\ op[t] = "origin" /\ at'[t] = "returned" => orid'[t] = View.prefor
  BY InCall
<1>2. Knows(t) /\ FoundCoda
  BY <1>1 DEF ReviewInv
<1>3. /\ aqms' = aqms /\ working' = working /\ excused' = excused
      /\ at[t] \in Reading /\ at'[t] \in Reading
      /\ View = aqms
  BY <1>1, ReadStep, Quiet DEF ClientInv, View
<1>4. CodaOfEvent(aqms) \subseteq Ids /\ NoMagnitude \notin Ids /\ FalseId \notin Ids
  BY BoundsAssumption
     DEF CodaOfEvent, Codas, Existing, Ids, NoMagnitude, FalseId
<1>5. CASE ReadOrigin(t)
  <2>1. at[t] = "origin" /\ at'[t] \in {"returned", "thrown"}
    BY <1>1, <1>5 DEF ReadOrigin, Goto
  <2>2. stage[t] = "origin"
    BY <1>1, <2>1 DEF ReviewInv, CallbackTypeInv, CallsOK
  <2> QED  BY <1>1, <1>3, <2>1, <2>2 DEF Knows
<1>6. CASE ReadExistence(t)
  <2>1. /\ at[t] = "exists" /\ id' = id
        /\ found'[t] = (CodaOfEvent(aqms) # {})
        /\ at'[t] = AfterExists(op[t], found'[t])
    <3>1. PICK b \in BOOLEAN :
            /\ found' = [found EXCEPT ![t] = b /\ CodaOfEvent(View) # {}]
            /\ at' = [at EXCEPT ![t] =
                        AfterExists(op[t], b /\ CodaOfEvent(View) # {})]
            /\ at[t] = "exists" /\ id' = id
      BY <1>6 DEF ReadExistence, Goto
    <3>2. found'[t] = (b /\ CodaOfEvent(View) # {})
      BY <1>1, <3>1, Zenon
    <3>3. at'[t] = AfterExists(op[t], b /\ CodaOfEvent(View) # {})
      BY <1>1, <3>1, Zenon
    <3>4. found'[t] = (CodaOfEvent(aqms) # {})
      BY <1>1, <1>3, <3>1, Zenon DEF Misled
    <3> QED  BY <3>1, <3>2, <3>3, <3>4, Zenon
  <2>2. CASE stage[t] = "origin"
    BY <1>1, <2>1, <2>2 DEF ArgumentsOK, Changes
  <2>3. CASE stage[t] = "find"
    BY <1>1, <1>2, <1>3, <2>1, <2>3 DEF Knows, FoundCoda, AfterExists
  <2>4. CASE stage[t] = "exists"
    BY <1>1, <1>2, <1>3, <2>1, <2>4 DEF Knows
  <2>5. CASE stage[t] = "change"
    BY <1>1, <1>2, <1>3, <2>1, <2>5 DEF Knows, DoneIn, Done, AfterExists
  <2> QED  BY <1>1, <2>2, <2>3, <2>4, <2>5
<1>7. CASE ReadIdentifier(t)
  <2>1. /\ at[t] = "find" /\ op[t] \in {"find", "delete"}
        /\ id'[t] \in CodaOfEvent(aqms) \union {NoMagnitude}
        /\ id'[t] = NoMagnitude => CodaOfEvent(aqms) = {}
        /\ at'[t] = IF op[t] = "delete" /\ id'[t] # NoMagnitude
                    THEN "prefmag" ELSE "returned"
    <3>1. PICK b \in BOOLEAN, i \in Ids \union {FalseId, NoMagnitude} :
            /\ i \in FoundIds(b) /\ id' = [id EXCEPT ![t] = i]
            /\ at' = [at EXCEPT ![t] = IF op[t] = "delete" /\ i # NoMagnitude
                                       THEN "prefmag" ELSE "returned"]
            /\ at[t] = "find"
      BY <1>7 DEF ReadIdentifier, Goto
    <3>2. id'[t] = i /\ op[t] \in {"find", "delete"} /\ i # FalseId
      BY <1>1, <3>1 DEF ArgumentsOK, Misled
    <3>3. /\ i \in CodaOfEvent(aqms) \union {NoMagnitude}
          /\ i = NoMagnitude => CodaOfEvent(aqms) = {}
      BY <1>3, <1>4, <3>1, <3>2 DEF FoundIds
    <3> QED  BY <1>1, <3>1, <3>2, <3>3
  <2>2. CASE stage[t] = "find"
    BY <1>1, <1>2, <1>3, <2>1, <2>2 DEF Knows
  <2>3. CASE stage[t] = "change"
    BY <1>1, <1>2, <1>3, <2>1, <2>3 DEF Knows, DoneIn, Done
  <2> QED  BY <1>1, <2>1, <2>2, <2>3
<1>8. CASE ReadPreferred(t)
  <2>1. at[t] = "prefmag" /\ at'[t] = "begin" /\ id' = id
    BY <1>1, <1>8 DEF ReadPreferred, Goto
  <2>2. stage[t] = "change"
    BY <1>1, <2>1 DEF ArgumentsOK, ChangePlaces, Changes
  <2> QED  BY <1>1, <1>2, <1>3, <2>1, <2>2 DEF Knows
<1> QED  BY <1>5, <1>6, <1>7, <1>8 DEF Read

(* The tables that a change leaves are as the review wants them.           *)
LEMMA ModifyDone ==
    ASSUME ReviewInv, NEW t \in Threads, Client(t), Knows(t),
           InsertMagnitude(t) \/ UpdateMagnitude(t) \/ DeleteMagnitude(t)
    PROVE  Done(working', request[t], val[t], excused')
<1>1. /\ ClientInv /\ ArgumentsOK /\ TypeOK
      /\ stage[t] \in {"origin", "find", "exists", "change"}
      /\ stage[t] \in {"origin", "find", "exists"} => op[t] = stage[t]
      /\ stage[t] = "change" =>
            \/ request[t] = "accept" /\ op[t] \in {"insert", "update"}
            \/ request[t] = "reject" /\ op[t] = "delete"
  BY InCall
<1>2. /\ at[t] = "modify" /\ working = aqms /\ Becomes(t, working')
      /\ excused \subseteq excused'
  BY <1>1, ModifyStep
<1>3. stage[t] = "change"
  BY <1>1, <1>2 DEF ArgumentsOK, ChangePlaces, Changes
<1>4. aqms \in Database /\ working \in Database
  BY <1>1 DEF TypeOK
<1>5. CASE op[t] = "insert"
  <2>1. PICK i \in Ids : working' = InsertNetMag(working, i, orid[t], val[t])
    BY <1>2, <1>5 DEF Becomes
  <2>2. orid[t] = working.prefor /\ val[t] \in Values /\ request[t] = "accept"
    BY <1>1, <1>2, <1>3, <1>5 DEF Knows, ArgumentsOK
  <2> QED  BY <1>4, <2>1, <2>2, InsertDone
<1>6. CASE op[t] = "update"
  <2>1. working' = UpdateNetMag(working, id[t], val[t])
    BY <1>2, <1>6 DEF Becomes
  <2>2. id[t] \in CodaOfEvent(working) /\ val[t] \in Values /\ request[t] = "accept"
    BY <1>1, <1>2, <1>3, <1>6 DEF Knows, ArgumentsOK
  <2> QED  BY <1>4, <2>1, <2>2, UpdateDone
<1>7. CASE op[t] = "delete"
  <2>1. working' = DeleteNetMag(working, id[t])
    BY <1>2, <1>7 DEF Becomes
  <2>2. id[t] \in CodaOfEvent(working) /\ request[t] = "reject"
    BY <1>1, <1>2, <1>3, <1>7 DEF Knows
  <2>3. "insert" \notin excused' => OneCodaIn(working)
    BY <1>1, <1>2 DEF ClientInv, OneCodaInv
  <2> QED  BY <1>4, <2>1, <2>2, <2>3, DeleteDone
<1> QED  BY <1>1, <1>3, <1>5, <1>6, <1>7

LEMMA KnowsAfterChange ==
    ASSUME ReviewInv, NEW t \in Threads, Client(t), ~Read(t), ~misled'[t]
    PROVE  Knows(t)'
<1>1. /\ ClientInv /\ ClientStep(t) /\ ArgumentsOK
      /\ at \in [Threads -> Places]
      /\ stage[t] \in {"origin", "find", "exists", "change"}
      /\ stage[t] \in {"origin", "find", "exists"} => op[t] = stage[t]
      /\ stage[t] = "change" =>
            \/ request[t] = "accept" /\ op[t] \in {"insert", "update"}
            \/ request[t] = "reject" /\ op[t] = "delete"
      /\ stage' = stage /\ request' = request /\ val' = val /\ op' = op
      /\ ~misled[t]
      /\ op[t] # "origin" => orid' = orid
  BY InCall
<1>2. Knows(t)
  BY <1>1 DEF ReviewInv
<1>3. CASE BeginTransaction(t)
  <2>1. /\ at[t] = "begin" /\ at'[t] = "modify" /\ aqms' = aqms /\ id' = id
    BY <1>1, <1>3 DEF BeginTransaction, Goto, localVars
  <2>2. stage[t] = "change"
    BY <1>1, <2>1 DEF ArgumentsOK, ChangePlaces, Changes
  <2> QED  BY <1>1, <1>2, <2>1, <2>2 DEF Knows
<1>4. CASE InsertMagnitude(t) \/ UpdateMagnitude(t) \/ DeleteMagnitude(t)
  <2>1. at[t] = "modify" /\ at'[t] = "prefer"
    BY <1>1, <1>4, ModifyStep
  <2>2. stage[t] = "change"
    BY <1>1, <2>1 DEF ArgumentsOK, ChangePlaces, Changes
  <2>3. DoneIn(working, t)'
    BY <1>1, <1>2, <1>4, ModifyDone DEF DoneIn
  <2> QED  BY <1>1, <2>1, <2>2, <2>3 DEF Knows
<1>5. CASE Prefer(t) \/ Replace(t) \/ Record(t)
  <2>1. /\ at[t] \in {"prefer", "record"} /\ at'[t] \in {"record", "commit"}
        /\ working'.netmag = working.netmag /\ working'.prefor = working.prefor
        /\ excused' = excused
    BY <1>1, <1>5, LaterStep, LaterPrefor
  <2>2. stage[t] = "change"
    BY <1>1, <2>1 DEF ArgumentsOK, ChangePlaces, Changes
  <2>3. DoneIn(working, t)
    BY <1>2, <2>1, <2>2 DEF Knows
  <2>4. DoneIn(working, t)'
    BY <1>1, <2>1, <2>3, SameDone DEF DoneIn
  <2> QED  BY <1>1, <2>1, <2>2, <2>4 DEF Knows
<1>6. CASE Commit(t)
  <2>1. /\ at[t] = "commit" /\ at'[t] \in {"returned", "thrown"}
        /\ aqms' = View /\ excused' = excused
    BY <1>1, <1>6 DEF Commit, Goto
  <2>2. stage[t] = "change"
    BY <1>1, <2>1 DEF ArgumentsOK, ChangePlaces, Changes
  <2>3. View = working
    BY <1>1, ViewIsWorking DEF ClientInv, TypeInv
  <2>4. DoneIn(working, t)
    BY <1>2, <2>1, <2>2 DEF Knows
  <2>5. DoneIn(aqms, t)'
    BY <1>1, <2>1, <2>3, <2>4 DEF DoneIn
  <2> QED  BY <1>1, <2>1, <2>2, <2>5 DEF Knows
<1>7. CASE ConnectionBroken(t) \/ StatementFails(t)
  <2>1. at'[t] = "thrown" /\ aqms' = aqms
    BY <1>1, <1>7 DEF ConnectionBroken, StatementFails, Rollback, Goto
  <2> QED  BY <1>1, <1>2, <2>1 DEF Knows
<1> QED  BY <1>1, <1>3, <1>4, <1>5, <1>6, <1>7 DEF ClientStep, Read

(* While the review looks for a magnitude nothing is changed, and what it  *)
(* finds is a coda magnitude.                                              *)
LEMMA FoundAfterCall ==
    ASSUME ReviewInv, NEW t \in Threads, Client(t), stage'[t] = "find"
    PROVE  /\ CodaIfAny(aqms, id[t])'
           /\ at'[t] \in {"exists", "find"} => id'[t] = NoMagnitude
<1>1. /\ ClientInv /\ ClientStep(t) /\ ArgumentsOK
      /\ at \in [Threads -> Places]
      /\ id \in [Threads -> Ids \union {FalseId, NoMagnitude}]
      /\ op[t] = "find" /\ stage[t] = "find"
  BY InCall
<1>2. /\ CodaIfAny(aqms, id[t])
      /\ at[t] \in {"exists", "find"} => id[t] = NoMagnitude
  BY <1>1 DEF ReviewInv, FoundCoda
<1>3. at[t] \notin ChangePlaces
  BY <1>1 DEF ArgumentsOK, Changes
<1>4. ReadOrigin(t) \/ ReadExistence(t) \/ ReadIdentifier(t) \/ ConnectionBroken(t)
  BY <1>1, <1>3
     DEF ClientStep, ReadPreferred, BeginTransaction, InsertMagnitude,
         UpdateMagnitude, DeleteMagnitude, Prefer, Replace, Record, Commit,
         StatementFails, ChangePlaces
<1>5. aqms' = aqms
  BY <1>4 DEF ReadOrigin, ReadExistence, ReadIdentifier, ConnectionBroken,
              Query, Rollback
<1>6. CASE ReadIdentifier(t)
  <2>1. /\ at'[t] = "returned"
        /\ id'[t] \in CodaOfEvent(View) \union {NoMagnitude, FalseId}
    BY <1>1, <1>6 DEF ReadIdentifier, Goto, FoundIds
  <2>2. View = aqms
    BY <1>1, <1>6, Quiet DEF ClientInv, View, ReadIdentifier, Reading
  <2>3. CodaIfAny(aqms, id'[t])
    BY <2>1, <2>2, BoundsAssumption
       DEF CodaIfAny, CodaOfEvent, Codas, Existing, Ids, NoMagnitude, FalseId
  <2> QED  BY <1>5, <2>1, <2>3 DEF CodaIfAny, Existing
<1>7. CASE ~ReadIdentifier(t)
  <2>1. id' = id /\ (at'[t] \in {"exists", "find"} => at[t] = "exists")
    BY <1>1, <1>4, <1>7
       DEF ReadOrigin, ReadExistence, ConnectionBroken, Goto, localVars
  <2> QED  BY <1>2, <1>5, <2>1 DEF CodaIfAny, Existing
<1> QED  BY <1>6, <1>7

-----------------------------------------------------------------------------
(***************************************************************************)
(* What a review knows, after a step between its calls.                    *)
(***************************************************************************)
(* The steps between calls, of the thread that is not idle.                *)
Between(t) ==
    \/ AcceptBegin(t) \/ AcceptFind(t) \/ AcceptChange(t)
    \/ RejectBegin(t) \/ RejectChange(t)
    \/ Changed(t) \/ CallThrows(t) \/ Respond(t)

(* Such a step begins or leaves a call; nothing else is touched.           *)
LEMMA BetweenCalls ==
    ASSUME CallbackTypeInv, NEW t \in Threads, NEW o, NEW origin, NEW v, NEW i,
           NEW s, StartCall(t, o, origin, v, i), UNCHANGED aqmsVars,
           ToStage(t, s)
    PROVE  /\ aqms' = aqms /\ working' = working /\ excused' = excused
           /\ op'[t] = o /\ orid'[t] = origin /\ val'[t] = v /\ id'[t] = i
           /\ o = "none" => at'[t] = "idle"
           /\ o = "origin" => at'[t] = "origin"
           /\ o \notin {"none", "origin"} => at'[t] = "exists"
           /\ stage'[t] = s
<1>1. TypeInv /\ stage \in [Threads -> Stages]
  BY DEF CallbackTypeInv, RequestOK
<1>2. stage'[t] = s
  BY <1>1 DEF ToStage
<1>3. LocalsOK
  BY <1>1, TypeParts DEF TypeInv
<1>4. op'[t] = o /\ orid'[t] = origin /\ val'[t] = v /\ id'[t] = i
  BY <1>3 DEF LocalsOK, StartCall
<1>5. /\ o = "none" => at'[t] = "idle"
      /\ o = "origin" => at'[t] = "origin"
      /\ o \notin {"none", "origin"} => at'[t] = "exists"
  BY <1>3 DEF LocalsOK, StartCall, Goto
<1>6. aqms' = aqms /\ working' = working /\ excused' = excused
  BY DEF aqmsVars
<1> QED  BY <1>2, <1>4, <1>5, <1>6

LEMMA KnowsBetween ==
    ASSUME ReviewInv, NEW t \in Threads, Between(t), ~misled'[t]
    PROVE  Knows(t)'
<1>1. /\ CallbackTypeInv /\ CallsOK /\ FoundCoda
      /\ answer \in [Threads -> Answer]
      /\ request \in [Threads -> Requests \union {"none"}]
  BY DEF ReviewInv, CallbackTypeInv, RequestOK
<1>2. misled' = misled => Knows(t)
  BY DEF ReviewInv
<1>3. CASE AcceptBegin(t)
  <2>1. stage'[t] = "origin" /\ at'[t] = "origin"
    BY <1>1, <1>3, BetweenCalls DEF AcceptBegin
  <2> QED  BY <2>1 DEF Knows
<1>4. CASE AcceptFind(t) /\ val[t] = Absent
  <2>1. stage'[t] = "answered"
    BY <1>1, <1>4, BetweenCalls DEF AcceptFind, CatchException, Leave
  <2>2. answer'[t].reason
    BY <1>1, <1>4 DEF AcceptFind, CatchException
  <2> QED  BY <2>1, <2>2 DEF Knows
<1>5. CASE AcceptFind(t) /\ val[t] # Absent
  <2>1. /\ stage'[t] = "find" /\ at'[t] = "exists" /\ orid'[t] = orid[t]
        /\ aqms' = aqms
    BY <1>1, <1>5, BetweenCalls DEF AcceptFind
  <2>2. orid[t] = aqms.prefor
    BY <1>2, <1>5 DEF Knows, AcceptFind
  <2> QED  BY <2>1, <2>2 DEF Knows
<1>6. CASE AcceptChange(t)
  <2> DEFINE o == IF id[t] # NoMagnitude THEN "update" ELSE "insert"
  <2>1. /\ stage'[t] = "change" /\ op'[t] = o /\ at'[t] = "exists"
        /\ orid'[t] = orid[t] /\ id'[t] = id[t] /\ aqms' = aqms
    <3>1. /\ StartCall(t, o, orid[t], val[t], id[t]) /\ UNCHANGED aqmsVars
          /\ ToStage(t, "change")
      BY <1>6 DEF AcceptChange
    <3>2. o \notin {"none", "origin"}
      OBVIOUS
    <3> HIDE DEF o
    <3> QED  BY <1>1, <3>1, <3>2, BetweenCalls
  <2>2. orid[t] = aqms.prefor
        /\ (o = "update" => id[t] \in CodaOfEvent(aqms))
    BY <1>2, <1>6 DEF Knows, AcceptChange, requestVars
  <2> HIDE DEF o
  <2> QED  BY <2>1, <2>2 DEF Knows
<1>7. CASE RejectBegin(t)
  <2>1. stage'[t] = "exists" /\ at'[t] = "exists"
    BY <1>1, <1>7, BetweenCalls DEF RejectBegin
  <2> QED  BY <2>1 DEF Knows
<1>8. CASE RejectChange(t) /\ found[t]
  <2>1. stage'[t] = "change" /\ at'[t] = "exists" /\ op'[t] = "delete"
    BY <1>1, <1>8, BetweenCalls DEF RejectChange
  <2> QED  BY <2>1 DEF Knows
<1>9. CASE RejectChange(t) /\ ~found[t]
  <2>1. stage'[t] = "store" /\ aqms' = aqms
    BY <1>1, <1>9, BetweenCalls DEF RejectChange, Leave
  <2>2. CodaOfEvent(aqms) = {}
    BY <1>2, <1>9 DEF Knows, RejectChange, requestVars
  <2>3. request'[t] = "reject"
    BY <1>1, <1>9 DEF CallsOK, RejectChange, requestVars
  <2> QED  BY <2>1, <2>2, <2>3 DEF Knows, DoneIn, Done
<1>10. CASE Changed(t)
  <2>1. /\ stage'[t] = "store" /\ val'[t] = val[t] /\ aqms' = aqms
        /\ excused' = excused
    BY <1>1, <1>10, BetweenCalls DEF Changed, Leave
  <2>2. DoneIn(aqms, t) /\ request' = request
    BY <1>2, <1>10 DEF Knows, Changed, requestVars
  <2>3. DoneIn(aqms, t)'
    BY <2>1, <2>2 DEF DoneIn
  <2> QED  BY <2>1, <2>3 DEF Knows
<1>11. CASE CallThrows(t)
  <2>1. stage'[t] = "answered"
    BY <1>1, <1>11, BetweenCalls DEF CallThrows, CatchException, Leave
  <2>2. answer'[t].reason
    BY <1>1, <1>11 DEF CallThrows, CatchException
  <2> QED  BY <2>1, <2>2 DEF Knows
<1>12. CASE Respond(t)
  <2>1. stage'[t] = "idle"
    BY <1>1, <1>12, BetweenCalls DEF Respond, Leave
  <2> QED  BY <2>1 DEF Knows
<1> QED  BY <1>3, <1>4, <1>5, <1>6, <1>7, <1>8, <1>9, <1>10, <1>11, <1>12
         DEF Between

(* The UPDATE, and a request for an event the service does not have.       *)
LEMMA KnowsAfterStore ==
    ASSUME ReviewInv, NEW t \in Threads,
           Store(t) \/ \E r \in Requests : UnknownEvent(t, r), ~misled'[t]
    PROVE  Knows(t)'
<1>1. /\ stage \in [Threads -> Stages] /\ answer \in [Threads -> Answer]
  BY DEF ReviewInv, CallbackTypeInv, RequestOK
<1>2. stage'[t] = "answered"
  BY <1>1 DEF Store, UnknownEvent, Succeed, CatchException, ToStage
<1>3. CASE \E r \in Requests : UnknownEvent(t, r)
  <2>1. answer'[t].reason
    BY <1>1, <1>3 DEF UnknownEvent
  <2> QED  BY <1>2, <2>1 DEF Knows
<1>4. CASE Store(t)
  <2>1. DoneIn(aqms, t)
    BY <1>4 DEF ReviewInv, Knows, Store
  <2>2. DoneIn(aqms, t)'
    BY <1>4, <2>1 DEF Store, clientVars, DoneIn
  <2>3. ~answer'[t].reason => status' = ReviewStatus(request[t])
    BY <1>1, <1>4 DEF Store, Succeed, CatchException
  <2>4. request' = request
    BY <1>4 DEF Store
  <2> QED  BY <1>2, <2>2, <2>3, <2>4 DEF Knows
<1> QED  BY <1>3, <1>4

(* A change made outside misleads every review it may concern.             *)
LEMMA KnowsOutside ==
    ASSUME ReviewInv, NEW t \in Threads, ~misled'[t],
           OtherPrograms \/ PipelineRewrite \/ Poll \/ Restart
    PROVE  Knows(t)'
<1>1. ClientInv /\ RequestOK /\ (misled[t] \/ Knows(t))
  BY DEF ReviewInv, CallbackTypeInv
<1>2. ASSUME stage'[t] = "idle" PROVE Knows(t)'
  BY <1>2 DEF Knows
<1>3. ASSUME OutOfDate PROVE stage[t] = "idle"
  <2>1. misled'[t] = (misled[t] \/ stage[t] # "idle")
    BY <1>3, Zenon DEF OutOfDate
  <2> QED  BY <2>1
<1>4. CASE PipelineRewrite
  BY <1>2, <1>3, <1>4 DEF PipelineRewrite
<1>5. CASE Restart
  BY <1>2, <1>5 DEF Restart
<1>6. CASE Poll
  <2>1. Knows(t)
    BY <1>1, <1>6 DEF Poll, requestVars
  <2> QED  BY <1>6, <2>1 DEF Poll, Knows, DoneIn, Done, requestVars, clientVars
<1>7. CASE OtherPrograms
  <2>1. /\ aqms'.netmag = aqms.netmag /\ tx = "none" /\ at' = at
        /\ UNCHANGED localVars /\ excused' = excused
    BY <1>1, <1>7, OthersStep DEF OtherPrograms
  <2>2. UNCHANGED <<status, request, stage, answer>>
    BY <1>7 DEF OtherPrograms, cctVars
  <2>3. CASE aqms'.prefor # aqms.prefor
    <3>1. OutOfDate
      BY <1>7, <2>3 DEF OtherPrograms
    <3> QED  BY <1>2, <1>3, <2>2, <3>1
  <2>4. CASE aqms'.prefor = aqms.prefor
    <3>1. misled' = misled
      BY <1>7, <2>4 DEF OtherPrograms
    <3>2. Knows(t)
      BY <1>1, <3>1
    <3>3. /\ CodaOfEvent(aqms') = CodaOfEvent(aqms)
          /\ \A r, v, x : Done(aqms', r, v, x) <=> Done(aqms, r, v, x)
      BY <2>1, <2>4, SameDone
    <3>4. DoneIn(aqms, t)' <=> DoneIn(aqms, t)
      BY <2>1, <2>2, <3>3 DEF DoneIn, localVars
    <3>5. at[t] \notin {"prefer", "record", "commit"}
      BY <1>1, <2>1 DEF ClientInv, SessionInv, Reading
    <3> QED  BY <2>1, <2>2, <2>4, <3>2, <3>3, <3>4, <3>5 DEF Knows, localVars
  <2> QED  BY <2>3, <2>4
<1> QED  BY <1>4, <1>5, <1>6, <1>7

-----------------------------------------------------------------------------
(***************************************************************************)
(* The inductive invariant, and what follows from it.                      *)
(***************************************************************************)
LEMMA FoundStep ==
    ASSUME Solo, ReviewInv, [CallbackNext]_vars
    PROVE  FoundCoda'
<1> SUFFICES ASSUME NEW t \in Threads, stage'[t] = "find"
             PROVE  /\ CodaIfAny(aqms, id[t])'
                    /\ at'[t] \in {"exists", "find"} => id'[t] = NoMagnitude
  BY DEF FoundCoda
<1>1. /\ CallbackTypeInv /\ ClientInv /\ FoundCoda
      /\ stage \in [Threads -> Stages]
      /\ \A u \in Threads : u = t
  BY DEF ReviewInv, CallbackTypeInv, RequestOK, Solo
<1>2. ASSUME aqms'.netmag = aqms.netmag, id' = id, at' = at, stage' = stage
      PROVE  /\ CodaIfAny(aqms, id[t])'
             /\ at'[t] \in {"exists", "find"} => id'[t] = NoMagnitude
  BY <1>1, <1>2 DEF FoundCoda, CodaIfAny, Existing
<1>3. CASE Client(t)
  BY <1>3, FoundAfterCall
<1>4. CASE AcceptFind(t)
  <2>1. /\ at[t] = "returned" /\ UNCHANGED aqmsVars
        /\ \/ ToStage(t, "answered")
           \/ StartCall(t, "find", orid[t], val[t], NoMagnitude)
    BY <1>4 DEF AcceptFind, CatchException
  <2>2. StartCall(t, "find", orid[t], val[t], NoMagnitude)
    BY <1>1, <2>1 DEF ToStage
  <2>3. id'[t] = NoMagnitude
    BY <1>1, <2>2 DEF CallbackTypeInv, TypeInv, TypeOK, StartCall
  <2> QED  BY <2>3, BoundsAssumption
           DEF CodaIfAny, Existing, Ids, NoMagnitude
<1>5. CASE \/ AcceptBegin(t) \/ AcceptChange(t) \/ RejectBegin(t)
           \/ RejectChange(t) \/ Changed(t) \/ CallThrows(t) \/ Respond(t)
           \/ Store(t) \/ \E r \in Requests : UnknownEvent(t, r)
  BY <1>1, <1>5
     DEF AcceptBegin, AcceptChange, RejectBegin, RejectChange, Changed,
         CallThrows, Respond, Store, UnknownEvent, Succeed, CatchException,
         ToStage
<1>6. CASE OtherPrograms
  BY <1>1, <1>2, <1>6, OthersStep DEF OtherPrograms, localVars
<1>7. CASE PipelineRewrite \/ Poll \/ UNCHANGED vars
  BY <1>2, <1>7 DEF PipelineRewrite, Poll, clientVars, vars
<1>8. CASE Restart
  BY <1>8 DEF Restart
<1> QED  BY <1>1, <1>3, <1>4, <1>5, <1>6, <1>7, <1>8 DEF CallbackNext, Serve

LEMMA KnowsStep ==
    ASSUME Solo, ReviewInv, [CallbackNext]_vars, NEW t \in Threads
    PROVE  (misled[t] \/ Knows(t))'
<1> SUFFICES ASSUME ~misled'[t] PROVE Knows(t)'
  OBVIOUS
<1>1. \A u \in Threads : u = t
  BY DEF Solo
<1>2. CASE Client(t)
  BY <1>2, KnowsAfterRead, KnowsAfterChange
<1>3. CASE Between(t)
  BY <1>3, KnowsBetween
<1>4. CASE Store(t) \/ \E r \in Requests : UnknownEvent(t, r)
  BY <1>4, KnowsAfterStore
<1>5. CASE OtherPrograms \/ PipelineRewrite \/ Poll \/ Restart
  BY <1>5, KnowsOutside
<1>6. CASE UNCHANGED vars
  <2>1. Knows(t)
    BY <1>6 DEF ReviewInv, vars
  <2> QED  BY <1>6, <2>1 DEF vars, clientVars, Knows, DoneIn
<1> QED  BY <1>1, <1>2, <1>3, <1>4, <1>5, <1>6 DEF CallbackNext, Serve, Between

LEMMA ReviewInit == CallbackInit => ReviewInv
<1> SUFFICES ASSUME CallbackInit PROVE ReviewInv
  OBVIOUS
<1>1. CallbackTypeInv
  BY CallbackInitType
<1>2. ClientInv
  BY ClientInit DEF CallbackInit
<1>3. \A t \in Threads : stage[t] = "idle"
  BY DEF CallbackInit
<1>4. FoundCoda /\ \A t \in Threads : Knows(t)
  BY <1>3 DEF FoundCoda, Knows
<1> QED  BY <1>1, <1>2, <1>4 DEF ReviewInv

LEMMA ReviewStep == Solo /\ ReviewInv /\ [CallbackNext]_vars => ReviewInv'
<1> SUFFICES ASSUME Solo, ReviewInv, [CallbackNext]_vars PROVE ReviewInv'
  OBVIOUS
<1>1. CallbackTypeInv'
  BY CallbackNextType DEF ReviewInv
<1>2. ClientInv' /\ FoundCoda'
  BY ReviewClient, FoundStep
<1>3. \A t \in Threads : (misled[t] \/ Knows(t))'
  BY KnowsStep
<1> QED  BY <1>1, <1>2, <1>3 DEF ReviewInv

THEOREM ReviewInvariant == Solo => (CallbackSpec => []ReviewInv)
<1> SUFFICES ASSUME Solo PROVE CallbackSpec => []ReviewInv
  OBVIOUS
<1>1. ReviewInv /\ [CallbackNext]_vars => ReviewInv'
  BY ReviewStep
<1> QED  BY ReviewInit, <1>1, PTL DEF CallbackSpec

(* With one request thread, a review that reaches the CCT database has     *)
(* changed AQMS, whichever earlier reviews failed on the way or died, and  *)
(* whatever the pipeline and other programs did before its reads.          *)
THEOREM MagnitudeBeforeStatusHolds ==
    Solo => (CallbackSpec => []MagnitudeBeforeStatus)
<1> SUFFICES ASSUME Solo PROVE CallbackSpec => []MagnitudeBeforeStatus
  OBVIOUS
<1>1. ReviewInv => MagnitudeBeforeStatus
  BY DEF ReviewInv, MagnitudeBeforeStatus, HasMagnitude, Knows, DoneIn, Done
<1> QED  BY ReviewInvariant, <1>1, PTL

(* With one request thread, an answer of success without a reason is true  *)
(* of both databases.                                                      *)
THEOREM AnswerIsTrueHolds == Solo => (CallbackSpec => []AnswerIsTrue)
<1> SUFFICES ASSUME Solo PROVE CallbackSpec => []AnswerIsTrue
  OBVIOUS
<1>1. ReviewInv => AnswerIsTrue
  BY DEF ReviewInv, AnswerIsTrue, HasMagnitude, Knows, DoneIn, Done
<1> QED  BY ReviewInvariant, <1>1, PTL

-----------------------------------------------------------------------------
(***************************************************************************)
(* Reviews change AQMS in whole steps.                                     *)
(***************************************************************************)
(* The steps of a request between the client's calls.                      *)
LEMMA NextCall ==
    ASSUME ReviewInv, NEW t \in Threads, Between(t)
    PROVE  /\ UNCHANGED aqmsVars
           /\ at'[t] \in {"idle", "origin", "exists"}
           /\ op'[t] = "update" => CodaIfAny(aqms, id'[t])
<1>1. TypeInv /\ FoundCoda /\ LocalsOK
  BY TypeParts DEF ReviewInv, CallbackTypeInv, TypeInv
<1>2. UNCHANGED aqmsVars
  BY DEF AcceptBegin, AcceptFind, AcceptChange, RejectBegin, RejectChange, Changed,
         CallThrows, Respond, Between
<1>3. ASSUME NEW o, NEW origin, NEW v, NEW i, StartCall(t, o, origin, v, i)
      PROVE  op'[t] = o /\ id'[t] = i /\ at'[t] \in {"idle", "origin", "exists"}
  <2>1. op'[t] = o /\ id'[t] = i
    BY <1>1, <1>3 DEF LocalsOK, StartCall
  <2>2. /\ o = "none" => at'[t] = "idle"
        /\ o = "origin" => at'[t] = "origin"
        /\ o \notin {"none", "origin"} => at'[t] = "exists"
    BY <1>1, <1>3, BegunCall
  <2> QED  BY <2>1, <2>2
<1>4. CASE AcceptChange(t)
  <2>1. /\ StartCall(t, IF id[t] # NoMagnitude THEN "update" ELSE "insert",
                     orid[t], val[t], id[t])
        /\ stage[t] = "find" /\ at[t] = "returned"
    BY <1>4 DEF AcceptChange
  <2>2. CodaIfAny(aqms, id[t])
    BY <1>1, <2>1 DEF FoundCoda
  <2>3. id'[t] = id[t] /\ at'[t] \in {"idle", "origin", "exists"}
    BY <1>3, <2>1
  <2> QED  BY <1>2, <2>2, <2>3
<1>5. CASE \/ AcceptBegin(t) \/ AcceptFind(t) \/ RejectBegin(t)
           \/ RejectChange(t) \/ Changed(t) \/ CallThrows(t) \/ Respond(t)
  <2>1. \E o, origin, v, i : StartCall(t, o, origin, v, i) /\ o # "update"
    <3>1. CASE AcceptBegin(t)
      BY <3>1 DEF AcceptBegin
    <3>2. CASE AcceptFind(t)
      BY <3>2 DEF AcceptFind, Leave
    <3>3. CASE RejectBegin(t)
      BY <3>3 DEF RejectBegin
    <3>4. CASE RejectChange(t)
      BY <3>4 DEF RejectChange, Leave
    <3>5. CASE Changed(t) \/ CallThrows(t) \/ Respond(t)
      BY <3>5 DEF Changed, CallThrows, Respond, Leave
    <3> QED  BY <1>5, <3>1, <3>2, <3>3, <3>4, <3>5
  <2> QED  BY <1>2, <1>3, <2>1
<1> QED  BY <1>4, <1>5 DEF Between

(* The steps in which the client takes one of its own, or none.            *)
LEMMA ClientOrBetween ==
    ASSUME [CallbackNext]_vars
    PROVE  \/ [Next]_clientVars
           \/ \E t \in Threads : Between(t)
<1>1. ASSUME NEW t \in Threads, Client(t) PROVE Next
  BY <1>1 DEF Client, Next
<1>2. CASE OtherPrograms \/ Restart
  BY <1>2 DEF OtherPrograms, Restart, Next
<1>3. CASE \/ PipelineRewrite \/ Poll \/ UNCHANGED vars
           \/ \E t \in Threads : \/ \E r \in Requests : UnknownEvent(t, r)
                                 \/ Store(t)
  BY <1>3 DEF PipelineRewrite, Poll, vars, clientVars, UnknownEvent, Store
<1> QED  BY <1>1, <1>2, <1>3 DEF CallbackNext, Serve, Between

LEMMA ReviewWork ==
    ASSUME Solo, ReviewInv, WorkInv, [CallbackNext]_vars
    PROVE  WorkInv' /\ [Tables!Next]_aqms
<1>1. CASE [Next]_clientVars
  BY <1>1, WorkStep, TablesStep DEF ReviewInv
<1>2. ASSUME NEW t \in Threads, Between(t) PROVE  WorkInv' /\ UNCHANGED aqms
  <2>1. /\ UNCHANGED <<aqms, working, next>>
        /\ at'[t] \notin {"prefer", "record", "commit"}
        /\ op'[t] = "update" => CodaIfAny(aqms', id'[t])
    BY <1>2, NextCall DEF aqmsVars
  <2> QED  BY <2>1, WorkSettled
<1> QED  BY <1>1, <1>2, ClientOrBetween

(* With one request thread, the review requests change the AQMS tables in  *)
(* whole steps only, in the calls of each and from one call to the next,   *)
(* whatever fails and whenever the process dies.                           *)
THEOREM ReviewsAreAllOrNothing == Solo => (CallbackSpec => AllOrNothing)
<1> SUFFICES ASSUME Solo PROVE CallbackSpec => AllOrNothing
  OBVIOUS
<1>1. CallbackInit => WorkInv /\ Tables!Init
  BY WorkInit, TablesInit DEF CallbackInit
<1>2. ReviewInv /\ WorkInv /\ [CallbackNext]_vars => WorkInv' /\ [Tables!Next]_aqms
  BY ReviewWork
<1> QED  BY ReviewInvariant, <1>1, <1>2, PTL
         DEF CallbackSpec, AllOrNothing, Tables!Spec

(* What ClientInv says of the client holds in the midst of reviews too:    *)
(* one coda magnitude on an origin, and a preferred magnitude that exists. *)
THEOREM ReviewsKeepTablesSound ==
    Solo => (CallbackSpec => [](OneCoda /\ PreferredExists))
<1> SUFFICES ASSUME Solo PROVE CallbackSpec => [](OneCoda /\ PreferredExists)
  OBVIOUS
<1>1. ReviewInv => OneCoda /\ PreferredExists
  BY DEF ReviewInv, ClientInv, OneCodaInv, PreferredInv, OneCoda, PreferredExists
<1> QED  BY ReviewInvariant, <1>1, PTL
=============================================================================
