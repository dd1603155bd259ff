-------------------------------- MODULE Callback --------------------------------
(***************************************************************************)
(* The accept and reject requests of the CCT review backend,               *)
(* src/callback.cpp, composed of the AQMS client (AQMSPostgresClient) and  *)
(* of the CCT event service as a review sees it (its inner workings are in *)
(* CCTPostgresService).                                                    *)
(*                                                                         *)
(* A review changes two databases that have no transaction in common:      *)
(* first the coda magnitude in AQMS, then the review status in the CCT     *)
(* database.  Each call may fail, and any exception is turned into an      *)
(* answer.  The model follows the requests for one event.                  *)
(***************************************************************************)
EXTENDS AQMSPostgresClient

CONSTANTS
    Unusable,       \* a magnitude that does not unpack, or is out of range
    MaxRewrites     \* bound: times the CCT pipeline rewrites the event

Sizes == Values \union {Unusable}

ASSUME SizesAssumption == Absent \notin Values /\ MaxRewrites \in Nat

Requests == {"accept", "reject"}
Statuses == {"unreviewed", "A", "R"}
Stages == {"idle", "origin", "find", "exists", "change", "store", "answered"}
Answer == [status : {"success", "failure"}, reason : BOOLEAN]
NoAnswer == [status |-> "failure", reason |-> FALSE]

VARIABLES
    size,           \* magnitude in the event's row of the CCT database
    status,         \* review_status in that row
    cached,         \* magnitude in the service's cache, Absent before it is loaded
    recent,         \* magnitudes the row has had since the service started
    rewrites,
    request,        \* request each thread serves
    stage,          \* where it stands
    answer,         \* status and reason of the response
    misled          \* history: the review's reads failed or are out of date

cctVars == <<size, status, cached, recent, rewrites>>
requestVars == <<request, answer, misled>>
vars == <<clientVars, size, status, cached, recent, rewrites, request, stage,
          answer, misled>>

ToStage(t, s) == stage' = [stage EXCEPT ![t] = s]

-----------------------------------------------------------------------------
(***************************************************************************)
(* Answers.                                                                *)
(***************************************************************************)
(* What status is after the catch block: reject sets it again.             *)
StatusOfFailure(r) == IF r = "reject" THEN "success" ELSE "failure"

(* The call's locals are gone; the magnitude is kept for the properties.   *)
Leave(t, v) == StartCall(t, "none", Absent, v, NoMagnitude)

Succeed(t) ==
    /\ ToStage(t, "answered")
    /\ answer' = [answer EXCEPT ![t] = [status |-> "success", reason |-> FALSE]]

CatchException(t) ==
    /\ ToStage(t, "answered")
    /\ answer' = [answer EXCEPT ![t] =
                    [status |-> StatusOfFailure(request[t]), reason |-> TRUE]]

-----------------------------------------------------------------------------
(***************************************************************************)
(* The requests.                                                           *)
(***************************************************************************)
(* haveEvent fails: the request is answered without an exception.          *)
UnknownEvent(t, r) ==
    /\ stage[t] = "idle" /\ cached = Absent
    /\ request' = [request EXCEPT ![t] = r]
    /\ answer' = [answer EXCEPT ![t] = [status |-> "failure", reason |-> TRUE]]
    /\ ToStage(t, "answered")
    /\ UNCHANGED <<clientVars, cctVars, misled>>

(* getEvent, and the magnitude of networkMagnitude.                        *)
Magnitude == IF cached = Unusable THEN Absent ELSE cached

AcceptBegin(t) ==
    /\ stage[t] = "idle" /\ cached # Absent
    /\ request' = [request EXCEPT ![t] = "accept"]
    /\ misled' = [misled EXCEPT ![t] = FALSE]
    /\ StartCall(t, "origin", Absent, Magnitude, NoMagnitude)
    /\ ToStage(t, "origin")
    /\ UNCHANGED <<aqmsVars, cctVars, answer>>

(* setMagnitude throws what cannot be a magnitude; the mutant's does not.  *)
AcceptFindUnchecked(t) ==
    /\ stage[t] = "origin" /\ at[t] = "returned"
    /\ StartCall(t, "find", orid[t], val[t], NoMagnitude)
    /\ ToStage(t, "find")
    /\ UNCHANGED <<aqmsVars, cctVars, requestVars>>
AcceptFind(t) ==
    /\ stage[t] = "origin" /\ at[t] = "returned"
    /\ IF val[t] = Absent
       THEN CatchException(t) /\ Leave(t, Absent)
       ELSE /\ StartCall(t, "find", orid[t], val[t], NoMagnitude)
            /\ ToStage(t, "find")
            /\ UNCHANGED answer
    /\ UNCHANGED <<aqmsVars, cctVars, request, misled>>

(* existingMagnitudeIdentifier has a value: update.                        *)
AcceptChange(t) ==
    /\ stage[t] = "find" /\ at[t] = "returned"
    /\ StartCall(t, IF id[t] # NoMagnitude THEN "update" ELSE "insert",
                 orid[t], val[t], id[t])
    /\ ToStage(t, "change")
    /\ UNCHANGED <<aqmsVars, cctVars, requestVars>>

RejectBegin(t) ==
    /\ stage[t] = "idle" /\ cached # Absent
    /\ request' = [request EXCEPT ![t] = "reject"]
    /\ misled' = [misled EXCEPT ![t] = FALSE]
    /\ StartCall(t, "exists", Absent, Absent, NoMagnitude)
    /\ ToStage(t, "exists")
    /\ UNCHANGED <<aqmsVars, cctVars, answer>>

RejectChange(t) ==
    /\ stage[t] = "exists" /\ at[t] = "returned"
    /\ IF found[t]
       THEN /\ StartCall(t, "delete", Absent, Absent, NoMagnitude)
            /\ ToStage(t, "change")
       ELSE ToStage(t, "store") /\ Leave(t, Absent)
    /\ UNCHANGED <<aqmsVars, cctVars, requestVars>>

Changed(t) ==
    /\ stage[t] = "change" /\ at[t] = "returned"
    /\ Leave(t, val[t])
    /\ ToStage(t, "store")
    /\ UNCHANGED <<aqmsVars, cctVars, requestVars>>

(* A call into the AQMS client has thrown; the mutant goes on.             *)
GoOn(t) ==
    /\ stage[t] \in {"origin", "find", "exists", "change"}
    /\ at[t] = "thrown"
    /\ ToStage(t, "store")
    /\ Leave(t, val[t])
    /\ UNCHANGED <<aqmsVars, cctVars, requestVars>>
CallThrows(t) ==
    /\ stage[t] \in {"origin", "find", "exists", "change"}
    /\ at[t] = "thrown"
    /\ CatchException(t)
    /\ Leave(t, Absent)
    /\ UNCHANGED <<aqmsVars, cctVars, request, misled>>

ReviewStatus(r) == IF r = "accept" THEN "A" ELSE "R"

(* A refresh stores the row it selected; when another one was under way,   *)
(* that may be an older one.                                               *)
Refreshed == cached' \in recent

(* acceptEvent and rejectEvent: the UPDATE is done or not; they throw if   *)
(* it was not, or if its answer was lost; the cache may be refreshed.  The *)
(* mutant does not look at what acceptRejectEvent returns.                 *)
ResultIgnored(t) ==
    /\ stage[t] = "store"
    /\ status' \in {status, ReviewStatus(request[t])}
    /\ Succeed(t)
    /\ Refreshed \/ UNCHANGED cached
    /\ UNCHANGED <<clientVars, size, recent, rewrites, request, misled>>
Store(t) ==
    /\ stage[t] = "store"
    /\ \E stored, answered \in BOOLEAN :
        /\ answered => stored
        /\ status' = IF stored THEN ReviewStatus(request[t]) ELSE status
        /\ IF answered THEN Succeed(t) ELSE CatchException(t)
    /\ Refreshed \/ UNCHANGED cached
    /\ UNCHANGED <<clientVars, size, recent, rewrites, request, misled>>

(* The response is sent.                                                   *)
Respond(t) ==
    /\ stage[t] = "answered"
    /\ Leave(t, Absent)
    /\ request' = [request EXCEPT ![t] = "none"]
    /\ answer' = [answer EXCEPT ![t] = NoAnswer]
    /\ misled' = [misled EXCEPT ![t] = FALSE]
    /\ ToStage(t, "idle")
    /\ UNCHANGED <<aqmsVars, cctVars>>

(* A step of the client.  The review is misled by a failed query, which    *)
(* the client answers with "no" or with identifier 0.                      *)
Misled(t) ==
    \/ at[t] = "exists" /\ found'[t] # (CodaOfEvent(View) # {})
    \/ at[t] = "find" /\ id'[t] = FalseId

Client(t) ==
    /\ ClientStep(t)
    /\ misled' = [misled EXCEPT ![t] = @ \/ Misled(t)]
    /\ UNCHANGED <<cctVars, request, stage, answer>>

-----------------------------------------------------------------------------
(***************************************************************************)
(* What happens outside.                                                   *)
(***************************************************************************)
(* Every review under way may have read what is changed now.               *)
OutOfDate == misled' = [t \in Threads |-> misled[t] \/ stage[t] # "idle"]

OtherPrograms ==
    /\ Relocate \/ PreferOther
    /\ IF aqms'.prefor # aqms.prefor THEN OutOfDate ELSE UNCHANGED misled
    /\ UNCHANGED <<cctVars, request, stage, answer>>

(* The pipeline recomputes the event, and may take back its review.        *)
PipelineRewrite ==
    /\ rewrites < MaxRewrites
    /\ rewrites' = rewrites + 1
    /\ size' \in Sizes
    /\ recent' = recent \union {size'}
    /\ status' \in {status, "unreviewed"}
    /\ OutOfDate
    /\ UNCHANGED <<clientVars, cached, request, stage, answer>>

(* The poller refreshes the cache.                                         *)
Poll ==
    /\ Refreshed
    /\ UNCHANGED <<clientVars, size, status, recent, rewrites, stage, requestVars>>

(* The process dies, and loads the event or not when it starts again.      *)
Restart ==
    /\ Die
    /\ cached' \in {size, Absent}
    /\ recent' = {size}
    /\ request' = [t \in Threads |-> "none"]
    /\ stage' = [t \in Threads |-> "idle"]
    /\ answer' = [t \in Threads |-> NoAnswer]
    /\ misled' = [t \in Threads |-> FALSE]
    /\ UNCHANGED <<size, status, rewrites>>

CallbackInit ==
    /\ Init
    /\ size \in Sizes
    /\ status = "unreviewed"
    /\ cached \in {size, Absent} /\ recent = {size}
    /\ rewrites = 0
    /\ request = [t \in Threads |-> "none"]
    /\ stage = [t \in Threads |-> "idle"]
    /\ answer = [t \in Threads |-> NoAnswer]
    /\ misled = [t \in Threads |-> FALSE]

Serve(t) ==
    \/ \E r \in Requests : UnknownEvent(t, r)
    \/ AcceptBegin(t) \/ AcceptFind(t) \/ AcceptChange(t)
    \/ RejectBegin(t) \/ RejectChange(t)
    \/ Changed(t) \/ CallThrows(t) \/ Store(t) \/ Respond(t) \/ Client(t)

CallbackNext ==
    \/ \E t \in Threads : Serve(t)
    \/ OtherPrograms \/ PipelineRewrite \/ Poll \/ Restart

CallbackSpec == CallbackInit /\ [][CallbackNext]_vars

-----------------------------------------------------------------------------
(***************************************************************************)
(* Properties.                                                             *)
(***************************************************************************)
(* Every variable has values of its kind.                                  *)
CallbackTypeOK ==
    /\ TypeOK
    /\ size \in Sizes /\ cached \in Sizes \union {Absent}
    /\ recent \in SUBSET Sizes
    /\ status \in Statuses /\ rewrites \in 0..MaxRewrites
    /\ request \in [Threads -> Requests \union {"none"}]
    /\ stage \in [Threads -> Stages]
    /\ answer \in [Threads -> Answer]
    /\ misled \in [Threads -> BOOLEAN]

HasMagnitude(v) == \E i \in CodaOfEvent(aqms) : aqms.netmag[i].val = v

(* Before a review is stored in the CCT database it is in the AQMS         *)
(* database: an accepted magnitude is there, a rejected one is gone.  So   *)
(* it is whatever earlier reviews left behind when they failed or died,    *)
(* unless this review's own reads failed or are out of date (or, for a     *)
(* rejection, an earlier one had made a second magnitude).                 *)
MagnitudeBeforeStatus ==
    \A t \in Threads : stage[t] = "store" /\ ~misled[t] =>
        IF request[t] = "accept" THEN HasMagnitude(val[t])
        ELSE "insert" \in excused \/ CodaOfEvent(aqms) = {}

(* A review answered with success and without a reason has its status in   *)
(* the CCT database, and in AQMS what goes with it.                        *)
AnswerIsTrue ==
    \A t \in Threads :
        stage[t] = "answered" /\ ~answer[t].reason /\ ~misled[t] =>
            /\ status = ReviewStatus(request[t])
            /\ IF request[t] = "accept" THEN HasMagnitude(val[t])
               ELSE "insert" \in excused \/ CodaOfEvent(aqms) = {}

(* The catch block of reject says that the request failed.                 *)
FailedRejectIsReported ==
    \A t \in Threads :
        stage[t] = "answered" /\ request[t] = "reject" /\ answer[t].reason =>
            answer[t].status = "failure"

(* Accepting inserts or updates: after it the magnitude is there.          *)
AcceptedIsInAQMS ==
    \A t \in Threads :
        stage[t] = "store" /\ request[t] = "accept" =>
            \E o \in Origins : \E i \in Codas(aqms, o) :
                aqms.netmag[i].val = val[t]
=============================================================================
