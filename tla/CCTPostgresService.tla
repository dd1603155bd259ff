--------------------------- MODULE CCTPostgresService ---------------------------
(***************************************************************************)
(* The event cache of the CCT review backend, src/cctPostgresService.cpp   *)
(* over src/events.hpp.                                                    *)
(*                                                                         *)
(* The service keeps in memory the events of every schema of the CCT       *)
(* PostgreSQL database.  A poller thread refreshes one schema after the    *)
(* other; a thread that serves an accept or reject request first updates   *)
(* the event's row and then refreshes the schema itself.  A refresh        *)
(* (updateQuery) asks for the rows whose last_update is newer than the     *)
(* schema's watermark, moves them into the cache one at a time and then    *)
(* publishes the newest last_update it met as the next watermark.          *)
(*                                                                         *)
(* What is atomic here is what the code makes atomic: the mutex covers the *)
(* UPDATE of a review and the cache insertion of one row, and neither the  *)
(* watermark nor a refresh as a whole.                                     *)
(***************************************************************************)
EXTENDS Integers, FiniteSets

CONSTANTS
    Schemas,        \* database schemas served, {"production", "test"} in main
    Events,         \* event identifiers
    Reviewers,      \* request threads that may be inside acceptRejectEvent
    Poller,         \* the thread of CCTPostgresServiceImpl::run
    None,           \* no row, no thread, no schema, no review
    Times,          \* bound: values a last_update may take
    ClockSteps,     \* time between two readings: 0, if within a microsecond
    RowLimit,       \* the LIMIT of initialQuery, 50 in the code
    MaxWrites,      \* bound: rows committed to the database
    MaxRestarts     \* bound: restarts of the process

ASSUME ThreadsAssumption == Poller \notin Reviewers /\ None \notin Reviewers
                            /\ Poller # None
ASSUME TimesAssumption == Times \subseteq Nat /\ {0, 1} \subseteq Times
ASSUME ClockAssumption == ClockSteps \subseteq Nat
ASSUME BoundsAssumption == RowLimit \in Nat /\ MaxWrites \in Nat
                           /\ MaxRestarts \in Nat

Threads == Reviewers \union {Poller}

(* std::numeric_limits<double>::lowest(), the watermark of a schema from   *)
(* which nothing was loaded.                                               *)
Lowest == -1

(* A row of <schema>.event: "ver" tells one commit from another (review    *)
(* status, magnitudes, mw_data), "ts" is last_update, and "ok" says that   *)
(* the columns and the JSON can be unpacked.                               *)
Row == [ver : Nat, ts : Times, ok : BOOLEAN]

ASSUME NoneAssumption == None \notin Schemas /\ None \notin Row

Review == [event : Events, stamp : Times, wrote : Nat, success : BOOLEAN]

VARIABLES
    table,          \* rows of the database, external
    writes,         \* number of commits so far
    clock,          \* newest time read by anybody
    cache,          \* mEventsMap
    watermark,      \* mLastUpdateMap
    mutex,          \* holder of mMutex
    todo,           \* schemas the current poll has still to query
    at,             \* where each thread stands
    schema,         \* schema argument of the running call
    review,         \* arguments and locals of acceptRejectEvent
    newest,         \* newestUpdate of updateQuery
    rows,           \* result rows of updateQuery not yet handled
    updated,        \* local of updateQuery
    restarts,
    latest,         \* history: newest last_update ever committed
    exempt,         \* history: events whose row the poller need not find
    overlapped      \* history: two refreshes of the schema overlapped

dbVars == <<table, writes, clock, latest, exempt>>
callVars == <<at, schema, newest, rows, updated>>
vars == <<table, writes, clock, cache, watermark, mutex, todo, at,
          schema, review, newest, rows, updated, restarts, latest, exempt,
          overlapped>>

-----------------------------------------------------------------------------
(***************************************************************************)
(* Starting: the constructor runs initialQuery on each schema, which loads *)
(* at most RowLimit rows, the latest by load_date, skips the rows that do  *)
(* not unpack, and takes the newest last_update of the rest as watermark.  *)
(***************************************************************************)
Present(tbl) == {e \in Events : tbl[e] # None}

(* load_date is not modelled: any rows may be the latest ones.             *)
Loadable(tbl, L) ==
    /\ L \subseteq Present(tbl)
    /\ \/ L = Present(tbl)
       \/ Cardinality(L) = RowLimit

LoadedEvents(tbl, L) ==
    [e \in Events |-> IF e \in L /\ tbl[e].ok THEN tbl[e] ELSE None]

IsNewest(w, events) ==
    LET cached == {e \in Events : events[e] # None}
    IN  /\ \A e \in cached : events[e].ts <= w
        /\ IF cached = {} THEN w = Lowest ELSE \E e \in cached : events[e].ts = w

(* Rows that are not above the watermark when the service starts are never *)
(* asked for again.                                                        *)
LeftOut(tbl, events, w) ==
    {e \in Present(tbl) : events[e] = None /\ tbl[e].ts <= w}

(* L are the rows each schema's query returned, w the watermarks.          *)
InitialQuery(tbl, L, w) ==
    \A s \in Schemas : /\ Loadable(tbl[s], L[s])
                       /\ IsNewest(w[s], LoadedEvents(tbl[s], L[s]))

Loads == [Schemas -> SUBSET Events]
Watermarks == [Schemas -> Times \union {Lowest}]

NoCalls ==
    /\ mutex = None
    /\ todo = {}
    /\ at = [t \in Threads |-> "idle"]
    /\ schema = [t \in Threads |-> None]
    /\ review = [u \in Reviewers |-> None]
    /\ newest = [t \in Threads |-> Lowest]
    /\ rows = [t \in Threads |-> {}]
    /\ updated = [t \in Threads |-> FALSE]
    /\ overlapped = [s \in Schemas |-> FALSE]

(* The pipeline has filled the tables, at times 0 and 1, before the start. *)
InitialRow == [ver : {0}, ts : {0, 1}, ok : BOOLEAN]

Init ==
    /\ table \in [Schemas -> [Events -> InitialRow \union {None}]]
    /\ writes = 0 /\ clock = 1 /\ restarts = 0
    /\ latest = [s \in Schemas |-> 1]
    /\ \E L \in Loads :
        /\ watermark \in Watermarks
        /\ InitialQuery(table, L, watermark)
        /\ cache = [s \in Schemas |-> LoadedEvents(table[s], L[s])]
        /\ exempt = [s \in Schemas |-> LeftOut(table[s], cache[s], watermark[s])]
    /\ NoCalls

(* The process dies at any point and main starts it again: only the        *)
(* database survives.                                                      *)
Restart ==
    /\ restarts < MaxRestarts
    /\ restarts' = restarts + 1
    /\ \E L \in Loads :
        /\ watermark' \in Watermarks
        /\ InitialQuery(table, L, watermark')
        /\ cache' = [s \in Schemas |-> LoadedEvents(table[s], L[s])]
        /\ exempt' = [s \in Schemas |->
                        LeftOut(table[s], cache'[s], watermark'[s])]
    /\ mutex' = None
    /\ todo' = {}
    /\ at' = [t \in Threads |-> "idle"]
    /\ schema' = [t \in Threads |-> None]
    /\ review' = [u \in Reviewers |-> None]
    /\ newest' = [t \in Threads |-> Lowest]
    /\ rows' = [t \in Threads |-> {}]
    /\ updated' = [t \in Threads |-> FALSE]
    /\ overlapped' = [s \in Schemas |-> FALSE]
    /\ UNCHANGED <<table, writes, clock, latest>>

-----------------------------------------------------------------------------
(***************************************************************************)
(* The database.                                                           *)
(***************************************************************************)
(* A statement stamped ts puts row r under event e.  A row stamped no      *)
(* later than one already committed may be behind every watermark.         *)
Commit(s, e, ts, ok) ==
    /\ writes < MaxWrites
    /\ writes' = writes + 1
    /\ table' = [table EXCEPT ![s][e] = [ver |-> writes + 1, ts |-> ts, ok |-> ok]]
    /\ latest' = [latest EXCEPT ![s] = IF ts > @ THEN ts ELSE @]
    /\ exempt' = [exempt EXCEPT ![s] = IF ts > latest[s] THEN @ \ {e}
                                                         ELSE @ \union {e}]

(* What the next reading of a clock may give.                              *)
Stamps == {clock + d : d \in ClockSteps} \cap Times

(* The CCT pipeline inserts or rewrites an event, stamped as it commits.   *)
PipelineWrite(s, e) ==
    \E ts \in Stamps, ok \in BOOLEAN :
        /\ clock' = ts
        /\ Commit(s, e, ts, ok)
        /\ UNCHANGED <<cache, callVars, watermark, mutex, todo, review,
                       restarts, overlapped>>

-----------------------------------------------------------------------------
(***************************************************************************)
(* The poller.                                                             *)
(***************************************************************************)
(* The interval has passed: every schema is to be queried.                 *)
PollAgain ==
    /\ at[Poller] = "idle" /\ todo = {}
    /\ todo' = Schemas
    /\ UNCHANGED <<dbVars, cache, callVars, watermark, mutex, review,
                   restarts, overlapped>>

(* updateQuery(s) is called; whatever it throws, the loop goes on.         *)
PollSchema(s) ==
    /\ at[Poller] = "idle" /\ s \in todo
    /\ todo' = todo \ {s}
    /\ at' = [at EXCEPT ![Poller] = "refresh"]
    /\ schema' = [schema EXCEPT ![Poller] = s]
    /\ UNCHANGED <<dbVars, cache, newest, rows, updated, watermark, mutex,
                   review, restarts, overlapped>>

-----------------------------------------------------------------------------
(***************************************************************************)
(* acceptRejectEvent, called by acceptEvent and rejectEvent.               *)
(***************************************************************************)
(* haveEvent takes the mutex for a moment; then last_update is computed,   *)
(* before the mutex is asked for.                                          *)
ReviewStart(u, s, e) ==
    /\ at[u] = "idle"
    /\ mutex = None
    /\ cache[s][e] # None
    /\ \E ts \in Stamps :
        /\ clock' = ts
        /\ review' = [review EXCEPT ![u] =
                [event |-> e, stamp |-> ts, wrote |-> 0, success |-> TRUE]]
    /\ at' = [at EXCEPT ![u] = "stamped"]
    /\ schema' = [schema EXCEPT ![u] = s]
    /\ UNCHANGED <<table, writes, latest, exempt, cache, newest, rows,
                   updated, watermark, mutex, todo, restarts, overlapped>>

(* scoped_lock at the end of its block.                                    *)
KeepMutex == mutex' = mutex     \* mutant: the block lasts to the end of the call
ReleaseMutex == mutex' = None

ReviewLock(u) ==
    /\ at[u] = "stamped"
    /\ mutex = None
    /\ mutex' = u
    /\ at' = [at EXCEPT ![u] = "locked"]
    /\ UNCHANGED <<dbVars, cache, schema, newest, rows, updated, watermark,
                   todo, review, restarts, overlapped>>

(* The connection cannot be had again, or the statement not prepared: the  *)
(* call returns false or throws, and acceptEvent throws either way.        *)
ReviewAbort(u) ==
    /\ at[u] = "locked"
    /\ ReleaseMutex
    /\ at' = [at EXCEPT ![u] = "idle"]
    /\ schema' = [schema EXCEPT ![u] = None]
    /\ review' = [review EXCEPT ![u] = None]
    /\ UNCHANGED <<dbVars, cache, newest, rows, updated, watermark, todo,
                   restarts, overlapped>>

(* success and, for the properties, the commit made.  The mutant is a      *)
(* catch block that does not reset success.                                *)
SuccessKept(r, stored, answered) ==
    [r EXCEPT !.wrote = IF stored THEN writes + 1 ELSE 0]
Outcome(r, stored, answered) ==
    [r EXCEPT !.wrote = IF stored THEN writes + 1 ELSE 0, !.success = answered]

(* The UPDATE is executed.  An error may mean that it was not done, or     *)
(* that its answer was lost; the schema is refreshed whatever happened.    *)
(* The mutant puts the review into the cache at once.                      *)
ReviewExecuteShown(u) ==
    /\ at[u] = "locked"
    /\ LET s == schema[u]
           e == review[u].event
       IN  /\ review' = [review EXCEPT ![u] = Outcome(@, TRUE, TRUE)]
           /\ Commit(s, e, review[u].stamp, table[s][e].ok)
           /\ cache' = [cache EXCEPT ![s][e] = table'[s][e]]
    /\ ReleaseMutex
    /\ at' = [at EXCEPT ![u] = "refresh"]
    /\ UNCHANGED <<clock, schema, newest, rows, updated, watermark, todo,
                   restarts, overlapped>>
ReviewExecute(u) ==
    /\ at[u] = "locked"
    /\ \E stored, answered \in BOOLEAN :
        /\ answered => stored
        /\ review' = [review EXCEPT ![u] = Outcome(@, stored, answered)]
        /\ IF stored
           THEN Commit(schema[u], review[u].event, review[u].stamp,
                       table[schema[u]][review[u].event].ok)
           ELSE UNCHANGED <<table, writes, latest, exempt>>
    /\ ReleaseMutex
    /\ at' = [at EXCEPT ![u] = "refresh"]
    /\ UNCHANGED <<clock, cache, schema, newest, rows, updated, watermark,
                   todo, restarts, overlapped>>

-----------------------------------------------------------------------------
(***************************************************************************)
(* updateQuery(schema[t]), run by the poller and by every review.          *)
(***************************************************************************)
(* The call ends; a review also answers its request.                       *)
Return(t) ==
    /\ at' = [at EXCEPT ![t] = "idle"]
    /\ schema' = [schema EXCEPT ![t] = None]
    /\ newest' = [newest EXCEPT ![t] = Lowest]
    /\ rows' = [rows EXCEPT ![t] = {}]
    /\ updated' = [updated EXCEPT ![t] = FALSE]
    /\ review' = IF t = Poller THEN review ELSE [review EXCEPT ![t] = None]

Refreshing(t, s) == schema[t] = s /\ at[t] \in {"select", "apply"}

(* Connected; the watermark is read.                                       *)
UpdateBegin(t) ==
    /\ at[t] = "refresh"
    /\ at' = [at EXCEPT ![t] = "select"]
    /\ newest' = [newest EXCEPT ![t] = watermark[schema[t]]]
    /\ overlapped' = [overlapped EXCEPT ![schema[t]] =
                        @ \/ \E o \in Threads : Refreshing(o, schema[t])]
    /\ UNCHANGED <<dbVars, cache, schema, rows, updated, watermark, mutex,
                   todo, review, restarts>>

(* The rows of the query; the mutant rounds the watermark up.              *)
RoundedQuery(s, since) ==
    {[event |-> e, row |-> table[s][e]] : e \in
        {x \in Present(table[s]) : table[s][x].ts > since + 1}}
NewerRows(s, since) ==
    {[event |-> e, row |-> table[s][e]] : e \in
        {x \in Present(table[s]) : table[s][x].ts > since}}

(* TO_TIMESTAMP(newestUpdate) is out of range for Lowest.                  *)
UpdateSelect(t) ==
    /\ at[t] = "select"
    /\ newest[t] # Lowest
    /\ at' = [at EXCEPT ![t] = "apply"]
    /\ rows' = [rows EXCEPT ![t] = NewerRows(schema[t], newest[t])]
    /\ UNCHANGED <<dbVars, cache, schema, newest, updated, watermark, mutex,
                   todo, review, restarts, overlapped>>

(* The connection is not restored or the query fails: run catches what is  *)
(* thrown inside its loop over the schemas; the mutant, outside of it.     *)
FailEndsPoll(t) ==
    /\ at[t] \in {"refresh", "select"}
    /\ Return(t)
    /\ todo' = IF t = Poller THEN {} ELSE todo
    /\ UNCHANGED <<dbVars, cache, watermark, mutex, restarts, overlapped>>
UpdateFail(t) ==
    /\ at[t] \in {"refresh", "select"}
    /\ Return(t)
    /\ UNCHANGED <<dbVars, cache, watermark, mutex, todo, restarts,
                   overlapped>>

(* insert or update; generateHash is a function of the events.             *)
Store(s, x) == cache' = [cache EXCEPT ![s][x.event] = x.row]

(* A row that unpacks goes into the cache under the mutex.                 *)
UpdateApply(t) ==
    /\ at[t] = "apply"
    /\ mutex = None
    /\ \E x \in rows[t] :
        /\ x.row.ok
        /\ rows' = [rows EXCEPT ![t] = @ \ {x}]
        /\ Store(schema[t], x)
        /\ newest' = [newest EXCEPT ![t] = IF x.row.ts > @ THEN x.row.ts ELSE @]
        /\ updated' = [updated EXCEPT ![t] = TRUE]
    /\ UNCHANGED <<dbVars, at, schema, watermark, mutex, todo, review, restarts,
                   overlapped>>

(* A row that does not unpack is logged and passed over.                   *)
UpdateSkip(t) ==
    /\ at[t] = "apply"
    /\ \E x \in rows[t] :
        /\ ~x.row.ok
        /\ rows' = [rows EXCEPT ![t] = @ \ {x}]
    /\ UNCHANGED <<dbVars, cache, at, schema, newest, updated, watermark,
                   mutex, todo, review, restarts, overlapped>>

(* The watermark moves when some row was taken; the mutant takes the time. *)
TimeOfRefresh(t) == clock
NextWatermark(t) == IF updated[t] THEN newest[t] ELSE watermark[schema[t]]

UpdatePublish(t) ==
    /\ at[t] = "apply"
    /\ rows[t] = {}
    /\ watermark' = [watermark EXCEPT ![schema[t]] = NextWatermark(t)]
    /\ Return(t)
    /\ UNCHANGED <<dbVars, cache, mutex, todo, restarts, overlapped>>

-----------------------------------------------------------------------------
UpdateStep(t) ==
    \/ UpdateBegin(t) \/ UpdateSelect(t) \/ UpdateFail(t)
    \/ UpdateApply(t) \/ UpdateSkip(t) \/ UpdatePublish(t)

ReviewStep(u) == ReviewLock(u) \/ ReviewAbort(u) \/ ReviewExecute(u)

Next ==
    \/ \E s \in Schemas, e \in Events : PipelineWrite(s, e)
    \/ PollAgain
    \/ \E s \in Schemas : PollSchema(s)
    \/ \E u \in Reviewers, s \in Schemas, e \in Events : ReviewStart(u, s, e)
    \/ \E u \in Reviewers : ReviewStep(u)
    \/ \E t \in Threads : UpdateStep(t)
    \/ Restart

Spec == Init /\ [][Next]_vars

(***************************************************************************)
(* Fairness.  A thread that can go on does, and the poll loop never ends.  *)
(* The database may be away for a while at any time, and a review holds    *)
(* the mutex for one statement only, so a poller that asks again and again *)
(* for a schema is at last answered, and served by the mutex.              *)
(***************************************************************************)
PollFairness ==
    /\ WF_vars(PollAgain)
    /\ \A s \in Schemas :
        /\ WF_vars(PollSchema(s))
        /\ SF_vars(schema[Poller] = s /\ UpdateBegin(Poller))
        /\ SF_vars(schema[Poller] = s /\ UpdateSelect(Poller))
        /\ SF_vars(schema[Poller] = s /\ UpdateApply(Poller))
    /\ WF_vars(UpdateStep(Poller))

RequestFairness ==
    \A u \in Reviewers : /\ WF_vars(ReviewAbort(u) \/ ReviewExecute(u))
                         /\ SF_vars(ReviewLock(u))
                         /\ WF_vars(UpdateBegin(u) \/ UpdateSelect(u) \/ UpdateFail(u))
                         /\ SF_vars(UpdateApply(u))
                         /\ WF_vars(UpdateSkip(u) \/ UpdatePublish(u))

FairSpec == Spec /\ PollFairness /\ RequestFairness

-----------------------------------------------------------------------------
(***************************************************************************)
(* Properties.                                                             *)
(***************************************************************************)
(* Every variable has its type; a review's arguments are there while it    *)
(* runs; the mutex is held exactly by a review that executes its UPDATE.   *)
TypeOK ==
    /\ table \in [Schemas -> [Events -> Row \union {None}]]
    /\ writes \in Nat /\ clock \in Times /\ restarts \in Nat
    /\ cache \in [Schemas -> [Events -> Row \union {None}]]
    /\ watermark \in Watermarks
    /\ mutex \in Reviewers \union {None}
    /\ todo \in SUBSET Schemas
    /\ at \in [Threads -> {"idle", "stamped", "locked", "refresh", "select", "apply"}]
    /\ schema \in [Threads -> Schemas \union {None}]
    /\ \A t \in Threads : at[t] # "idle" => schema[t] \in Schemas
    /\ review \in [Reviewers -> Review \union {None}]
    /\ \A u \in Reviewers : at[u] # "idle" => review[u] \in Review
    /\ \A u \in Reviewers : at[u] = "locked" <=> mutex = u
    /\ newest \in [Threads -> Times \union {Lowest}]
    /\ rows \in [Threads -> SUBSET [event : Events, row : Row]]
    /\ updated \in [Threads -> BOOLEAN]
    /\ latest \in [Schemas -> Times]
    /\ exempt \in [Schemas -> SUBSET Events]
    /\ overlapped \in [Schemas -> BOOLEAN]

(* What the front ends have been shown is not taken back: until a restart  *)
(* an event in the cache stays there, and is replaced by a later commit    *)
(* only, as long as no refreshes of its schema have overlapped.            *)
NeverBackwards ==
    [][restarts' = restarts => \A s \in Schemas, e \in Events :
        cache[s][e] # None /\ ~overlapped[s] =>
            cache'[s][e] # None /\ cache'[s][e].ver >= cache[s][e].ver]_vars

(* The row of e is one the cache must come to show: it unpacks, and        *)
(* neither was left out at the start nor carries a late stamp.             *)
Obliged(s, e) ==
    /\ table[s][e] # None
    /\ table[s][e].ok
    /\ e \notin exempt[s]

Shown(s, e) == cache[s][e] = table[s][e]

ToBeFetched(s, e) == table[s][e].ts > watermark[s]

Quiet(s) == \A t \in Threads : ~Refreshing(t, s)

(* No update is lost: whenever no refresh of a schema is under way, every  *)
(* row is in the cache or still above the watermark, where the next poll   *)
(* finds it, however refreshes failed, rows failed to unpack and reviews   *)
(* lost their answer before; provided that refreshes never overlapped.     *)
CatchUp ==
    \A s \in Schemas : Quiet(s) /\ ~overlapped[s] =>
        \A e \in Events : Obliged(s, e) => Shown(s, e) \/ ToBeFetched(s, e)

(***************************************************************************)
(* Why CatchUp holds: its inductive strengthening.  A row the cache must   *)
(* show is ahead of every watermark that is or may be published, or it is  *)
(* in the cache and no pending row can displace it, or it is itself among  *)
(* the rows a refresh has still to apply.                                  *)
(***************************************************************************)
RowsExist ==
    /\ \A s \in Schemas, e \in Events : cache[s][e] # None => table[s][e] # None
    /\ \A u \in Reviewers :
        at[u] # "idle" => table[schema[u]][review[u].event] # None
    /\ \A t \in Threads : \A x \in rows[t] : table[schema[t]][x.event] # None

PendingRows ==
    \A t \in Threads :
        /\ at[t] # "apply" => rows[t] = {}
        /\ \A x, y \in rows[t] : x.event = y.event => x = y

NothingBeyondLatest ==
    \A s \in Schemas :
        /\ watermark[s] <= latest[s]
        /\ \A e \in Events : table[s][e] # None => table[s][e].ts <= latest[s]
        /\ \A t \in Threads : Refreshing(t, s) =>
            /\ newest[t] <= latest[s]
            /\ \A x \in rows[t] : x.row.ts <= latest[s]

OneRefresh ==
    \A s \in Schemas : ~overlapped[s] =>
        \A t, o \in Threads : Refreshing(t, s) /\ Refreshing(o, s) => t = o

Ahead(s, e) ==
    /\ ToBeFetched(s, e)
    /\ \A t \in Threads : Refreshing(t, s) =>
        /\ newest[t] < table[s][e].ts
        /\ \A x \in rows[t] : x.row.ok => x.row.ts < table[s][e].ts

Settled(s, e) ==
    /\ Shown(s, e)
    /\ \A t \in Threads : Refreshing(t, s) =>
        \A x \in rows[t] : x.event = e => x.row = table[s][e]

Pending(s, e) ==
    \E t \in Threads : /\ Refreshing(t, s)
                       /\ \E x \in rows[t] : x.event = e /\ x.row = table[s][e]

Accounted(s, e) == Ahead(s, e) \/ Settled(s, e) \/ Pending(s, e)

RowsAccounted ==
    \A s \in Schemas : ~overlapped[s] =>
        \A e \in Events : Obliged(s, e) => Accounted(s, e)

CatchUpInv ==
    /\ TypeOK /\ RowsExist /\ PendingRows /\ NothingBeyondLatest
    /\ OneRefresh /\ RowsAccounted

(* A review that is acknowledged was committed by its own UPDATE; and if   *)
(* its refresh ran to the end undisturbed and its row is still the current *)
(* one, the event data already show it when the request is answered.       *)
Answered(u) == at[u] \in {"refresh", "select", "apply"} /\ at'[u] = "idle"

RefreshDone(u) == at[u] = "apply" /\ ~overlapped[schema[u]]

AcknowledgedReview ==
    [][restarts' = restarts => \A u \in Reviewers :
        Answered(u) /\ review[u].success =>
            LET s == schema[u]
                e == review[u].event
            IN  /\ review[u].wrote > 0
                /\ RefreshDone(u) /\ table[s][e].ver = review[u].wrote
                    /\ Obliged(s, e) => Shown(s, e)]_vars

(* Why it holds: commits are numbered upwards, so a review recognises its  *)
(* own, and a review that has run its query either sees its row settled or *)
(* has it among the rows it still has to apply.                            *)
Updating(u) == at[u] \in {"refresh", "select", "apply"}

CommitsNumbered ==
    /\ \A s \in Schemas, e \in Events :
        table[s][e] # None => table[s][e].ver <= writes
    /\ \A u \in Reviewers : Updating(u) =>
        /\ review[u].wrote <= writes
        /\ review[u].success => review[u].wrote > 0

OwnRow(u) ==
    LET row == table[schema[u]][review[u].event]
    IN  /\ RefreshDone(u)
        /\ review[u].wrote > 0 /\ row.ver = review[u].wrote
        /\ Obliged(schema[u], review[u].event)

Taken(u) ==
    LET s == schema[u]
        e == review[u].event
    IN  Settled(s, e) \/ \E x \in rows[u] : x.event = e /\ x.row = table[s][e]

OwnRowTaken == \A u \in Reviewers : OwnRow(u) => Taken(u)

AnswerInv == CommitsNumbered /\ OwnRowTaken

(* Why NeverBackwards holds: neither the cache nor a pending row is ahead  *)
(* of the table, nor the cache ahead of a pending row.                     *)
NoneAheadOfTable ==
    \A s \in Schemas, e \in Events :
        /\ cache[s][e] # None => cache[s][e].ver <= table[s][e].ver
        /\ \A t \in Threads : schema[t] = s => \A x \in rows[t] :
            x.event = e => x.row.ver <= table[s][e].ver

NoneAheadOfRefresh ==
    \A t \in Threads : at[t] = "apply" /\ ~overlapped[schema[t]] =>
        \A x \in rows[t] :
            LET shown == cache[schema[t]][x.event]
            IN  shown # None => shown.ver <= x.row.ver

VersionInv == CommitsNumbered /\ NoneAheadOfTable /\ NoneAheadOfRefresh

(* Once nothing is written any more, the cache of a schema from which      *)
(* something could be loaded comes to show every row it must, and stays.   *)
Fresh(s) == \A e \in Events : Obliged(s, e) => Shown(s, e)

Converges ==
    \A s \in Schemas : <>[](watermark[s] = Lowest \/ overlapped[s] \/ Fresh(s))

(* Every review request is answered, whatever the database does.           *)
ReviewsAreAnswered ==
    \A u \in Reviewers : at[u] # "idle" ~> at[u] = "idle"

-----------------------------------------------------------------------------
(***************************************************************************)
(* What acceptRejectEvent assumes, and the code does not do.               *)
(***************************************************************************)
(* "Won't matter if we fail": a row that is not in the event data after a  *)
(* refresh is found by the poller later.  Here for rows stamped in order.  *)
NothingLostToOverlap ==
    \A s \in Schemas : Quiet(s) =>
        \A e \in Events : Obliged(s, e) => Shown(s, e) \/ ToBeFetched(s, e)
=============================================================================
