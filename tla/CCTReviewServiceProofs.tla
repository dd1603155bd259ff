------------------------ MODULE CCTReviewServiceProofs -------------------------
(***************************************************************************)
(* The CCT event service keeps the promises of ReviewService, for any      *)
(* schemas, events and request threads, and any bounds.                    *)
(***************************************************************************)
EXTENDS CCTReviewService, CCTPostgresServiceProofs

(* The rows that are shown or selected are recent ones, and no recent row  *)
(* has the number of a commit to come.                                     *)
RecentInv ==
    /\ recent \in [Schemas -> [Events -> SUBSET Row]]
    /\ \A s \in Schemas, e \in Events :
        /\ RowNow(s, e) \subseteq recent[s][e]
        /\ cache[s][e] # None => cache[s][e] \in recent[s][e]
        /\ \A r \in recent[s][e] : r.ver <= writes
    /\ \A t \in Threads : \A x \in rows[t] :
        x.row \in recent[schema[t]][x.event]

HistoryInv == Base /\ RecentInv

-----------------------------------------------------------------------------
(* What a step that is not a restart leaves of the history.                *)
LEMMA HistoryGrows ==
    ASSUME HistoryInv, HistoryNext, restarts' = restarts,
           NEW s \in Schemas, NEW e \in Events
    PROVE  /\ recent'[s][e] = recent[s][e] \union RowNow(s, e)'
           /\ table'[s][e] = table[s][e] => recent'[s][e] = recent[s][e]
<1>1. recent'[s][e] = recent[s][e] \union RowNow(s, e)'
  BY DEF HistoryNext
<1>2. table'[s][e] = table[s][e] => RowNow(s, e)' \subseteq recent[s][e]
  BY DEF RowNow, HistoryInv, RecentInv
<1> QED  BY <1>1, <1>2

LEMMA HistoryType ==
    ASSUME HistoryInv, HistoryNext, TypeOK'
    PROVE  /\ recent' \in [Schemas -> [Events -> SUBSET Row]]
           /\ \A s \in Schemas, e \in Events : RowNow(s, e)' \subseteq recent'[s][e]
<1>1. ASSUME NEW s \in Schemas, NEW e \in Events PROVE RowNow(s, e)' \in SUBSET Row
  BY DEF TypeOK, RowNow
<1>2. ASSUME NEW s \in Schemas, NEW e \in Events
      PROVE  ((IF restarts' = restarts THEN recent[s][e] ELSE {})
                \union RowNow(s, e)') \in SUBSET Row
  BY <1>1 DEF HistoryInv, RecentInv
<1>3. recent' = [s \in Schemas |-> [e \in Events |->
                    (IF restarts' = restarts THEN recent[s][e] ELSE {})
                        \union RowNow(s, e)']]
  BY DEF HistoryNext
<1> QED  BY <1>2, <1>3

(* Where nothing is committed the history stays as it is.                  *)
LEMMA HistoryStays ==
    ASSUME HistoryInv, HistoryNext, restarts' = restarts, table' = table
    PROVE  recent' = recent
<1>1. recent \in [Schemas -> [Events -> SUBSET Row]]
  BY DEF HistoryInv, RecentInv
<1>2. \A s \in Schemas, e \in Events : recent'[s][e] = recent[s][e]
  BY HistoryGrows
<1>3. recent' = [s \in Schemas |-> [e \in Events |-> recent'[s][e]]]
  BY DEF HistoryNext
<1> QED  BY <1>1, <1>2, <1>3

(* A commit is a write.                                                    *)
LEMMA CommitWrites ==
    ASSUME HistoryInv, HistoryNext, restarts' = restarts,
           NEW s \in Schemas, NEW e \in Events, NEW ts \in Times, NEW ok \in BOOLEAN,
           Commit(s, e, ts, ok)
    PROVE  Service!Write(s, e)
<1> DEFINE new == [ver |-> writes + 1, ts |-> ts, ok |-> ok]
<1>1. TypeOK /\ RecentInv /\ writes \in Nat
  BY DEF HistoryInv, Base, TypeOK
<1>2. new \in Row /\ new.ver = writes + 1 /\ new # None
  BY <1>1, NoneAssumption DEF Row
<1>3. /\ table' = [table EXCEPT ![s][e] = new] /\ table'[s][e] = new
      /\ \A r \in Schemas, x \in Events :
            <<r, x>> # <<s, e>> => table'[r][x] = table[r][x]
  BY <1>1 DEF Commit, TypeOK
<1>4. new \notin recent[s][e]
  <2>1. \A r \in recent[s][e] : r \in Row /\ r.ver <= writes /\ r.ver \in Nat
    BY <1>1 DEF RecentInv, Row
  <2> QED  BY <1>1, <1>2, <2>1
<1> HIDE DEF new
<1>5. RowNow(s, e)' = {new}
  BY <1>2, <1>3 DEF RowNow
<1>6. recent'[s][e] = recent[s][e] \union {new}
  BY <1>5, HistoryGrows
<1>7. \A r \in Schemas, x \in Events :
            <<r, x>> # <<s, e>> => recent'[r][x] = recent[r][x]
  BY <1>3, HistoryGrows
<1>8. recent' = [r \in Schemas |-> [x \in Events |-> recent'[r][x]]]
  BY DEF HistoryNext
<1>9. recent' = [recent EXCEPT ![s][e] = recent[s][e] \union {new}]
  <2>1. recent \in [Schemas -> [Events -> SUBSET Row]]
    BY <1>1 DEF RecentInv
  <2> QED  BY <1>6, <1>7, <1>8, <2>1
<1> QED  BY <1>2, <1>3, <1>4, <1>9 DEF Service!Write

-----------------------------------------------------------------------------
(* The invariant holds at first.                                           *)
LEMMA InitHistory == HistoryInit => HistoryInv
<1> SUFFICES ASSUME HistoryInit PROVE RecentInv
  BY InitBase DEF HistoryInit, HistoryInv
<1>1. Init /\ TypeOK
  BY InitType DEF HistoryInit
<1>2. \A s \in Schemas, e \in Events : recent[s][e] = RowNow(s, e)
  BY DEF HistoryInit
<1>3. \A s \in Schemas, e \in Events :
        /\ RowNow(s, e) \in SUBSET Row
        /\ \A r \in RowNow(s, e) : r = table[s][e] /\ r.ver = 0
  BY <1>1 DEF TypeOK, RowNow, Init, InitialRow
<1>4. PICK L \in Loads : cache = [s \in Schemas |-> LoadedEvents(table[s], L[s])]
  BY <1>1 DEF Init
<1>5. ASSUME NEW s \in Schemas, NEW e \in Events, cache[s][e] # None
      PROVE  cache[s][e] \in RowNow(s, e)
  <2>1. table[s] \in [Events -> Row \union {None}]
    BY <1>1 DEF TypeOK
  <2>2. cache[s][e] = table[s][e]
    BY <1>4, <1>5, <2>1, LoadedEventsType
  <2> QED  BY <1>5, <2>2 DEF RowNow
<1>6. recent \in [Schemas -> [Events -> SUBSET Row]]
  BY <1>3 DEF HistoryInit
<1>7. writes = 0 /\ \A t \in Threads : rows[t] = {}
  BY <1>1 DEF Init, NoCalls
<1> QED  BY <1>2, <1>3, <1>5, <1>6, <1>7 DEF RecentInv

(* What a step that is not a restart must see to.                          *)
LEMMA RecentKept ==
    ASSUME HistoryInv, HistoryNext, Base', restarts' = restarts, writes <= writes',
           \A s \in Schemas, e \in Events :
             /\ table'[s][e] = table[s][e] \/ table'[s][e].ver <= writes'
             /\ cache'[s][e] # None => cache'[s][e] \in recent[s][e],
           \A t \in Threads : \A x \in rows'[t] :
                x.row \in recent[schema'[t]][x.event]
    PROVE  RecentInv'
<1>1. /\ recent' \in [Schemas -> [Events -> SUBSET Row]]
      /\ \A s \in Schemas, e \in Events : RowNow(s, e)' \subseteq recent'[s][e]
  BY HistoryType DEF Base
<1>2. \A s \in Schemas, e \in Events : recent[s][e] \subseteq recent'[s][e]
  BY HistoryGrows
<1>3. ASSUME NEW s \in Schemas, NEW e \in Events, NEW r \in recent'[s][e]
      PROVE  r.ver <= writes'
  <2>1. writes \in Nat /\ writes' \in Nat
    BY DEF HistoryInv, Base, TypeOK
  <2>2. CASE r \in recent[s][e]
    <3>1. r.ver <= writes /\ r \in Row
      BY <2>2 DEF HistoryInv, RecentInv
    <3> QED  BY <2>1, <3>1 DEF Row
  <2>3. CASE r \notin recent[s][e]
    <3>1. r = table'[s][e] /\ r # None
      BY <2>3, HistoryGrows DEF RowNow
    <3>2. table'[s][e] # table[s][e]
      BY <2>3, <3>1 DEF HistoryInv, RecentInv, RowNow
    <3> QED  BY <3>1, <3>2
  <2> QED  BY <2>2, <2>3
<1>4. ASSUME NEW t \in Threads, NEW x \in rows'[t]
      PROVE  x.row \in recent'[schema'[t]][x.event]
  <2>1. at'[t] = "apply"
    BY DEF Base, PendingRows
  <2>2. schema'[t] \in Schemas /\ x.event \in Events
    BY <2>1 DEF Base, TypeOK
  <2> QED  BY <1>2, <2>2
<1> QED  BY <1>1, <1>2, <1>3, <1>4 DEF RecentInv

(* A commit adds its row to the history.                                   *)
LEMMA CommitHistory ==
    ASSUME HistoryInv, HistoryNext, Base', restarts' = restarts,
           NEW s \in Schemas, NEW e \in Events, NEW ts \in Times, NEW ok \in BOOLEAN,
           Commit(s, e, ts, ok), UNCHANGED <<cache, rows, schema>>
    PROVE  RecentInv'
<1>1. TypeOK /\ RecentInv
  BY DEF HistoryInv, Base
<1>2. writes \in Nat /\ writes' = writes + 1 /\ table'[s][e].ver = writes + 1
  BY <1>1, CommitVersion
<1>3. \A r \in Schemas, x \in Events : table'[r][x] = table[r][x] \/ table'[r][x].ver <= writes'
  BY <1>1, <1>2, CommitEffect
<1> QED  BY <1>1, <1>2, <1>3, RecentKept DEF RecentInv

(* Nothing is committed or shown, and nothing selected.                    *)
LEMMA RecentFrame ==
    ASSUME HistoryInv, HistoryNext, Base',
           UNCHANGED <<table, writes, cache, restarts>>,
           \A t \in Threads : rows'[t] = {} \/ (rows'[t] \subseteq rows[t]
                                                /\ schema'[t] = schema[t])
    PROVE  RecentInv'
<1>1. RecentInv /\ writes \in Nat
  BY DEF HistoryInv, Base, TypeOK
<1>2. \A t \in Threads : \A x \in rows'[t] : x.row \in recent[schema'[t]][x.event]
  BY <1>1 DEF RecentInv
<1> QED  BY <1>1, <1>2, RecentKept DEF RecentInv

(* The query of a refresh returns rows of the table, and what is put into  *)
(* the cache was returned by a query.                                      *)
LEMMA SelectHistory ==
    ASSUME HistoryInv, HistoryNext, Base', NEW t \in Threads, UpdateSelect(t)
    PROVE  RecentInv'
<1>1. TypeOK /\ RecentInv /\ writes \in Nat
  BY DEF HistoryInv, Base, TypeOK
<1>2. /\ UNCHANGED <<table, writes, cache, schema, restarts>>
      /\ rows' = [rows EXCEPT ![t] = NewerRows(schema[t], newest[t])]
  BY DEF UpdateSelect, dbVars
<1>3. schema[t] \in Schemas
  BY <1>1 DEF TypeOK, UpdateSelect
<1>4. \A x \in NewerRows(schema[t], newest[t]) :
        x.event \in Events /\ x.row = table[schema[t]][x.event] /\ x.row # None
  BY DEF NewerRows, Present
<1>5. \A x \in NewerRows(schema[t], newest[t]) : x.row \in recent[schema[t]][x.event]
  BY <1>1, <1>3, <1>4 DEF RecentInv, RowNow
<1>6. ASSUME NEW o \in Threads, NEW x \in rows'[o]
      PROVE  x.row \in recent[schema'[o]][x.event]
  <2>1. rows'[o] = IF o = t THEN NewerRows(schema[t], newest[t]) ELSE rows[o]
    BY <1>1, <1>2 DEF TypeOK
  <2> QED  BY <1>1, <1>2, <1>5, <2>1 DEF RecentInv
<1> QED  BY <1>1, <1>2, <1>6, RecentKept DEF RecentInv

LEMMA ApplyShows ==
    ASSUME HistoryInv, NEW t \in Threads, UpdateApply(t)
    PROVE  \E s \in Schemas, e \in Events : \E r \in recent[s][e] :
                /\ cache' = [cache EXCEPT ![s][e] = r]
                /\ cache'[s][e] = r
                /\ \A q \in Schemas, x \in Events :
                    <<q, x>> # <<s, e>> => cache'[q][x] = cache[q][x]
<1>1. TypeOK /\ RecentInv
  BY DEF HistoryInv, Base
<1>2. PICK x \in rows[t] : cache' = [cache EXCEPT ![schema[t]][x.event] = x.row]
  BY DEF UpdateApply, Store
<1>3. schema[t] \in Schemas /\ x.event \in Events
  BY <1>1 DEF TypeOK, UpdateApply
<1>4. x.row \in recent[schema[t]][x.event]
  BY <1>1 DEF RecentInv
<1>5. /\ cache'[schema[t]][x.event] = x.row
      /\ \A q \in Schemas, y \in Events :
            <<q, y>> # <<schema[t], x.event>> => cache'[q][y] = cache[q][y]
  BY <1>1, <1>2, <1>3 DEF TypeOK
<1> QED  BY <1>2, <1>3, <1>4, <1>5

LEMMA ApplyHistory ==
    ASSUME HistoryInv, HistoryNext, Base', NEW t \in Threads, UpdateApply(t)
    PROVE  RecentInv'
<1>1. TypeOK /\ RecentInv /\ writes \in Nat
  BY DEF HistoryInv, Base, TypeOK
<1>2. UNCHANGED <<table, writes, schema, restarts>>
  BY DEF UpdateApply, dbVars
<1>3. \A o \in Threads : rows'[o] \subseteq rows[o]
  BY <1>1 DEF UpdateApply, TypeOK
<1>4. \A s \in Schemas, e \in Events :
        cache'[s][e] # None => cache'[s][e] \in recent[s][e]
  BY <1>1, ApplyShows DEF RecentInv
<1>5. \A o \in Threads : \A x \in rows'[o] : x.row \in recent[schema'[o]][x.event]
  BY <1>1, <1>2, <1>3 DEF RecentInv
<1> QED  BY <1>1, <1>2, <1>4, <1>5, RecentKept

(* A restart forgets the rows of before, and loads from those there are.   *)
LEMMA RestartShows ==
    ASSUME HistoryInv, HistoryNext, Restart
    PROVE  /\ recent' = [s \in Schemas |-> [e \in Events |-> RowNow(s, e)]]
           /\ \A s \in Schemas, e \in Events : cache'[s][e] \in {None, table[s][e]}
           /\ table' = table /\ writes' = writes
<1>1. TypeOK /\ table' = table /\ writes' = writes
  BY DEF HistoryInv, Base, Restart
<1>2. restarts' # restarts
  BY <1>1 DEF Restart, TypeOK
<1>3. recent' = [s \in Schemas |-> [e \in Events |-> RowNow(s, e)]]
  BY <1>1, <1>2 DEF HistoryNext, RowNow
<1>4. PICK L \in Loads : cache' = [s \in Schemas |-> LoadedEvents(table[s], L[s])]
  BY DEF Restart
<1>5. ASSUME NEW s \in Schemas, NEW e \in Events
      PROVE  cache'[s][e] \in {None, table[s][e]}
  <2>1. table[s] \in [Events -> Row \union {None}]
    BY <1>1 DEF TypeOK
  <2> QED  BY <1>4, <2>1, LoadedEventsType
<1> QED  BY <1>1, <1>3, <1>5

LEMMA RestartHistory ==
    ASSUME HistoryInv, HistoryNext, Restart
    PROVE  RecentInv'
<1>1. TypeOK /\ RecentInv
  BY DEF HistoryInv, Base
<1>2. \A s \in Schemas, e \in Events :
        /\ RowNow(s, e) \in SUBSET Row
        /\ RowNow(s, e) \subseteq recent[s][e]
        /\ recent'[s][e] = RowNow(s, e) /\ RowNow(s, e)' = RowNow(s, e)
  BY <1>1, RestartShows DEF RecentInv, TypeOK, RowNow
<1>3. recent' \in [Schemas -> [Events -> SUBSET Row]]
  BY <1>2, RestartShows
<1>4. \A s \in Schemas, e \in Events :
        cache'[s][e] # None => cache'[s][e] \in recent'[s][e]
  BY <1>2, RestartShows DEF RowNow
<1>5. \A t \in Threads : rows'[t] = {}
  BY DEF Restart
<1>6. \A s \in Schemas, e \in Events : \A r \in recent'[s][e] : r.ver <= writes'
  BY <1>1, <1>2, RestartShows DEF RecentInv
<1> QED  BY <1>2, <1>3, <1>4, <1>5, <1>6 DEF RecentInv

LEMMA NextHistory == HistoryInv /\ [HistoryNext]_<<vars, recent>> => HistoryInv'
<1> SUFFICES ASSUME HistoryInv, HistoryNext PROVE HistoryInv'
  <2>1. HistoryInv /\ UNCHANGED <<vars, recent>> => HistoryInv'
    <3> SUFFICES ASSUME HistoryInv, UNCHANGED <<vars, recent>> PROVE HistoryInv'
      OBVIOUS
    <3>1. Base'
      BY NextBase DEF HistoryInv
    <3> QED  BY <3>1 DEF HistoryInv, RecentInv, RowNow, vars
  <2> QED  BY <2>1
<1>1. Next /\ Base' /\ TypeOK
  BY NextBase DEF HistoryNext, HistoryInv, Base
<1> SUFFICES RecentInv'
  BY <1>1 DEF HistoryInv
<1>2. ASSUME NEW s \in Schemas, NEW e \in Events, PipelineWrite(s, e)
      PROVE  RecentInv'
  <2>1. PICK ts \in Stamps, ok \in BOOLEAN : Commit(s, e, ts, ok)
    BY <1>2 DEF PipelineWrite
  <2> QED
    BY <1>1, <1>2, <2>1, CommitHistory DEF PipelineWrite, Stamps, callVars
<1>3. CASE PollAgain
  BY <1>1, <1>3, RecentFrame DEF PollAgain, dbVars, callVars
<1>4. ASSUME NEW s \in Schemas, PollSchema(s) PROVE RecentInv'
  <2>1. \A t \in Threads : rows'[t] = {} \/ (rows'[t] \subseteq rows[t]
                                             /\ schema'[t] = schema[t])
    BY <1>1, <1>4 DEF HistoryInv, Base, PendingRows, PollSchema, TypeOK
  <2> QED  BY <1>1, <1>4, <2>1, RecentFrame DEF PollSchema, dbVars
<1>5. ASSUME NEW u \in Reviewers, NEW s \in Schemas, NEW e \in Events,
             ReviewStart(u, s, e)
      PROVE  RecentInv'
  <2>1. \A t \in Threads : rows'[t] = {} \/ (rows'[t] \subseteq rows[t]
                                             /\ schema'[t] = schema[t])
    BY <1>1, <1>5 DEF HistoryInv, Base, PendingRows, ReviewStart, TypeOK
  <2> QED  BY <1>1, <1>5, <2>1, RecentFrame DEF ReviewStart
<1>6. ASSUME NEW u \in Reviewers, ReviewLock(u) PROVE RecentInv'
  BY <1>1, <1>6, RecentFrame DEF ReviewLock, dbVars
<1>7. ASSUME NEW u \in Reviewers, ReviewAbort(u) PROVE RecentInv'
  <2>1. \A t \in Threads : rows'[t] = {} \/ (rows'[t] \subseteq rows[t]
                                             /\ schema'[t] = schema[t])
    BY <1>1, <1>7 DEF HistoryInv, Base, PendingRows, ReviewAbort, TypeOK
  <2> QED  BY <1>1, <1>7, <2>1, RecentFrame DEF ReviewAbort, dbVars
<1>8. ASSUME NEW u \in Reviewers, ReviewExecute(u) PROVE RecentInv'
  <2>1. UNCHANGED <<cache, rows, schema, restarts>>
    BY <1>8 DEF ReviewExecute
  <2>2. CASE UNCHANGED <<table, writes>>
    BY <1>1, <2>1, <2>2, RecentFrame
  <2>3. CASE Commit(schema[u], review[u].event, review[u].stamp,
                    table[schema[u]][review[u].event].ok)
    <3>1. RowsExist
      BY DEF HistoryInv, Base
    <3> QED  BY <1>1, <1>8, <2>1, <2>3, <3>1, ReviewedRow, CommitHistory
  <2> QED  BY <1>8, <2>2, <2>3 DEF ReviewExecute
<1>9. ASSUME NEW t \in Threads, UpdateBegin(t) PROVE RecentInv'
  BY <1>1, <1>9, RecentFrame DEF UpdateBegin, dbVars
<1>10. ASSUME NEW t \in Threads, UpdateSelect(t) PROVE RecentInv'
  BY <1>1, <1>10, SelectHistory
<1>11. ASSUME NEW t \in Threads, UpdateFail(t) \/ UpdatePublish(t) PROVE RecentInv'
  <2>1. /\ rows' = [rows EXCEPT ![t] = {}]
        /\ schema' = [schema EXCEPT ![t] = None]
        /\ UNCHANGED <<table, writes, cache, restarts>>
    BY <1>11 DEF UpdateFail, UpdatePublish, Return, dbVars
  <2>2. \A o \in Threads : rows'[o] = {} \/ (rows'[o] \subseteq rows[o]
                                             /\ schema'[o] = schema[o])
    BY <1>1, <2>1 DEF TypeOK
  <2> QED  BY <1>1, <2>1, <2>2, RecentFrame
<1>12. ASSUME NEW t \in Threads, UpdateApply(t) PROVE RecentInv'
  BY <1>1, <1>12, ApplyHistory
<1>13. ASSUME NEW t \in Threads, UpdateSkip(t) PROVE RecentInv'
  <2>1. \A o \in Threads : rows'[o] \subseteq rows[o]
    BY <1>1, <1>13 DEF UpdateSkip, TypeOK
  <2> QED  BY <1>1, <1>13, <2>1, RecentFrame DEF UpdateSkip, dbVars
<1>14. CASE Restart
  BY <1>14, RestartHistory
<1> QED
  BY <1>1, <1>2, <1>3, <1>4, <1>5, <1>6, <1>7, <1>8, <1>9, <1>10, <1>11, <1>12,
     <1>13, <1>14
  DEF Next, ReviewStep, UpdateStep

-----------------------------------------------------------------------------
(***************************************************************************)
(* Every step is a step of the promise, or changes nothing of it.          *)
(***************************************************************************)
LEMMA CallsStay ==
    ASSUME \A u \in Reviewers : CallNow(u)' = CallNow(u)
    PROVE  CallsNow' = CallsNow
BY DEF CallsNow

LEMMA CallMoves ==
    ASSUME NEW u \in Reviewers,
           \A o \in Reviewers : o # u => CallNow(o)' = CallNow(o)
    PROVE  CallsNow' = [CallsNow EXCEPT ![u] = CallNow(u)']
BY DEF CallsNow

LEMMA ReviewersAreThreads == Reviewers \subseteq Threads /\ Poller \notin Reviewers
BY ThreadsAssumption DEF Threads

(* A commit by the pipeline.                                               *)
LEMMA PipelinePromise ==
    ASSUME HistoryInv, HistoryNext, NEW s \in Schemas, NEW e \in Events,
           PipelineWrite(s, e)
    PROVE  Service!Pipeline(s, e)
<1>1. PICK ts \in Stamps, ok \in BOOLEAN : Commit(s, e, ts, ok)
  BY DEF PipelineWrite
<1>2. ts \in Times
  BY DEF Stamps
<1>3. UNCHANGED <<cache, at, schema, review, restarts>>
  BY DEF PipelineWrite, callVars
<1>4. CallsNow' = CallsNow
  BY <1>3, CallsStay DEF CallNow
<1>5. Service!Write(s, e)
  BY <1>1, <1>2, <1>3, CommitWrites
<1> QED  BY <1>3, <1>4, <1>5 DEF Service!Pipeline

(* A review is called.                                                     *)
LEMMA StartPromise ==
    ASSUME HistoryInv, HistoryNext, NEW u \in Reviewers, NEW s \in Schemas,
           NEW e \in Events, ReviewStart(u, s, e)
    PROVE  Service!Begin(u, s, e)
<1>1. TypeOK
  BY DEF HistoryInv, Base
<1>2. UNCHANGED <<table, cache, restarts>>
  BY DEF ReviewStart
<1>3. recent' = recent
  BY <1>2, HistoryStays
<1>4. /\ at[u] = "idle" /\ at'[u] = "stamped" /\ schema'[u] = s
      /\ review'[u].event = e
      /\ \A o \in Reviewers : o # u => /\ at'[o] = at[o] /\ schema'[o] = schema[o]
                                       /\ review'[o] = review[o]
  BY <1>1, ReviewersAreThreads DEF ReviewStart, TypeOK
<1>5. CallNow(u)' = Service!CallOf(s, e, "called")
  BY <1>4 DEF CallNow, Service!CallOf
<1>6. CallsNow[u] = Service!NoCall
  BY <1>4 DEF CallsNow, CallNow, Service!NoCall
<1>7. CallsNow' = [CallsNow EXCEPT ![u] = CallNow(u)']
  <2>1. \A o \in Reviewers : o # u => CallNow(o)' = CallNow(o)
    BY <1>4 DEF CallNow
  <2> QED  BY <2>1, CallMoves
<1>8. cache[s][e] # None
  BY DEF ReviewStart
<1> QED  BY <1>2, <1>3, <1>5, <1>6, <1>7, <1>8 DEF Service!Begin

(* Its UPDATE: stored or not, answered or not.                             *)
LEMMA ExecutePromise ==
    ASSUME HistoryInv, HistoryNext, NEW u \in Reviewers, ReviewExecute(u)
    PROVE  schema[u] \in Schemas /\ review[u].event \in Events
           /\ Service!Update(u, schema[u], review[u].event)
<1> DEFINE s == schema[u]
           e == review[u].event
<1>1. TypeOK /\ RowsExist
  BY DEF HistoryInv, Base
<1>2. /\ s \in Schemas /\ e \in Events /\ review[u].stamp \in Times
      /\ table[s][e].ok \in BOOLEAN
  BY <1>1, ReviewedRow
<1>3. UNCHANGED <<cache, schema, restarts>>
  BY DEF ReviewExecute
<1>4. PICK stored \in BOOLEAN, answered \in BOOLEAN :
        /\ answered => stored
        /\ review' = [review EXCEPT ![u] = Outcome(@, stored, answered)]
        /\ IF stored
           THEN Commit(s, e, review[u].stamp, table[s][e].ok)
           ELSE UNCHANGED <<table, writes, latest, exempt>>
  BY DEF ReviewExecute
<1>5. at[u] = "locked" /\ at' = [at EXCEPT ![u] = "refresh"] /\ review[u] \in Review
  BY <1>1, ReviewersAreThreads DEF ReviewExecute, TypeOK
<1>6. /\ at'[u] = "refresh"
      /\ review'[u].success = answered /\ review'[u].event = e
      /\ \A o \in Reviewers : o # u => /\ at'[o] = at[o]
                                       /\ review'[o] = review[o]
  BY <1>1, <1>4, <1>5, ReviewersAreThreads DEF TypeOK, Outcome, Review
<1>7. CallsNow[u] = Service!CallOf(s, e, "called")
  BY <1>5 DEF CallsNow, CallNow, Service!CallOf
<1>8. CallNow(u)' = Service!CallOf(s, e, IF answered THEN "stored" ELSE "failed")
  BY <1>3, <1>6 DEF CallNow, Service!CallOf
<1>9. CallsNow' = [CallsNow EXCEPT ![u] = CallNow(u)']
  <2>1. \A o \in Reviewers : o # u => CallNow(o)' = CallNow(o)
    BY <1>3, <1>6 DEF CallNow
  <2> QED  BY <2>1, CallMoves
<1> HIDE DEF s, e
<1>10. CASE stored
  <2>1. Service!Write(s, e)
    BY <1>2, <1>3, <1>4, <1>10, CommitWrites
  <2> QED  BY <1>2, <1>3, <1>7, <1>8, <1>9, <2>1 DEF Service!Update, s, e
<1>11. CASE ~stored
  <2>1. table' = table /\ recent' = recent /\ ~answered
    BY <1>3, <1>4, <1>11, HistoryStays
  <2> QED  BY <1>2, <1>3, <1>7, <1>8, <1>9, <2>1 DEF Service!Update, s, e
<1> QED  BY <1>10, <1>11

(* The call ends, by an answer or an exception.                            *)
LEMMA CallEnds ==
    ASSUME HistoryInv, HistoryNext, NEW u \in Reviewers,
           UNCHANGED <<table, cache, restarts>>, at[u] # "idle", at'[u] = "idle",
           \A o \in Reviewers : o # u => /\ at'[o] = at[o] /\ schema'[o] = schema[o]
                                         /\ review'[o] = review[o]
    PROVE  Service!End(u)
<1>1. recent' = recent
  BY HistoryStays
<1>2. CallNow(u).state # "none"
  BY DEF CallNow
<1>3. CallsNow[u] # Service!NoCall
  BY <1>2 DEF CallsNow, Service!NoCall
<1>4. CallNow(u)' = Service!NoCall
  BY DEF CallNow, Service!NoCall
<1>5. CallsNow' = [CallsNow EXCEPT ![u] = CallNow(u)']
  <2>1. \A o \in Reviewers : o # u => CallNow(o)' = CallNow(o)
    BY DEF CallNow
  <2> QED  BY <2>1, CallMoves
<1> QED  BY <1>1, <1>3, <1>4, <1>5 DEF Service!End

LEMMA AbortPromise ==
    ASSUME HistoryInv, HistoryNext, NEW u \in Reviewers, ReviewAbort(u)
    PROVE  Service!End(u)
<1>1. TypeOK
  BY DEF HistoryInv, Base
<1>2. UNCHANGED <<table, cache, restarts>> /\ at[u] # "idle"
  BY DEF ReviewAbort, dbVars
<1>3. /\ at'[u] = "idle"
      /\ \A o \in Reviewers : o # u => /\ at'[o] = at[o] /\ schema'[o] = schema[o]
                                       /\ review'[o] = review[o]
  BY <1>1, ReviewersAreThreads DEF ReviewAbort, TypeOK
<1> QED  BY <1>2, <1>3, CallEnds

LEMMA ReturnPromise ==
    ASSUME HistoryInv, HistoryNext, NEW t \in Threads, UpdateFail(t) \/ UpdatePublish(t)
    PROVE  (\E u \in Reviewers : Service!End(u)) \/ UNCHANGED Service!serviceVars
<1>1. TypeOK /\ Return(t)
  BY DEF HistoryInv, Base, UpdateFail, UpdatePublish
<1>2. UNCHANGED <<table, cache, restarts>> /\ at[t] # "idle"
  BY DEF UpdateFail, UpdatePublish, dbVars
<1>3. /\ at'[t] = "idle"
      /\ \A o \in Reviewers : o # t => /\ at'[o] = at[o] /\ schema'[o] = schema[o]
                                       /\ review'[o] = review[o]
  BY <1>1, ReviewersAreThreads DEF Return, TypeOK
<1>4. CASE t \in Reviewers
  BY <1>2, <1>3, <1>4, CallEnds
<1>5. CASE t \notin Reviewers
  <2>1. \A u \in Reviewers : CallNow(u)' = CallNow(u)
    BY <1>3, <1>5 DEF CallNow
  <2> QED  BY <1>2, <2>1, HistoryStays, CallsStay DEF Service!serviceVars
<1> QED  BY <1>4, <1>5

(* A row that a refresh has found is shown.                                *)
LEMMA ApplyPromise ==
    ASSUME HistoryInv, HistoryNext, NEW t \in Threads, UpdateApply(t)
    PROVE  \E s \in Schemas, e \in Events : Service!Refresh(s, e)
<1>1. UNCHANGED <<table, at, schema, review, restarts>>
  BY DEF UpdateApply, dbVars
<1>2. recent' = recent
  BY <1>1, HistoryStays
<1>3. CallsNow' = CallsNow
  BY <1>1, CallsStay DEF CallNow
<1>4. PICK s \in Schemas, e \in Events :
        \E r \in recent[s][e] : cache' = [cache EXCEPT ![s][e] = r]
  BY ApplyShows
<1>5. Service!Refresh(s, e)
  BY <1>1, <1>2, <1>3, <1>4 DEF Service!Refresh
<1> QED  BY <1>5

LEMMA RestartPromise ==
    ASSUME HistoryInv, HistoryNext, Restart, TypeOK'
    PROVE  Service!Restart
<1>1. recent' = [s \in Schemas |-> [e \in Events |-> {table[s][e]} \ {None}]]
  BY RestartShows DEF RowNow
<1>2. \A u \in Reviewers : at'[u] = "idle"
  BY ReviewersAreThreads DEF Restart
<1>3. CallsNow' = [u \in Reviewers |-> Service!NoCall]
  BY <1>2 DEF CallsNow, CallNow, Service!NoCall
<1>4. cache' \in [Schemas -> [Events -> Row \union {None}]]
  BY DEF TypeOK
<1> QED  BY <1>1, <1>3, <1>4, RestartShows DEF Service!Restart

(* The other steps of the service are none of the promise's.               *)
LEMMA SilentPromise ==
    ASSUME HistoryInv, HistoryNext,
           \/ PollAgain
           \/ \E s \in Schemas : PollSchema(s)
           \/ \E u \in Reviewers : ReviewLock(u)
           \/ \E t \in Threads : UpdateBegin(t) \/ UpdateSelect(t) \/ UpdateSkip(t)
    PROVE  UNCHANGED Service!serviceVars
<1>1. TypeOK /\ PendingRows
  BY DEF HistoryInv, Base
<1>2. UNCHANGED <<table, cache, restarts, review>>
  BY DEF PollAgain, PollSchema, ReviewLock, UpdateBegin, UpdateSelect, UpdateSkip,
         dbVars
<1>3. \A u \in Reviewers : CallNow(u)' = CallNow(u)
  <2> SUFFICES ASSUME NEW u \in Reviewers PROVE CallNow(u)' = CallNow(u)
    OBVIOUS
  <2>1. CASE PollAgain
    BY <2>1 DEF PollAgain, callVars, CallNow
  <2>2. ASSUME NEW s \in Schemas, PollSchema(s) PROVE CallNow(u)' = CallNow(u)
    <3>1. at'[u] = at[u] /\ schema'[u] = schema[u] /\ review' = review
      BY <1>1, <2>2, ReviewersAreThreads DEF PollSchema, TypeOK
    <3> QED  BY <3>1 DEF CallNow
  <2>3. ASSUME NEW o \in Reviewers, ReviewLock(o) PROVE CallNow(u)' = CallNow(u)
    <3>1. /\ schema' = schema /\ review' = review
          /\ at'[u] = at[u] \/ (at[u] = "stamped" /\ at'[u] = "locked")
      BY <1>1, <2>3, ReviewersAreThreads DEF ReviewLock, TypeOK
    <3> QED  BY <3>1 DEF CallNow
  <2>4. ASSUME NEW t \in Threads, UpdateBegin(t) PROVE CallNow(u)' = CallNow(u)
    <3>1. /\ schema' = schema /\ review' = review
          /\ at'[u] = at[u] \/ (at[u] = "refresh" /\ at'[u] = "select")
      BY <1>1, <2>4, ReviewersAreThreads DEF UpdateBegin, TypeOK
    <3> QED  BY <3>1 DEF CallNow
  <2>5. ASSUME NEW t \in Threads, UpdateSelect(t) PROVE CallNow(u)' = CallNow(u)
    <3>1. /\ schema' = schema /\ review' = review
          /\ at'[u] = at[u] \/ (at[u] = "select" /\ at'[u] = "apply")
      BY <1>1, <2>5, ReviewersAreThreads DEF UpdateSelect, TypeOK
    <3> QED  BY <3>1 DEF CallNow
  <2>6. ASSUME NEW t \in Threads, UpdateSkip(t) PROVE CallNow(u)' = CallNow(u)
    BY <2>6 DEF UpdateSkip, CallNow
  <2> QED  BY <2>1, <2>2, <2>3, <2>4, <2>5, <2>6
<1> QED  BY <1>2, <1>3, CallsStay, HistoryStays DEF Service!serviceVars

LEMMA InitPromise == HistoryInit => Service!Init
<1> SUFFICES ASSUME HistoryInit PROVE Service!Init
  OBVIOUS
<1>1. Init /\ TypeOK
  BY InitType DEF HistoryInit
<1>2. recent = [s \in Schemas |-> [e \in Events |-> {table[s][e]} \ {None}]]
  BY DEF HistoryInit, RowNow
<1>3. PICK L \in Loads : cache = [s \in Schemas |-> LoadedEvents(table[s], L[s])]
  BY <1>1 DEF Init
<1>4. ASSUME NEW s \in Schemas, NEW e \in Events PROVE cache[s][e] \in {None, table[s][e]}
  <2>1. table[s] \in [Events -> Row \union {None}]
    BY <1>1 DEF TypeOK
  <2> QED  BY <1>3, <2>1, LoadedEventsType
<1>5. CallsNow = [u \in Reviewers |-> Service!NoCall]
  BY <1>1, ReviewersAreThreads DEF Init, NoCalls, CallsNow, CallNow, Service!NoCall
<1> QED  BY <1>1, <1>2, <1>4, <1>5 DEF TypeOK, Service!Init

LEMMA StepPromise ==
    HistoryInv /\ [HistoryNext]_<<vars, recent>> => [Service!Next]_(Service!serviceVars)
<1> SUFFICES ASSUME HistoryInv, [HistoryNext]_<<vars, recent>>
             PROVE  [Service!Next]_(Service!serviceVars)
  OBVIOUS
<1>1. CASE UNCHANGED <<vars, recent>>
  <2>1. UNCHANGED <<table, cache, recent>> /\ CallsNow' = CallsNow
    BY <1>1 DEF vars, CallsNow, CallNow
  <2> QED  BY <2>1 DEF Service!serviceVars
<1>2. CASE HistoryNext
  <2> USE <1>2
  <2>1. Next /\ TypeOK'
    BY NextBase DEF HistoryNext, HistoryInv, Base
  <2>2. ASSUME NEW s \in Schemas, NEW e \in Events, PipelineWrite(s, e)
        PROVE  Service!Next
    BY <2>2, PipelinePromise DEF Service!Next
  <2>3. ASSUME NEW u \in Reviewers, NEW s \in Schemas, NEW e \in Events,
               ReviewStart(u, s, e)
        PROVE  Service!Next
    BY <2>3, StartPromise DEF Service!Next
  <2>4. ASSUME NEW u \in Reviewers, ReviewExecute(u) PROVE Service!Next
    BY <2>4, ExecutePromise DEF Service!Next
  <2>5. ASSUME NEW u \in Reviewers, ReviewAbort(u) PROVE Service!Next
    BY <2>5, AbortPromise DEF Service!Next
  <2>6. ASSUME NEW t \in Threads, UpdateFail(t) \/ UpdatePublish(t)
        PROVE  [Service!Next]_(Service!serviceVars)
    BY <2>6, ReturnPromise DEF Service!Next
  <2>7. ASSUME NEW t \in Threads, UpdateApply(t) PROVE Service!Next
    BY <2>7, ApplyPromise DEF Service!Next
  <2>8. CASE Restart
    BY <2>1, <2>8, RestartPromise DEF Service!Next
  <2>9. CASE \/ PollAgain
             \/ \E s \in Schemas : PollSchema(s)
             \/ \E u \in Reviewers : ReviewLock(u)
             \/ \E t \in Threads : UpdateBegin(t) \/ UpdateSelect(t) \/ UpdateSkip(t)
    BY <2>9, SilentPromise
  <2> QED
    BY <2>1, <2>2, <2>3, <2>4, <2>5, <2>6, <2>7, <2>8, <2>9
    DEF Next, ReviewStep, UpdateStep
<1> QED  BY <1>1, <1>2

(* The event service does what ReviewService promises its callers: in the  *)
(* midst of polls, other reviews, the pipeline's commits and restarts, a   *)
(* review rewrites the row of its own event once, if it succeeds, or       *)
(* leaves it, and the event data show rows their events have really had.   *)
THEOREM KeepsPromisesHolds == HistorySpec => KeepsPromises
<1>1. HistorySpec => []HistoryInv
  BY InitHistory, NextHistory, PTL DEF HistorySpec
<1> QED
  BY <1>1, InitPromise, StepPromise, PTL DEF HistorySpec, KeepsPromises, Service!Spec
=============================================================================
