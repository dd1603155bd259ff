----------------------- MODULE CCTPostgresServiceProofs ------------------------
(***************************************************************************)
(* Theorems about CCTPostgresService for any schemas, events and request   *)
(* threads, and any bounds.                                                *)
(***************************************************************************)
EXTENDS CCTPostgresService, TLAPS

USE DEF Lowest, ReleaseMutex

(* The caches initialQuery builds hold rows of the tables they come from.  *)
LEMMA LoadedEventsType ==
    ASSUME NEW tbl \in [Events -> Row \union {None}], NEW L
    PROVE  /\ LoadedEvents(tbl, L) \in [Events -> Row \union {None}]
           /\ \A e \in Events :
                LoadedEvents(tbl, L)[e] # None => LoadedEvents(tbl, L)[e] = tbl[e]
  BY DEF LoadedEvents

(* A commit keeps the database's variables well typed.                     *)
LEMMA CommitType ==
    ASSUME TypeOK, NEW s \in Schemas, NEW e \in Events, NEW ts \in Times,
           NEW ok \in BOOLEAN, Commit(s, e, ts, ok)
    PROVE  /\ table' \in [Schemas -> [Events -> Row \union {None}]]
           /\ writes' \in Nat
           /\ latest' \in [Schemas -> Times]
           /\ exempt' \in [Schemas -> SUBSET Events]
  <1>1. [ver |-> writes + 1, ts |-> ts, ok |-> ok] \in Row
    BY DEF TypeOK, Row
  <1> QED
    BY <1>1 DEF TypeOK, Commit

(* Recording what became of its UPDATE keeps a review well typed.          *)
LEMMA OutcomeType ==
    ASSUME TypeOK, NEW r \in Review, NEW stored \in BOOLEAN, NEW answered \in BOOLEAN
    PROVE  /\ Outcome(r, stored, answered) \in Review
           /\ Outcome(r, stored, answered).event = r.event
  <1>1. (IF stored THEN writes + 1 ELSE 0) \in Nat
    BY DEF TypeOK
  <1> QED
    BY <1>1 DEF Outcome, Review

(* The end of updateQuery leaves every variable it resets well typed.      *)
LEMMA ReturnType ==
    ASSUME TypeOK, NEW t \in Threads, Return(t), mutex' = mutex,
           at[t] \in {"refresh", "select", "apply"}
    PROVE  /\ at' \in [Threads -> {"idle", "stamped", "locked", "refresh",
                                   "select", "apply"}]
           /\ schema' \in [Threads -> Schemas \union {None}]
           /\ \A o \in Threads : at'[o] # "idle" => schema'[o] \in Schemas
           /\ review' \in [Reviewers -> Review \union {None}]
           /\ \A u \in Reviewers : at'[u] # "idle" => review'[u] \in Review
           /\ \A u \in Reviewers : at'[u] = "locked" <=> mutex' = u
           /\ newest' \in [Threads -> Times \union {Lowest}]
           /\ rows' \in [Threads -> SUBSET [event : Events, row : Row]]
           /\ updated' \in [Threads -> BOOLEAN]
  BY ThreadsAssumption DEF TypeOK, Return, Threads

(* The row a review is about to update exists, and its flag is a truth     *)
(* value.                                                                  *)
LEMMA ReviewedRow ==
    ASSUME TypeOK, RowsExist, NEW u \in Reviewers, ReviewExecute(u)
    PROVE  /\ schema[u] \in Schemas
           /\ review[u].event \in Events /\ review[u].stamp \in Times
           /\ table[schema[u]][review[u].event].ok \in BOOLEAN
  <1>1. u \in Threads /\ schema[u] \in Schemas /\ review[u] \in Review
    BY DEF ReviewExecute, TypeOK, Threads
  <1>2. /\ review[u].event \in Events /\ review[u].stamp \in Times
        /\ table[schema[u]][review[u].event] # None
    BY <1>1 DEF Review, ReviewExecute, RowsExist
  <1>3. table[schema[u]][review[u].event] \in Row
    BY <1>1, <1>2 DEF TypeOK
  <1> QED
    BY <1>1, <1>2, <1>3 DEF Row

LEMMA InitType == Init => TypeOK
  <1> SUFFICES ASSUME Init PROVE TypeOK
    OBVIOUS
  <1>1. table \in [Schemas -> [Events -> Row \union {None}]]
    <2>1. InitialRow \subseteq Row
      BY TimesAssumption DEF InitialRow, Row
    <2> QED
      BY <2>1 DEF Init
  <1>2. PICK L \in Loads :
            /\ watermark \in Watermarks
            /\ cache = [s \in Schemas |-> LoadedEvents(table[s], L[s])]
            /\ exempt = [s \in Schemas |-> LeftOut(table[s], cache[s], watermark[s])]
    BY DEF Init
  <1>3. cache \in [Schemas -> [Events -> Row \union {None}]]
    BY <1>1, <1>2, LoadedEventsType
  <1>4. exempt \in [Schemas -> SUBSET Events]
    BY <1>2 DEF LeftOut, Present
  <1>5. 0 \in Nat /\ 1 \in Times
    BY TimesAssumption
  <1> QED
    BY <1>1, <1>2, <1>3, <1>4, <1>5, ThreadsAssumption
    DEF Init, NoCalls, TypeOK, Threads

LEMMA NextType == TypeOK /\ RowsExist /\ [Next]_vars => TypeOK'
  <1> SUFFICES ASSUME TypeOK, RowsExist, [Next]_vars PROVE TypeOK'
    OBVIOUS
  <1>1. ASSUME NEW s \in Schemas, NEW e \in Events, PipelineWrite(s, e)
        PROVE  TypeOK'
    <2>1. PICK ts \in Stamps, ok \in BOOLEAN : clock' = ts /\ Commit(s, e, ts, ok)
      BY <1>1 DEF PipelineWrite
    <2>2. ts \in Times
      BY DEF Stamps
    <2> QED
      BY <1>1, <2>1, <2>2, CommitType
      DEF TypeOK, PipelineWrite, callVars
  <1>2. CASE PollAgain
    BY <1>2 DEF TypeOK, PollAgain, dbVars, callVars
  <1>3. ASSUME NEW s \in Schemas, PollSchema(s) PROVE TypeOK'
    BY <1>3, ThreadsAssumption
    DEF TypeOK, PollSchema, dbVars, Threads
  <1>4. ASSUME NEW u \in Reviewers, NEW s \in Schemas, NEW e \in Events,
               ReviewStart(u, s, e)
        PROVE  TypeOK'
    <2>1. PICK ts \in Stamps : /\ clock' = ts
                               /\ review' = [review EXCEPT ![u] =
                                    [event |-> e, stamp |-> ts, wrote |-> 0,
                                     success |-> TRUE]]
      BY <1>4 DEF ReviewStart
    <2>2. ts \in Times
      BY DEF Stamps
    <2>3. [event |-> e, stamp |-> ts, wrote |-> 0, success |-> TRUE] \in Review
      BY <2>2 DEF Review
    <2> QED
      BY <1>4, <2>1, <2>2, <2>3, ThreadsAssumption
      DEF TypeOK, ReviewStart, Threads
  <1>5. ASSUME NEW u \in Reviewers, ReviewLock(u) PROVE TypeOK'
    BY <1>5, ThreadsAssumption
    DEF TypeOK, ReviewLock, dbVars, Threads
  <1>6. ASSUME NEW u \in Reviewers, ReviewAbort(u) PROVE TypeOK'
    BY <1>6, ThreadsAssumption
    DEF TypeOK, ReviewAbort, dbVars, Threads
  <1>7. ASSUME NEW u \in Reviewers, ReviewExecute(u) PROVE TypeOK'
    <2>1. u \in Threads /\ schema[u] \in Schemas /\ review[u] \in Review
      BY <1>7 DEF ReviewExecute, TypeOK, Threads
    <2>2. PICK stored \in BOOLEAN, answered \in BOOLEAN :
            /\ review' = [review EXCEPT ![u] = Outcome(@, stored, answered)]
            /\ IF stored
               THEN Commit(schema[u], review[u].event, review[u].stamp,
                           table[schema[u]][review[u].event].ok)
               ELSE UNCHANGED <<table, writes, latest, exempt>>
      BY <1>7 DEF ReviewExecute
    <2>3. Outcome(review[u], stored, answered) \in Review
      BY <2>1, OutcomeType
    <2>4. review' \in [Reviewers -> Review \union {None}] /\ review'[u] \in Review
            /\ \A o \in Reviewers : o # u => review'[o] = review[o]
      BY <2>2, <2>3 DEF TypeOK
    <2>5. /\ table' \in [Schemas -> [Events -> Row \union {None}]]
          /\ writes' \in Nat
          /\ latest' \in [Schemas -> Times]
          /\ exempt' \in [Schemas -> SUBSET Events]
      <3>1. /\ review[u].event \in Events /\ review[u].stamp \in Times
            /\ table[schema[u]][review[u].event].ok \in BOOLEAN
        BY <1>7, ReviewedRow
      <3>3. CASE stored
        BY <3>1, <3>3, <2>1, <2>2, CommitType
      <3>4. CASE ~stored
        BY <3>4, <2>2 DEF TypeOK
      <3> QED
        BY <3>3, <3>4
    <2> QED
      BY <1>7, <2>1, <2>4, <2>5, ThreadsAssumption
      DEF TypeOK, ReviewExecute, Threads
  <1>8. ASSUME NEW t \in Threads, UpdateBegin(t) PROVE TypeOK'
    <2>1. schema[t] \in Schemas
      BY <1>8 DEF UpdateBegin, TypeOK
    <2> QED
      BY <1>8, <2>1 DEF TypeOK, UpdateBegin, dbVars, Threads, Watermarks
  <1>9. ASSUME NEW t \in Threads, UpdateSelect(t) PROVE TypeOK'
    BY <1>9 DEF TypeOK, UpdateSelect, NewerRows, dbVars, Threads, Present
  <1>10. ASSUME NEW t \in Threads, UpdateFail(t) PROVE TypeOK'
    BY <1>10, ReturnType DEF TypeOK, UpdateFail, dbVars
  <1>11. ASSUME NEW t \in Threads, UpdateApply(t) PROVE TypeOK'
    BY <1>11 DEF TypeOK, UpdateApply, Store, dbVars, Row
  <1>12. ASSUME NEW t \in Threads, UpdateSkip(t) PROVE TypeOK'
    BY <1>12 DEF TypeOK, UpdateSkip, dbVars
  <1>13. ASSUME NEW t \in Threads, UpdatePublish(t) PROVE TypeOK'
    BY <1>13, ReturnType
    DEF TypeOK, UpdatePublish, NextWatermark, dbVars, Watermarks
  <1>14. CASE Restart
    <2>1. PICK L \in Loads :
            /\ watermark' \in Watermarks
            /\ cache' = [s \in Schemas |-> LoadedEvents(table[s], L[s])]
            /\ exempt' = [s \in Schemas |->
                            LeftOut(table[s], cache'[s], watermark'[s])]
      BY <1>14 DEF Restart
    <2>2. cache' \in [Schemas -> [Events -> Row \union {None}]]
      BY <2>1, LoadedEventsType DEF TypeOK
    <2>3. exempt' \in [Schemas -> SUBSET Events]
      BY <2>1 DEF LeftOut, Present
    <2> QED
      BY <1>14, <2>1, <2>2, <2>3, ThreadsAssumption
      DEF TypeOK, Restart, Threads
  <1>15. CASE UNCHANGED vars
    BY <1>15 DEF TypeOK, vars
  <1> QED
    BY <1>1, <1>2, <1>3, <1>4, <1>5, <1>6, <1>7, <1>8, <1>9, <1>10, <1>11,
       <1>12, <1>13, <1>14, <1>15
    DEF Next, ReviewStep, UpdateStep

(* Rows are never taken out of a table.                                    *)
LEMMA CommitRows ==
    ASSUME TypeOK, NEW s \in Schemas, NEW e \in Events, NEW ts \in Times,
           NEW ok \in BOOLEAN, Commit(s, e, ts, ok)
    PROVE  /\ table'[s][e] # None
           /\ \A r \in Schemas, x \in Events :
                table[r][x] # None => table'[r][x] # None
  <1>1. [ver |-> writes + 1, ts |-> ts, ok |-> ok] \in Row
    BY DEF TypeOK, Row
  <1> QED
    BY <1>1, NoneAssumption DEF TypeOK, Commit

(* What is asked of the tables below concerns events of known schemas.     *)
LEMMA KnownRows ==
    ASSUME TypeOK, PendingRows
    PROVE  /\ \A u \in Reviewers : at[u] # "idle" =>
                schema[u] \in Schemas /\ review[u].event \in Events
           /\ \A t \in Threads : \A x \in rows[t] :
                schema[t] \in Schemas /\ x.event \in Events
  <1>1. ASSUME NEW u \in Reviewers, at[u] # "idle"
        PROVE  schema[u] \in Schemas /\ review[u].event \in Events
    <2>1. schema[u] \in Schemas /\ review[u] \in Review
      BY <1>1 DEF TypeOK, Threads
    <2> QED
      BY <2>1 DEF Review
  <1>2. ASSUME NEW t \in Threads, NEW x \in rows[t]
        PROVE  schema[t] \in Schemas /\ x.event \in Events
    <2>1. at[t] = "apply"
      BY <1>2 DEF PendingRows
    <2> QED
      BY <1>2, <2>1 DEF TypeOK
  <1> QED
    BY <1>1, <1>2

(* A review changes the table, if at all, by a commit on its own row, and  *)
(* keeps its arguments.                                                    *)
LEMMA ReviewRows ==
    ASSUME TypeOK, RowsExist, NEW u \in Reviewers, ReviewExecute(u)
    PROVE  \A r \in Schemas, x \in Events :
                table[r][x] # None => table'[r][x] # None
  <1>1. u \in Threads /\ schema[u] \in Schemas /\ review[u] \in Review
    BY DEF ReviewExecute, TypeOK, Threads
  <1>2. CASE table' = table
    BY <1>2
  <1>3. CASE Commit(schema[u], review[u].event, review[u].stamp,
                    table[schema[u]][review[u].event].ok)
    BY <1>1, <1>3, ReviewedRow, CommitRows
  <1> QED
    BY <1>2, <1>3 DEF ReviewExecute

LEMMA ReviewArguments ==
    ASSUME TypeOK, NEW u \in Reviewers, ReviewExecute(u), NEW o \in Reviewers
    PROVE  review'[o].event = review[o].event
  <1>1. review[u] \in Review
    BY DEF ReviewExecute, TypeOK
  <1>2. PICK stored \in BOOLEAN, answered \in BOOLEAN :
            review' = [review EXCEPT ![u] = Outcome(@, stored, answered)]
    BY DEF ReviewExecute
  <1>3. CASE o = u
    BY <1>1, <1>2, <1>3, OutcomeType DEF TypeOK
  <1>4. CASE o # u
    BY <1>2, <1>4 DEF TypeOK
  <1> QED
    BY <1>3, <1>4

Base == TypeOK /\ RowsExist /\ PendingRows

LEMMA InitBase == Init => Base
  <1> SUFFICES ASSUME Init PROVE Base
    OBVIOUS
  <1>1. TypeOK
    BY InitType
  <1>2. PICK L \in Loads :
            cache = [s \in Schemas |-> LoadedEvents(table[s], L[s])]
    BY DEF Init
  <1>3. ASSUME NEW s \in Schemas, NEW e \in Events, cache[s][e] # None
        PROVE  table[s][e] # None
    <2>1. table[s] \in [Events -> Row \union {None}]
      BY <1>1 DEF TypeOK
    <2>2. cache[s] = LoadedEvents(table[s], L[s])
      BY <1>2
    <2> QED
      BY <1>3, <2>1, <2>2, LoadedEventsType
  <1> QED
    BY <1>1, <1>3, ThreadsAssumption
    DEF Base, RowsExist, PendingRows, Init, NoCalls, Threads

LEMMA NextBase == Base /\ [Next]_vars => Base'
  <1> SUFFICES ASSUME Base, [Next]_vars PROVE RowsExist' /\ PendingRows'
    BY NextType DEF Base
  <1> USE DEF Base
  <1>1. ASSUME NEW s \in Schemas, NEW e \in Events, PipelineWrite(s, e)
        PROVE  RowsExist' /\ PendingRows'
    <2>1. PICK ts \in Stamps, ok \in BOOLEAN : Commit(s, e, ts, ok)
      BY <1>1 DEF PipelineWrite
    <2>2. \A r \in Schemas, x \in Events :
            table[r][x] # None => table'[r][x] # None
      BY <2>1, CommitRows DEF Stamps
    <2> QED
      BY <1>1, <2>2, KnownRows DEF PipelineWrite, RowsExist, PendingRows, callVars
  <1>2. CASE PollAgain
    BY <1>2 DEF PollAgain, RowsExist, PendingRows, dbVars, callVars
  <1>3. ASSUME NEW s \in Schemas, PollSchema(s) PROVE RowsExist' /\ PendingRows'
    BY <1>3, ThreadsAssumption
    DEF PollSchema, TypeOK, RowsExist, PendingRows, dbVars, Threads
  <1>4. ASSUME NEW u \in Reviewers, NEW s \in Schemas, NEW e \in Events,
               ReviewStart(u, s, e)
        PROVE  RowsExist' /\ PendingRows'
    <2>1. u \in Threads
      BY DEF Threads
    <2>2. PendingRows'
      BY <1>4, <2>1 DEF ReviewStart, TypeOK, PendingRows
    <2>3. rows[u] = {}
      BY <1>4, <2>1 DEF ReviewStart, PendingRows
    <2>4. \A o \in Reviewers : at'[o] # "idle" =>
            \/ o = u /\ schema'[o] = s /\ review'[o].event = e
            \/ at[o] # "idle" /\ schema'[o] = schema[o] /\ review'[o] = review[o]
      BY <1>4, <2>1 DEF ReviewStart, TypeOK, Threads
    <2>5. \A t \in Threads : t # u => schema'[t] = schema[t]
      BY <1>4 DEF ReviewStart, TypeOK
    <2> QED
      BY <1>4, <2>2, <2>3, <2>4, <2>5 DEF ReviewStart, RowsExist
  <1>5. ASSUME NEW u \in Reviewers, ReviewLock(u) PROVE RowsExist' /\ PendingRows'
    BY <1>5 DEF ReviewLock, TypeOK, RowsExist, PendingRows, dbVars, Threads
  <1>6. ASSUME NEW u \in Reviewers, ReviewAbort(u) PROVE RowsExist' /\ PendingRows'
    BY <1>6 DEF ReviewAbort, TypeOK, RowsExist, PendingRows, dbVars, Threads
  <1>7. ASSUME NEW u \in Reviewers, ReviewExecute(u)
        PROVE  RowsExist' /\ PendingRows'
    <2>1. \A r \in Schemas, x \in Events :
            table[r][x] # None => table'[r][x] # None
      BY <1>7, ReviewRows
    <2>2. /\ \A o \in Reviewers : at'[o] # "idle" => at[o] # "idle"
          /\ \A o \in Reviewers : at'[o] # "idle" => review'[o].event = review[o].event
      BY <1>7, ReviewArguments DEF ReviewExecute, TypeOK, Threads
    <2>3. PendingRows'
      BY <1>7 DEF ReviewExecute, TypeOK, PendingRows, Threads
    <2> QED
      BY <1>7, <2>1, <2>2, <2>3, KnownRows DEF ReviewExecute, RowsExist
  <1>8. ASSUME NEW t \in Threads, UpdateBegin(t) PROVE RowsExist' /\ PendingRows'
    BY <1>8 DEF UpdateBegin, TypeOK, RowsExist, PendingRows, dbVars, Threads
  <1>9. ASSUME NEW t \in Threads, UpdateSelect(t) PROVE RowsExist' /\ PendingRows'
    BY <1>9 DEF UpdateSelect, NewerRows, TypeOK, RowsExist, PendingRows, Present, dbVars,
                Threads
  <1>10. ASSUME NEW t \in Threads, UpdateFail(t) PROVE RowsExist' /\ PendingRows'
    BY <1>10 DEF UpdateFail, Return, TypeOK, RowsExist, PendingRows, dbVars,
                 Threads
  <1>11. ASSUME NEW t \in Threads, UpdateApply(t) PROVE RowsExist' /\ PendingRows'
    BY <1>11 DEF UpdateApply, Store, TypeOK, RowsExist, PendingRows, dbVars
  <1>12. ASSUME NEW t \in Threads, UpdateSkip(t) PROVE RowsExist' /\ PendingRows'
    BY <1>12 DEF UpdateSkip, TypeOK, RowsExist, PendingRows, dbVars
  <1>13. ASSUME NEW t \in Threads, UpdatePublish(t)
         PROVE  RowsExist' /\ PendingRows'
    BY <1>13 DEF UpdatePublish, Return, TypeOK, RowsExist, PendingRows, dbVars,
                 Threads
  <1>14. CASE Restart
    <2>1. PICK L \in Loads :
            cache' = [s \in Schemas |-> LoadedEvents(table[s], L[s])]
      BY <1>14 DEF Restart
    <2>2. ASSUME NEW s \in Schemas, NEW e \in Events, cache'[s][e] # None
          PROVE  table[s][e] # None
      <3>1. table[s] \in [Events -> Row \union {None}]
        BY DEF TypeOK
      <3>2. cache'[s] = LoadedEvents(table[s], L[s])
        BY <2>1
      <3> QED
        BY <2>2, <3>1, <3>2, LoadedEventsType
    <2> QED
      BY <1>14, <2>2, ThreadsAssumption DEF Restart, RowsExist, PendingRows, Threads
  <1>15. CASE UNCHANGED vars
    BY <1>15 DEF RowsExist, PendingRows, vars
  <1> QED
    BY <1>1, <1>2, <1>3, <1>4, <1>5, <1>6, <1>7, <1>8, <1>9, <1>10, <1>11,
       <1>12, <1>13, <1>14, <1>15
    DEF Next, ReviewStep, UpdateStep

(* Every variable keeps its type, a running review its arguments, and the  *)
(* mutex is held exactly by the review that executes its UPDATE.           *)
THEOREM TypeCorrect == Spec => []TypeOK
  <1>1. Spec => []Base
    BY InitBase, NextBase, PTL DEF Spec
  <1>2. Base => TypeOK
    BY DEF Base
  <1> QED
    BY <1>1, <1>2, PTL

-----------------------------------------------------------------------------
(***************************************************************************)
(* CatchUp.                                                                *)
(***************************************************************************)
LEMMA Horizons == \A w \in Times \union {Lowest} : w \in Int
  BY TimesAssumption

LEMMA Numbers ==
    ASSUME TypeOK
    PROVE  /\ \A s \in Schemas : watermark[s] \in Int /\ latest[s] \in Nat
           /\ \A s \in Schemas, e \in Events : table[s][e] # None =>
                table[s][e] \in Row /\ table[s][e].ts \in Nat
           /\ \A t \in Threads : newest[t] \in Int
           /\ \A t \in Threads : \A x \in rows[t] :
                x.event \in Events /\ x.row \in Row /\ x.row.ts \in Nat
                /\ x.row.ok \in BOOLEAN
  <1>1. \A r \in Row : r.ts \in Nat /\ r.ok \in BOOLEAN
    BY TimesAssumption DEF Row
  <1>2. \A s \in Schemas : watermark[s] \in Int /\ latest[s] \in Nat
    <2>1. /\ watermark \in [Schemas -> Times \union {Lowest}]
          /\ latest \in [Schemas -> Times]
      BY DEF TypeOK, Watermarks
    <2> QED
      BY <2>1, Horizons, TimesAssumption
  <1>3. \A s \in Schemas, e \in Events : table[s][e] # None => table[s][e] \in Row
    BY DEF TypeOK
  <1>4. \A t \in Threads : newest[t] \in Int
    <2>1. newest \in [Threads -> Times \union {Lowest}]
      BY DEF TypeOK
    <2> QED
      BY <2>1, Horizons
  <1>5. \A t \in Threads : \A x \in rows[t] : x.event \in Events /\ x.row \in Row
    BY DEF TypeOK
  <1> QED
    BY <1>1, <1>2, <1>3, <1>4, <1>5

(* What a commit does to each row, and to the newest last_update.          *)
LEMMA CommitEffect ==
    ASSUME TypeOK, NEW s \in Schemas, NEW e \in Events, NEW ts \in Times,
           NEW ok \in BOOLEAN, Commit(s, e, ts, ok)
    PROVE  /\ table'[s][e] # None /\ table'[s][e].ts = ts
           /\ \A r \in Schemas, x \in Events :
                <<r, x>> # <<s, e>> => /\ table'[r][x] = table[r][x]
                                       /\ x \in exempt'[r] <=> x \in exempt[r]
           /\ \A r \in Schemas : r # s => latest'[r] = latest[r]
           /\ latest'[s] \in Nat /\ latest[s] <= latest'[s] /\ ts <= latest'[s]
           /\ e \notin exempt'[s] => ts > latest[s]
  <1>1. /\ [ver |-> writes + 1, ts |-> ts, ok |-> ok] \in Row
        /\ [ver |-> writes + 1, ts |-> ts, ok |-> ok].ts = ts
    BY DEF TypeOK, Row
  <1>2. table'[s][e] = [ver |-> writes + 1, ts |-> ts, ok |-> ok]
    BY DEF TypeOK, Commit
  <1>3. \A r \in Schemas, x \in Events :
            <<r, x>> # <<s, e>> => table'[r][x] = table[r][x]
    BY DEF TypeOK, Commit
  <1>4. \A r \in Schemas, x \in Events :
            <<r, x>> # <<s, e>> => (x \in exempt'[r] <=> x \in exempt[r])
    BY DEF TypeOK, Commit
  <1>5. latest[s] \in Nat /\ ts \in Nat
    BY TimesAssumption DEF TypeOK
  <1>6. /\ \A r \in Schemas : r # s => latest'[r] = latest[r]
        /\ latest'[s] = IF ts > latest[s] THEN ts ELSE latest[s]
    BY DEF TypeOK, Commit
  <1>7. e \notin exempt'[s] => ts > latest[s]
    BY DEF TypeOK, Commit
  <1> QED
    BY <1>1, <1>2, <1>3, <1>4, <1>5, <1>6, <1>7, NoneAssumption

(* A watermark is the last_update of some loaded row, or Lowest.           *)
LEMMA NewestLoaded ==
    ASSUME TypeOK, NEW s \in Schemas, NEW w, NEW L,
           IsNewest(w, LoadedEvents(table[s], L))
    PROVE  w = Lowest \/ \E e \in Events : table[s][e] # None /\ table[s][e].ts = w
  <1>1. table[s] \in [Events -> Row \union {None}]
    BY DEF TypeOK
  <1>2. \A e \in Events : LoadedEvents(table[s], L)[e] # None =>
            LoadedEvents(table[s], L)[e] = table[s][e]
    BY <1>1, LoadedEventsType
  <1> QED
    BY <1>2 DEF IsNewest

LEMMA InitLatest == Init => NothingBeyondLatest
  <1> SUFFICES ASSUME Init PROVE NothingBeyondLatest
    OBVIOUS
  <1>1. TypeOK
    BY InitType
  <1>2. \A s \in Schemas, e \in Events :
            table[s][e] # None => table[s][e].ts \in {0, 1}
    BY DEF Init, InitialRow
  <1>3. \A s \in Schemas : latest[s] = 1
    BY DEF Init
  <1>4. PICK L \in Loads : InitialQuery(table, L, watermark)
    BY DEF Init
  <1>5. ASSUME NEW s \in Schemas PROVE watermark[s] <= 1
    <2>1. IsNewest(watermark[s], LoadedEvents(table[s], L[s]))
      BY <1>4 DEF InitialQuery
    <2>2. \/ watermark[s] = Lowest
          \/ \E e \in Events : table[s][e] # None /\ table[s][e].ts = watermark[s]
      BY <1>1, <2>1, NewestLoaded
    <2> QED
      BY <1>2, <2>2
  <1>6. \A s \in Schemas, t \in Threads : ~Refreshing(t, s)
    BY DEF Init, NoCalls, Refreshing
  <1>7. \A s \in Schemas, e \in Events : table[s][e] # None => table[s][e].ts <= 1
    BY <1>2
  <1> QED
    BY <1>3, <1>5, <1>6, <1>7 DEF NothingBeyondLatest

(* Changes that leave the database and the watermarks alone, and start no  *)
(* refresh, keep NothingBeyondLatest.                                      *)
LEMMA LatestKept ==
    ASSUME NothingBeyondLatest, UNCHANGED <<table, latest, watermark>>,
           \A s \in Schemas, t \in Threads : Refreshing(t, s)' =>
                Refreshing(t, s) /\ newest'[t] = newest[t] /\ rows'[t] \subseteq rows[t]
    PROVE  NothingBeyondLatest'
  BY DEF NothingBeyondLatest

(* A commit keeps it as well.                                              *)
LEMMA LatestCommitted ==
    ASSUME Base, NothingBeyondLatest, NEW s \in Schemas, NEW e \in Events,
           NEW ts \in Times, NEW ok \in BOOLEAN, Commit(s, e, ts, ok),
           UNCHANGED <<watermark, newest, rows>>,
           \A r \in Schemas, t \in Threads : Refreshing(t, r)' => Refreshing(t, r)
    PROVE  NothingBeyondLatest'
  <1>1. TypeOK /\ (latest'[s] \in Nat)
    BY CommitEffect DEF Base
  <1>2. \A r \in Schemas : latest'[r] \in Nat /\ latest[r] <= latest'[r]
    BY <1>1, CommitEffect, Numbers
  <1>3. ASSUME NEW r \in Schemas, NEW x \in Events, table'[r][x] # None
        PROVE  table'[r][x].ts <= latest'[r]
    <2>1. CASE <<r, x>> = <<s, e>>
      BY <1>1, <2>1, CommitEffect
    <2>2. CASE <<r, x>> # <<s, e>>
      <3>1. table'[r][x] = table[r][x]
        BY <1>1, <2>2, CommitEffect
      <3>2. table[r][x].ts \in Nat /\ latest[r] \in Nat
        BY <1>1, <1>3, <3>1, Numbers
      <3>3. table[r][x].ts <= latest[r]
        BY <1>3, <3>1 DEF NothingBeyondLatest
      <3> QED
        BY <1>2, <3>1, <3>2, <3>3
    <2> QED
      BY <2>1, <2>2
  <1>4. ASSUME NEW r \in Schemas PROVE watermark'[r] <= latest'[r]
    BY <1>1, <1>2, Numbers DEF NothingBeyondLatest
  <1>5. ASSUME NEW r \in Schemas, NEW t \in Threads, Refreshing(t, r)'
        PROVE  newest'[t] <= latest'[r] /\ \A x \in rows'[t] : x.row.ts <= latest'[r]
    <2>1. newest[t] <= latest[r] /\ \A x \in rows[t] : x.row.ts <= latest[r]
      BY <1>5 DEF NothingBeyondLatest
    <2>2. newest[t] \in Int /\ latest[r] \in Nat /\ \A x \in rows[t] : x.row.ts \in Nat
      BY <1>1, Numbers
    <2> QED
      BY <1>2, <2>1, <2>2
  <1> QED
    BY <1>3, <1>4, <1>5 DEF NothingBeyondLatest

(* A step is calm when it changes neither the database nor what a refresh  *)
(* works on; a refresh may end, if it has no row left to apply.            *)
Calm ==
    /\ UNCHANGED <<table, cache, watermark, latest, exempt, overlapped>>
    /\ \A s \in Schemas, t \in Threads :
        /\ Refreshing(t, s)' => /\ Refreshing(t, s)
                                /\ newest'[t] = newest[t] /\ rows'[t] = rows[t]
        /\ Refreshing(t, s) /\ rows[t] # {} =>
                Refreshing(t, s)' /\ rows'[t] = rows[t]

LEMMA CalmKeeps ==
    ASSUME NothingBeyondLatest, OneRefresh, RowsAccounted, Calm
    PROVE  NothingBeyondLatest' /\ OneRefresh' /\ RowsAccounted'
  <1>1. NothingBeyondLatest'
    BY LatestKept DEF Calm
  <1>2. OneRefresh'
    BY DEF OneRefresh, Calm
  <1>3. ASSUME NEW s \in Schemas, ~overlapped'[s], NEW e \in Events, Obliged(s, e)'
        PROVE  Accounted(s, e)'
    <2>1. Accounted(s, e)
      BY <1>3 DEF RowsAccounted, Obliged, Calm
    <2>2. CASE Ahead(s, e)
      BY <2>2 DEF Ahead, ToBeFetched, Accounted, Calm
    <2>3. CASE Settled(s, e)
      BY <2>3 DEF Settled, Shown, Accounted, Calm
    <2>4. CASE Pending(s, e)
      BY <2>4 DEF Pending, Accounted, Calm
    <2> QED
      BY <2>1, <2>2, <2>3, <2>4 DEF Accounted
  <1> QED
    BY <1>1, <1>2, <1>3 DEF RowsAccounted

LEMMA CalmSteps ==
    ASSUME Base,
           \/ PollAgain \/ \E s \in Schemas : PollSchema(s)
           \/ \E u \in Reviewers, s \in Schemas, e \in Events : ReviewStart(u, s, e)
           \/ \E u \in Reviewers : ReviewLock(u) \/ ReviewAbort(u)
           \/ \E t \in Threads : UpdateFail(t)
           \/ UNCHANGED vars
    PROVE  Calm
  <1> USE DEF Base, Refreshing
  <1>1. CASE PollAgain
    BY <1>1 DEF PollAgain, Calm, dbVars, callVars
  <1>2. ASSUME NEW s \in Schemas, PollSchema(s) PROVE Calm
    BY <1>2 DEF PollSchema, Calm, TypeOK, dbVars, Threads
  <1>3. ASSUME NEW u \in Reviewers, NEW s \in Schemas, NEW e \in Events,
               ReviewStart(u, s, e)
        PROVE  Calm
    BY <1>3 DEF ReviewStart, Calm, TypeOK, Threads
  <1>4. ASSUME NEW u \in Reviewers, ReviewLock(u) PROVE Calm
    BY <1>4 DEF ReviewLock, Calm, TypeOK, dbVars, Threads
  <1>5. ASSUME NEW u \in Reviewers, ReviewAbort(u) PROVE Calm
    BY <1>5 DEF ReviewAbort, Calm, TypeOK, dbVars, Threads
  <1>6. ASSUME NEW t \in Threads, UpdateFail(t) PROVE Calm
    BY <1>6 DEF UpdateFail, Return, PendingRows, Calm, TypeOK, dbVars
  <1>7. CASE UNCHANGED vars
    BY <1>7 DEF Calm, vars
  <1> QED
    BY <1>1, <1>2, <1>3, <1>4, <1>5, <1>6, <1>7

(* A commit that finds no refresh changed: a row stamped after all others  *)
(* is ahead of every watermark, the others stay as they were.              *)
LEMMA CommitKeeps ==
    ASSUME Base, NothingBeyondLatest, OneRefresh, RowsAccounted,
           NEW s \in Schemas, NEW e \in Events, NEW ts \in Times,
           NEW ok \in BOOLEAN, Commit(s, e, ts, ok),
           UNCHANGED <<cache, watermark, newest, rows, overlapped>>,
           \A r \in Schemas, t \in Threads : Refreshing(t, r)' <=> Refreshing(t, r)
    PROVE  NothingBeyondLatest' /\ OneRefresh' /\ RowsAccounted'
  <1>1. NothingBeyondLatest'
    BY LatestCommitted
  <1>2. OneRefresh'
    BY DEF OneRefresh
  <1>3. ASSUME NEW r \in Schemas, ~overlapped'[r], NEW x \in Events, Obliged(r, x)'
        PROVE  Accounted(r, x)'
    <2>1. CASE <<r, x>> = <<s, e>>
      <3>1. /\ table'[s][e].ts = ts /\ ts > latest[s]
            /\ ts \in Nat /\ latest[s] \in Nat
        <4>1. e \notin exempt'[s]
          BY <1>3, <2>1 DEF Obliged
        <4>2. table'[s][e].ts = ts /\ ts > latest[s]
          BY <4>1, CommitEffect DEF Base
        <4>3. ts \in Nat /\ latest[s] \in Nat
          BY Numbers, TimesAssumption DEF Base
        <4> QED
          BY <4>2, <4>3
      <3>2. watermark[s] < ts
        BY <3>1, Numbers DEF Base, NothingBeyondLatest
      <3>3. ASSUME NEW t \in Threads, Refreshing(t, s)
            PROVE  newest[t] < ts /\ \A y \in rows[t] : y.row.ts < ts
        <4>1. newest[t] <= latest[s] /\ \A y \in rows[t] : y.row.ts <= latest[s]
          BY <3>3 DEF NothingBeyondLatest
        <4>2. newest[t] \in Int /\ \A y \in rows[t] : y.row.ts \in Nat
          BY Numbers DEF Base
        <4> QED
          BY <3>1, <4>1, <4>2
      <3> QED
        BY <2>1, <3>1, <3>2, <3>3 DEF Accounted, Ahead, ToBeFetched
    <2>2. CASE <<r, x>> # <<s, e>>
      <3>1. table'[r][x] = table[r][x] /\ (x \in exempt'[r] <=> x \in exempt[r])
        BY <2>2, CommitEffect DEF Base
      <3>2. Accounted(r, x)
        BY <1>3, <3>1 DEF RowsAccounted, Obliged
      <3>3. CASE Ahead(r, x)
        BY <3>1, <3>3 DEF Ahead, ToBeFetched, Accounted
      <3>4. CASE Settled(r, x)
        BY <3>1, <3>4 DEF Settled, Shown, Accounted
      <3>5. CASE Pending(r, x)
        BY <3>1, <3>5 DEF Pending, Accounted
      <3> QED
        BY <3>2, <3>3, <3>4, <3>5 DEF Accounted
    <2> QED
      BY <2>1, <2>2
  <1> QED
    BY <1>1, <1>2, <1>3 DEF RowsAccounted

LEMMA CommitSteps ==
    ASSUME Base, NothingBeyondLatest, OneRefresh, RowsAccounted,
           \/ \E s \in Schemas, e \in Events : PipelineWrite(s, e)
           \/ \E u \in Reviewers : ReviewExecute(u)
    PROVE  NothingBeyondLatest' /\ OneRefresh' /\ RowsAccounted'
  <1>1. ASSUME NEW s \in Schemas, NEW e \in Events, PipelineWrite(s, e)
        PROVE  NothingBeyondLatest' /\ OneRefresh' /\ RowsAccounted'
    <2>1. PICK ts \in Stamps, ok \in BOOLEAN : Commit(s, e, ts, ok)
      BY <1>1 DEF PipelineWrite
    <2>2. ts \in Times
      BY DEF Stamps
    <2> QED
      BY <1>1, <2>1, <2>2, CommitKeeps
      DEF PipelineWrite, callVars, Refreshing
  <1>2. ASSUME NEW u \in Reviewers, ReviewExecute(u)
        PROVE  NothingBeyondLatest' /\ OneRefresh' /\ RowsAccounted'
    <2>1. /\ \A r \in Schemas, t \in Threads : Refreshing(t, r)' <=> Refreshing(t, r)
          /\ UNCHANGED <<cache, watermark, newest, rows, overlapped>>
      BY <1>2 DEF ReviewExecute, Refreshing, Base, TypeOK, Threads
    <2>2. CASE Commit(schema[u], review[u].event, review[u].stamp,
                      table[schema[u]][review[u].event].ok)
      <3>1. PICK s \in Schemas, e \in Events, ts \in Times, ok \in BOOLEAN :
                Commit(s, e, ts, ok)
        BY <1>2, <2>2, ReviewedRow, Zenon DEF Base
      <3> QED
        BY <2>1, <3>1, CommitKeeps
    <2>3. CASE UNCHANGED <<table, writes, latest, exempt>>
      <3>1. Calm
        BY <2>1, <2>3 DEF Calm
      <3> QED
        BY <3>1, CalmKeeps
    <2> QED
      BY <1>2, <2>2, <2>3 DEF ReviewExecute
  <1> QED
    BY <1>1, <1>2

-----------------------------------------------------------------------------
(* updateQuery reads the watermark.                                        *)
LEMMA BeginKeeps ==
    ASSUME Base, NothingBeyondLatest, OneRefresh, RowsAccounted,
           NEW t \in Threads, UpdateBegin(t)
    PROVE  NothingBeyondLatest' /\ OneRefresh' /\ RowsAccounted'
  <1> USE DEF Base
  <1>1. schema[t] \in Schemas /\ rows[t] = {}
    BY DEF UpdateBegin, TypeOK, PendingRows
  <1>2. /\ UNCHANGED <<table, cache, watermark, latest, exempt, rows>>
        /\ newest'[t] = watermark[schema[t]]
        /\ \A o \in Threads : o # t => newest'[o] = newest[o]
    BY DEF UpdateBegin, TypeOK, dbVars
  <1>3. \A o \in Threads, s \in Schemas : Refreshing(o, s)' <=>
            Refreshing(o, s) \/ (o = t /\ s = schema[t])
    BY DEF UpdateBegin, Refreshing, TypeOK
  <1>4. \A s \in Schemas : ~overlapped'[s] =>
            /\ ~overlapped[s]
            /\ s = schema[t] => \A o \in Threads : ~Refreshing(o, s)
    BY <1>1 DEF UpdateBegin, TypeOK
  <1>5. \A s \in Schemas : ~Refreshing(t, s)
    BY DEF UpdateBegin, Refreshing
  <1>6. NothingBeyondLatest'
    <2>1. ASSUME NEW s \in Schemas, NEW o \in Threads, Refreshing(o, s)'
          PROVE  /\ newest'[o] <= latest[s]
                 /\ \A x \in rows'[o] : x.row.ts <= latest[s]
      <3>1. CASE Refreshing(o, s)
        BY <1>2, <1>5, <3>1 DEF NothingBeyondLatest
      <3>2. CASE o = t /\ s = schema[t]
        BY <1>1, <1>2, <3>2 DEF NothingBeyondLatest
      <3> QED
        BY <1>3, <2>1, <3>1, <3>2
    <2> QED
      BY <1>2, <2>1 DEF NothingBeyondLatest
  <1>7. OneRefresh'
    BY <1>3, <1>4 DEF OneRefresh
  <1>8. ASSUME NEW s \in Schemas, ~overlapped'[s], NEW e \in Events, Obliged(s, e)'
        PROVE  Accounted(s, e)'
    <2>1. Accounted(s, e)
      BY <1>2, <1>4, <1>8 DEF RowsAccounted, Obliged
    <2>2. CASE Ahead(s, e)
      <3>1. ASSUME NEW o \in Threads, Refreshing(o, s)'
            PROVE  newest'[o] < table[s][e].ts
        <4>1. CASE o = t
          BY <1>2, <1>3, <1>5, <2>2, <3>1, <4>1 DEF Ahead, ToBeFetched
        <4>2. CASE o # t
          BY <1>2, <1>3, <2>2, <3>1, <4>2 DEF Ahead
        <4> QED
          BY <4>1, <4>2
      <3> QED
        BY <1>1, <1>2, <1>3, <2>2, <3>1 DEF Ahead, ToBeFetched, Accounted
    <2>3. CASE Settled(s, e)
      BY <1>1, <1>2, <1>3, <2>3 DEF Settled, Shown, Accounted
    <2>4. CASE Pending(s, e)
      BY <1>2, <1>3, <2>4 DEF Pending, Accounted
    <2> QED
      BY <2>1, <2>2, <2>3, <2>4 DEF Accounted
  <1> QED
    BY <1>6, <1>7, <1>8 DEF RowsAccounted

(* The rows above the watermark are all fetched.                           *)
LEMMA SelectKeeps ==
    ASSUME Base, NothingBeyondLatest, OneRefresh, RowsAccounted,
           NEW t \in Threads, UpdateSelect(t)
    PROVE  NothingBeyondLatest' /\ OneRefresh' /\ RowsAccounted'
  <1> USE DEF Base
  <1> DEFINE S == schema[t]
  <1>1. S \in Schemas /\ rows[t] = {} /\ Refreshing(t, S)
    BY DEF UpdateSelect, NewerRows, TypeOK, PendingRows, Refreshing
  <1>2. UNCHANGED <<table, cache, watermark, latest, exempt, newest, overlapped>>
    BY DEF UpdateSelect, NewerRows, dbVars
  <1>3. \A o \in Threads, s \in Schemas : Refreshing(o, s)' <=> Refreshing(o, s)
    BY DEF UpdateSelect, Refreshing, TypeOK
  <1>4. \A o \in Threads : o # t => rows'[o] = rows[o]
    BY DEF UpdateSelect, NewerRows, TypeOK
  <1>5. rows'[t] = {[event |-> e, row |-> table[S][e]] : e \in
                      {x \in Present(table[S]) : table[S][x].ts > newest[t]}}
    BY DEF UpdateSelect, NewerRows, TypeOK
  <1>6. \A x \in rows'[t] : /\ x.event \in Events /\ x.row = table[S][x.event]
                            /\ table[S][x.event] # None
    BY <1>5 DEF Present
  <1>7. \A e \in Events : table[S][e] # None /\ table[S][e].ts > newest[t] =>
            \E x \in rows'[t] : x.event = e /\ x.row = table[S][e]
    <2> TAKE e \in Events
    <2> HAVE table[S][e] # None /\ table[S][e].ts > newest[t]
    <2>1. [event |-> e, row |-> table[S][e]] \in rows'[t]
      BY <1>5 DEF Present
    <2> QED
      BY <2>1
  <1> HIDE DEF S
  <1>8. \A s \in Schemas : Refreshing(t, s) => s = S
    BY DEF Refreshing, S
  <1>9. NothingBeyondLatest'
    BY <1>1, <1>2, <1>3, <1>4, <1>6, <1>8 DEF NothingBeyondLatest
  <1>10. OneRefresh'
    BY <1>2, <1>3 DEF OneRefresh
  <1>11. ASSUME NEW s \in Schemas, ~overlapped'[s], NEW e \in Events, Obliged(s, e)'
         PROVE  Accounted(s, e)'
    <2>1. Accounted(s, e) /\ ~overlapped[s] /\ table[s][e] # None
      BY <1>2, <1>11 DEF RowsAccounted, Obliged
    <2>2. CASE s # S
      BY <1>2, <1>3, <1>4, <1>8, <2>1, <2>2
      DEF Accounted, Ahead, ToBeFetched, Settled, Shown, Pending
    <2>3. CASE s = S
      <3>1. \A o \in Threads : Refreshing(o, s) => o = t
        BY <1>1, <2>1, <2>3 DEF OneRefresh
      <3>2. CASE Ahead(s, e)
        <4>1. newest[t] < table[s][e].ts
          BY <1>1, <2>3, <3>2 DEF Ahead
        <4>2. \E x \in rows'[t] : x.event = e /\ x.row = table[s][e]
          BY <1>7, <2>1, <2>3, <4>1, Numbers
        <4> QED
          BY <1>1, <1>2, <1>3, <2>3, <4>2 DEF Pending, Accounted
      <3>3. CASE Settled(s, e)
        BY <1>2, <1>3, <1>6, <2>3, <3>1, <3>3 DEF Settled, Shown, Accounted
      <3>4. CASE Pending(s, e)
        BY <1>1, <3>1, <3>4 DEF Pending
      <3> QED
        BY <2>1, <3>2, <3>3, <3>4 DEF Accounted
    <2> QED
      BY <2>2, <2>3
  <1> QED
    BY <1>9, <1>10, <1>11 DEF RowsAccounted

(* A row that unpacks is taken: it is then settled, or its event was ahead *)
(* of it, or it was superseded.                                            *)
LEMMA ApplyKeeps ==
    ASSUME Base, NothingBeyondLatest, OneRefresh, RowsAccounted,
           NEW t \in Threads, UpdateApply(t)
    PROVE  NothingBeyondLatest' /\ OneRefresh' /\ RowsAccounted'
  <1> USE DEF Base
  <1> DEFINE S == schema[t]
  <1>1. S \in Schemas /\ Refreshing(t, S)
    BY DEF UpdateApply, Store, TypeOK, Refreshing
  <1>2. UNCHANGED <<table, watermark, latest, exempt, overlapped>>
    BY DEF UpdateApply, dbVars
  <1>3. \A o \in Threads, s \in Schemas : Refreshing(o, s)' <=> Refreshing(o, s)
    BY DEF UpdateApply, Refreshing
  <1>4. PICK x \in rows[t] :
            /\ x.row.ok
            /\ rows' = [rows EXCEPT ![t] = @ \ {x}]
            /\ cache' = [cache EXCEPT ![S][x.event] = x.row]
            /\ newest' = [newest EXCEPT ![t] = IF x.row.ts > @ THEN x.row.ts ELSE @]
    BY DEF UpdateApply, Store
  <1> HIDE DEF S
  <1>5. /\ x.event \in Events /\ x.row.ts \in Nat
        /\ newest[t] \in Int /\ latest[S] \in Nat
    BY <1>1, Numbers
  <1>6. /\ cache'[S][x.event] = x.row
        /\ \A s \in Schemas, e \in Events :
                <<s, e>> # <<S, x.event>> => cache'[s][e] = cache[s][e]
    BY <1>1, <1>4, <1>5 DEF TypeOK
  <1>7. /\ rows'[t] = rows[t] \ {x}
        /\ newest'[t] = IF x.row.ts > newest[t] THEN x.row.ts ELSE newest[t]
        /\ \A o \in Threads : o # t => rows'[o] = rows[o] /\ newest'[o] = newest[o]
    BY <1>4 DEF TypeOK
  <1>8. NothingBeyondLatest'
    <2>1. ASSUME NEW s \in Schemas, NEW o \in Threads, Refreshing(o, s)'
          PROVE  /\ newest'[o] <= latest[s]
                 /\ \A y \in rows'[o] : y.row.ts <= latest[s]
      BY <1>3, <1>4, <1>7, <2>1 DEF NothingBeyondLatest
    <2> QED
      BY <1>2, <2>1 DEF NothingBeyondLatest
  <1>9. OneRefresh'
    BY <1>2, <1>3 DEF OneRefresh
  <1>10. ASSUME NEW s \in Schemas, ~overlapped'[s], NEW e \in Events, Obliged(s, e)'
         PROVE  Accounted(s, e)'
    <2>1. Accounted(s, e) /\ ~overlapped[s] /\ table[s][e] # None
      BY <1>2, <1>10 DEF RowsAccounted, Obliged
    <2>2. CASE s # S
      <3>1. \A o \in Threads : Refreshing(o, s) => o # t
        BY <2>2 DEF Refreshing, S
      <3> QED
        BY <1>2, <1>3, <1>6, <1>7, <2>1, <2>2, <3>1
        DEF Accounted, Ahead, ToBeFetched, Settled, Shown, Pending
    <2>3. CASE s = S
      <3>1. \A o \in Threads : Refreshing(o, s) => o = t
        BY <1>1, <2>1, <2>3 DEF OneRefresh
      <3>2. CASE Ahead(s, e)
        BY <1>1, <1>2, <1>3, <1>4, <1>7, <2>3, <3>1, <3>2
        DEF Ahead, ToBeFetched, Accounted
      <3>3. CASE Settled(s, e)
        BY <1>1, <1>2, <1>3, <1>4, <1>6, <1>7, <2>3, <3>1, <3>3
        DEF Settled, Shown, Accounted
      <3>4. CASE Pending(s, e) /\ e = x.event
        <4>1. x.row = table[s][e]
          BY <1>4, <3>1, <3>4 DEF Pending, PendingRows
        <4>2. \A y \in rows'[t] : y.event # e
          BY <1>4, <1>7, <3>4 DEF PendingRows
        <4> QED
          BY <1>2, <1>3, <1>6, <2>3, <3>1, <3>4, <4>1, <4>2
          DEF Settled, Shown, Accounted
      <3>5. CASE Pending(s, e) /\ e # x.event
        BY <1>2, <1>3, <1>7, <3>1, <3>5 DEF Pending, Accounted
      <3> QED
        BY <2>1, <3>2, <3>3, <3>4, <3>5 DEF Accounted
    <2> QED
      BY <2>2, <2>3
  <1> QED
    BY <1>8, <1>9, <1>10 DEF RowsAccounted

(* A row that does not unpack is none the cache must show.                 *)
LEMMA SkipKeeps ==
    ASSUME Base, NothingBeyondLatest, OneRefresh, RowsAccounted,
           NEW t \in Threads, UpdateSkip(t)
    PROVE  NothingBeyondLatest' /\ OneRefresh' /\ RowsAccounted'
  <1> USE DEF Base
  <1>1. /\ UNCHANGED <<table, cache, watermark, latest, exempt, newest, overlapped>>
        /\ \A o \in Threads, s \in Schemas : Refreshing(o, s)' <=> Refreshing(o, s)
    BY DEF UpdateSkip, Refreshing, dbVars
  <1>2. PICK x \in rows[t] : ~x.row.ok /\ rows' = [rows EXCEPT ![t] = @ \ {x}]
    BY DEF UpdateSkip
  <1>3. /\ rows'[t] = rows[t] \ {x}
        /\ \A o \in Threads : o # t => rows'[o] = rows[o]
    BY <1>2 DEF TypeOK
  <1>4. \A o \in Threads : rows'[o] \subseteq rows[o]
    BY <1>3
  <1>5. NothingBeyondLatest'
    BY <1>1, <1>4, LatestKept
  <1>6. OneRefresh'
    BY <1>1 DEF OneRefresh
  <1>7. ASSUME NEW s \in Schemas, ~overlapped'[s], NEW e \in Events, Obliged(s, e)'
        PROVE  Accounted(s, e)'
    <2>1. Accounted(s, e) /\ table[s][e].ok
      BY <1>1, <1>7 DEF RowsAccounted, Obliged
    <2>2. CASE Ahead(s, e)
      BY <1>1, <1>4, <2>2 DEF Ahead, ToBeFetched, Accounted
    <2>3. CASE Settled(s, e)
      BY <1>1, <1>4, <2>3 DEF Settled, Shown, Accounted
    <2>4. CASE Pending(s, e)
      BY <1>1, <1>2, <1>3, <2>1, <2>4 DEF Pending, Accounted
    <2> QED
      BY <2>1, <2>2, <2>3, <2>4 DEF Accounted
  <1> QED
    BY <1>5, <1>6, <1>7 DEF RowsAccounted

(* The new watermark is one every row that is ahead is ahead of.           *)
LEMMA PublishKeeps ==
    ASSUME Base, NothingBeyondLatest, OneRefresh, RowsAccounted,
           NEW t \in Threads, UpdatePublish(t)
    PROVE  NothingBeyondLatest' /\ OneRefresh' /\ RowsAccounted'
  <1> USE DEF Base
  <1> DEFINE S == schema[t]
  <1>1. S \in Schemas /\ Refreshing(t, S) /\ rows[t] = {}
    BY DEF UpdatePublish, TypeOK, Refreshing
  <1>2. UNCHANGED <<table, cache, latest, exempt, overlapped>>
    BY DEF UpdatePublish, dbVars
  <1>3. \A o \in Threads, s \in Schemas : Refreshing(o, s)' <=>
            Refreshing(o, s) /\ o # t
    BY DEF UpdatePublish, Return, Refreshing, TypeOK
  <1>4. \A o \in Threads : o # t => rows'[o] = rows[o] /\ newest'[o] = newest[o]
    BY DEF UpdatePublish, Return, TypeOK
  <1>5. /\ watermark'[S] \in {watermark[S], newest[t]}
        /\ \A s \in Schemas : s # S => watermark'[s] = watermark[s]
    BY <1>1 DEF UpdatePublish, NextWatermark, TypeOK, Watermarks
  <1> HIDE DEF S
  <1>6. NothingBeyondLatest'
    <2>1. \A s \in Schemas : watermark'[s] <= latest[s]
      BY <1>1, <1>5 DEF NothingBeyondLatest
    <2> QED
      BY <1>2, <1>3, <1>4, <2>1 DEF NothingBeyondLatest
  <1>7. OneRefresh'
    BY <1>2, <1>3 DEF OneRefresh
  <1>8. ASSUME NEW s \in Schemas, ~overlapped'[s], NEW e \in Events, Obliged(s, e)'
        PROVE  Accounted(s, e)'
    <2>1. Accounted(s, e)
      BY <1>2, <1>8 DEF RowsAccounted, Obliged
    <2>2. CASE Ahead(s, e)
      <3>1. ToBeFetched(s, e)'
        BY <1>1, <1>2, <1>5, <2>2 DEF Ahead, ToBeFetched
      <3> QED
        BY <1>2, <1>3, <1>4, <2>2, <3>1 DEF Ahead, Accounted
    <2>3. CASE Settled(s, e)
      BY <1>2, <1>3, <1>4, <2>3 DEF Settled, Shown, Accounted
    <2>4. CASE Pending(s, e)
      BY <1>1, <1>2, <1>3, <1>4, <2>4 DEF Pending, Accounted
    <2> QED
      BY <2>1, <2>2, <2>3, <2>4 DEF Accounted
  <1> QED
    BY <1>6, <1>7, <1>8 DEF RowsAccounted

(* A start, first or later, leaves every row in the cache, above the       *)
(* watermark, or exempt.                                                   *)
LEMMA LoadAccounts ==
    ASSUME TypeOK, NEW s \in Schemas, NEW e \in Events, NEW L, NEW w,
           table[s][e] # None, e \notin LeftOut(table[s], LoadedEvents(table[s], L), w)
    PROVE  \/ LoadedEvents(table[s], L)[e] = table[s][e]
           \/ ~(table[s][e].ts <= w)
  <1>1. table[s] \in [Events -> Row \union {None}]
    BY DEF TypeOK
  <1> QED
    BY <1>1, LoadedEventsType DEF LeftOut, Present

LEMMA RestartKeeps ==
    ASSUME Base, NothingBeyondLatest, Restart
    PROVE  NothingBeyondLatest' /\ OneRefresh' /\ RowsAccounted'
  <1> USE DEF Base
  <1>1. PICK L \in Loads :
            /\ watermark' \in Watermarks
            /\ InitialQuery(table, L, watermark')
            /\ cache' = [s \in Schemas |-> LoadedEvents(table[s], L[s])]
            /\ exempt' = [s \in Schemas |->
                            LeftOut(table[s], cache'[s], watermark'[s])]
    BY DEF Restart
  <1>2. UNCHANGED <<table, latest>>
    BY DEF Restart
  <1>3. \A s \in Schemas, t \in Threads : ~Refreshing(t, s)'
    BY DEF Restart, Refreshing
  <1>4. \A s \in Schemas : watermark'[s] \in Int
    BY <1>1, Horizons DEF Watermarks
  <1>5. NothingBeyondLatest'
    <2>1. ASSUME NEW s \in Schemas PROVE watermark'[s] <= latest[s]
      <3>1. IsNewest(watermark'[s], LoadedEvents(table[s], L[s]))
        BY <1>1 DEF InitialQuery
      <3>2. \/ watermark'[s] = Lowest
            \/ \E e \in Events : table[s][e] # None /\ table[s][e].ts = watermark'[s]
        BY <3>1, NewestLoaded
      <3>3. latest[s] \in Nat
        BY Numbers
      <3> QED
        BY <3>2, <3>3 DEF NothingBeyondLatest
    <2> QED
      BY <1>2, <1>3, <2>1 DEF NothingBeyondLatest
  <1>6. OneRefresh'
    BY <1>3 DEF OneRefresh
  <1>7. ASSUME NEW s \in Schemas, NEW e \in Events, Obliged(s, e)'
        PROVE  Accounted(s, e)'
    <2>1. /\ cache'[s] = LoadedEvents(table[s], L[s])
          /\ exempt'[s] = LeftOut(table[s], LoadedEvents(table[s], L[s]), watermark'[s])
      BY <1>1
    <2>2. table[s][e] # None /\ e \notin exempt'[s]
      BY <1>2, <1>7 DEF Obliged
    <2>3. cache'[s][e] = table[s][e] \/ ~(table[s][e].ts <= watermark'[s])
      BY <2>1, <2>2, LoadAccounts
    <2>4. CASE cache'[s][e] = table[s][e]
      BY <1>2, <1>3, <2>4 DEF Settled, Shown, Accounted
    <2>5. CASE ~(table[s][e].ts <= watermark'[s])
      <3>1. watermark'[s] < table[s][e].ts
        BY <1>4, <2>2, <2>5, Numbers
      <3> QED
        BY <1>2, <1>3, <3>1 DEF Ahead, ToBeFetched, Accounted
    <2> QED
      BY <2>3, <2>4, <2>5
  <1> QED
    BY <1>5, <1>6, <1>7 DEF RowsAccounted

LEMMA InitCatchUp == Init => CatchUpInv
  <1> SUFFICES ASSUME Init PROVE CatchUpInv
    OBVIOUS
  <1>1. Base /\ NothingBeyondLatest
    BY InitBase, InitLatest
  <1>2. TypeOK
    BY <1>1 DEF Base
  <1>3. \A s \in Schemas, t \in Threads : ~Refreshing(t, s)
    BY DEF Init, NoCalls, Refreshing
  <1>4. PICK L \in Loads :
            /\ watermark \in Watermarks
            /\ cache = [s \in Schemas |-> LoadedEvents(table[s], L[s])]
            /\ exempt = [s \in Schemas |-> LeftOut(table[s], cache[s], watermark[s])]
    BY DEF Init
  <1>5. \A s \in Schemas : watermark[s] \in Int
    BY <1>4, Horizons DEF Watermarks
  <1>6. ASSUME NEW s \in Schemas, NEW e \in Events, Obliged(s, e)
        PROVE  Accounted(s, e)
    <2>1. /\ cache[s] = LoadedEvents(table[s], L[s])
          /\ exempt[s] = LeftOut(table[s], LoadedEvents(table[s], L[s]), watermark[s])
      BY <1>4
    <2>2. table[s][e] # None /\ e \notin exempt[s]
      BY <1>6 DEF Obliged
    <2>3. cache[s][e] = table[s][e] \/ ~(table[s][e].ts <= watermark[s])
      BY <1>2, <2>1, <2>2, LoadAccounts
    <2>4. CASE cache[s][e] = table[s][e]
      BY <1>3, <2>4 DEF Settled, Shown, Accounted
    <2>5. CASE ~(table[s][e].ts <= watermark[s])
      <3>1. watermark[s] < table[s][e].ts
        BY <1>2, <1>5, <2>2, <2>5, Numbers
      <3> QED
        BY <1>3, <3>1 DEF Ahead, ToBeFetched, Accounted
    <2> QED
      BY <2>3, <2>4, <2>5
  <1> QED
    BY <1>1, <1>3, <1>6 DEF CatchUpInv, Base, OneRefresh, RowsAccounted

LEMMA NextCatchUp == CatchUpInv /\ [Next]_vars => CatchUpInv'
  <1> SUFFICES ASSUME CatchUpInv, [Next]_vars
               PROVE  NothingBeyondLatest' /\ OneRefresh' /\ RowsAccounted'
    BY NextBase DEF CatchUpInv, Base
  <1>1. Base /\ NothingBeyondLatest /\ OneRefresh /\ RowsAccounted
    BY DEF CatchUpInv, Base
  <1>2. CASE \/ PollAgain \/ \E s \in Schemas : PollSchema(s)
             \/ \E u \in Reviewers, s \in Schemas, e \in Events : ReviewStart(u, s, e)
             \/ \E u \in Reviewers : ReviewLock(u) \/ ReviewAbort(u)
             \/ \E t \in Threads : UpdateFail(t)
             \/ UNCHANGED vars
    BY <1>1, <1>2, CalmSteps, CalmKeeps
  <1>3. CASE \/ \E s \in Schemas, e \in Events : PipelineWrite(s, e)
             \/ \E u \in Reviewers : ReviewExecute(u)
    BY <1>1, <1>3, CommitSteps
  <1>4. ASSUME NEW t \in Threads,
               UpdateBegin(t) \/ UpdateSelect(t) \/ UpdateApply(t)
                 \/ UpdateSkip(t) \/ UpdatePublish(t)
        PROVE  NothingBeyondLatest' /\ OneRefresh' /\ RowsAccounted'
    BY <1>1, <1>4, BeginKeeps, SelectKeeps, ApplyKeeps, SkipKeeps, PublishKeeps
  <1>5. CASE Restart
    BY <1>1, <1>5, RestartKeeps
  <1> QED
    BY <1>2, <1>3, <1>4, <1>5 DEF Next, ReviewStep, UpdateStep

(* The inductive invariant behind the next theorem.                        *)
THEOREM CatchUpInvariant == Spec => []CatchUpInv
  BY InitCatchUp, NextCatchUp, PTL DEF Spec

(* No update is lost: when no refresh of a schema is under way and none    *)
(* ever overlapped another, each row committed in the order of its stamp   *)
(* is in the cache, or above the watermark for the next poll to fetch.     *)
THEOREM CatchUpHolds == Spec => []CatchUp
  <1>1. CatchUpInv => CatchUp
    <2> SUFFICES ASSUME CatchUpInv, NEW s \in Schemas, Quiet(s), ~overlapped[s],
                        NEW e \in Events, Obliged(s, e)
                 PROVE  Shown(s, e) \/ ToBeFetched(s, e)
      BY DEF CatchUp
    <2>1. Accounted(s, e)
      BY DEF CatchUpInv, RowsAccounted
    <2> QED
      BY <2>1 DEF Accounted, Ahead, Settled, Pending, Quiet
  <1> QED
    BY <1>1, CatchUpInvariant, PTL

-----------------------------------------------------------------------------
(***************************************************************************)
(* AcknowledgedReview.                                                     *)
(***************************************************************************)
(* A commit numbers its row with a number no review holds yet.             *)
LEMMA CommitVersion ==
    ASSUME TypeOK, NEW s \in Schemas, NEW e \in Events, NEW ts \in Times,
           NEW ok \in BOOLEAN, Commit(s, e, ts, ok)
    PROVE  /\ writes \in Nat /\ writes' = writes + 1
           /\ table'[s][e].ver = writes + 1
  <1>1. table'[s][e] = [ver |-> writes + 1, ts |-> ts, ok |-> ok]
    BY DEF TypeOK, Commit
  <1> QED
    BY <1>1 DEF TypeOK, Commit

LEMMA Versions ==
    ASSUME TypeOK
    PROVE  /\ writes \in Nat
           /\ \A s \in Schemas, e \in Events :
                table[s][e] # None => table[s][e].ver \in Nat
           /\ \A u \in Reviewers : Updating(u) => review[u].wrote \in Nat
  <1>1. \A u \in Reviewers : Updating(u) => review[u] \in Review
    BY DEF TypeOK, Updating
  <1> QED
    BY <1>1 DEF TypeOK, Row, Review

(* A commit keeps the numbers in order, whoever makes it.                  *)
LEMMA CommitNumbers ==
    ASSUME TypeOK, CommitsNumbered, NEW s \in Schemas, NEW e \in Events,
           NEW ts \in Times, NEW ok \in BOOLEAN, Commit(s, e, ts, ok)
    PROVE  \A r \in Schemas, x \in Events :
                table'[r][x] # None => table'[r][x].ver <= writes'
  <1>1. ASSUME NEW r \in Schemas, NEW x \in Events, table'[r][x] # None
        PROVE  table'[r][x].ver <= writes'
    <2>1. CASE <<r, x>> = <<s, e>>
      BY <2>1, CommitVersion
    <2>2. CASE <<r, x>> # <<s, e>>
      <3>1. table'[r][x] = table[r][x]
        BY <2>2, CommitEffect
      <3> QED
        BY <1>1, <3>1, CommitVersion, Versions DEF CommitsNumbered
    <2> QED
      BY <2>1, <2>2
  <1> QED
    BY <1>1

(* What a review's UPDATE records of its own outcome.                      *)
LEMMA OutcomeNumbers ==
    ASSUME TypeOK, CommitsNumbered, NEW u \in Reviewers, ReviewExecute(u)
    PROVE  /\ review'[u].wrote <= writes'
           /\ review'[u].success => review'[u].wrote > 0
           /\ writes' \in Nat /\ writes <= writes'
           /\ \A o \in Reviewers : o # u => review'[o] = review[o]
  <1>1. u \in Threads /\ review[u] \in Review /\ writes \in Nat
    BY DEF ReviewExecute, TypeOK, Threads
  <1>2. PICK stored \in BOOLEAN, answered \in BOOLEAN :
            /\ answered => stored
            /\ review' = [review EXCEPT ![u] = Outcome(@, stored, answered)]
            /\ IF stored
               THEN Commit(schema[u], review[u].event, review[u].stamp,
                           table[schema[u]][review[u].event].ok)
               ELSE UNCHANGED <<table, writes, latest, exempt>>
    BY DEF ReviewExecute
  <1>3. review'[u] = Outcome(review[u], stored, answered)
            /\ \A o \in Reviewers : o # u => review'[o] = review[o]
    BY <1>2 DEF TypeOK
  <1>4. /\ review'[u].wrote = IF stored THEN writes + 1 ELSE 0
        /\ review'[u].success = answered
    BY <1>1, <1>3 DEF Outcome, Review
  <1>5. writes' = IF stored THEN writes + 1 ELSE writes
    BY <1>2 DEF Commit
  <1> QED
    BY <1>1, <1>2, <1>3, <1>4, <1>5

LEMMA NumbersKept ==
    ASSUME Base, CommitsNumbered, [Next]_vars
    PROVE  CommitsNumbered'
  <1> USE DEF Base
  <1>1. ASSUME NEW s \in Schemas, NEW e \in Events, PipelineWrite(s, e)
        PROVE  CommitsNumbered'
    <2>1. PICK ts \in Stamps, ok \in BOOLEAN : Commit(s, e, ts, ok)
      BY <1>1 DEF PipelineWrite
    <2>2. ts \in Times
      BY DEF Stamps
    <2>3. writes \in Nat /\ writes' = writes + 1
      BY <2>1, <2>2, CommitVersion
    <2>4. \A u \in Reviewers : Updating(u)' =>
            Updating(u) /\ review'[u] = review[u]
      BY <1>1 DEF PipelineWrite, callVars, Updating
    <2> QED
      BY <2>1, <2>2, <2>3, <2>4, CommitNumbers, Versions DEF CommitsNumbered
  <1>2. ASSUME NEW u \in Reviewers, ReviewExecute(u) PROVE CommitsNumbered'
    <2>1. \A r \in Schemas, x \in Events :
            table'[r][x] # None => table'[r][x].ver <= writes'
      <3>1. CASE UNCHANGED <<table, writes>>
        BY <3>1 DEF CommitsNumbered
      <3>2. CASE Commit(schema[u], review[u].event, review[u].stamp,
                        table[schema[u]][review[u].event].ok)
        <4>1. PICK s \in Schemas, e \in Events, ts \in Times, ok \in BOOLEAN :
                  Commit(s, e, ts, ok)
          BY <1>2, <3>2, ReviewedRow, Zenon
        <4> QED
          BY <4>1, CommitNumbers
      <3> QED
        BY <1>2, <3>1, <3>2 DEF ReviewExecute
    <2>2. \A o \in Reviewers : o # u => (Updating(o)' <=> Updating(o))
      BY <1>2 DEF ReviewExecute, Updating, TypeOK, Threads
    <2> QED
      BY <1>2, <2>1, <2>2, OutcomeNumbers, Versions DEF CommitsNumbered
  <1>3. CASE UNCHANGED <<table, writes>>
             /\ \A u \in Reviewers : Updating(u)' =>
                    Updating(u) /\ review'[u] = review[u]
    BY <1>3 DEF CommitsNumbered
  <1>4. CASE \/ PollAgain \/ Restart \/ UNCHANGED vars
             \/ \E s \in Schemas : PollSchema(s)
    BY <1>3, <1>4, ThreadsAssumption
    DEF PollAgain, PollSchema, Restart, vars, dbVars, callVars, Updating, TypeOK,
        Threads
  <1>5. ASSUME NEW u \in Reviewers,
               \/ \E s \in Schemas, e \in Events : ReviewStart(u, s, e)
               \/ ReviewLock(u) \/ ReviewAbort(u)
        PROVE  CommitsNumbered'
    BY <1>3, <1>5
    DEF ReviewStart, ReviewLock, ReviewAbort, dbVars, Updating, TypeOK, Threads
  <1>6. ASSUME NEW t \in Threads,
               UpdateBegin(t) \/ UpdateSelect(t) \/ UpdateApply(t) \/ UpdateSkip(t)
        PROVE  CommitsNumbered'
    BY <1>3, <1>6
    DEF UpdateBegin, UpdateSelect, UpdateApply, UpdateSkip, dbVars, Updating,
        TypeOK, Threads
  <1>7. ASSUME NEW t \in Threads, UpdateFail(t) \/ UpdatePublish(t)
        PROVE  CommitsNumbered'
    BY <1>3, <1>7
    DEF UpdateFail, UpdatePublish, Return, dbVars, Updating, TypeOK, Threads
  <1> QED
    BY <1>1, <1>2, <1>4, <1>5, <1>6, <1>7 DEF Next, ReviewStep, UpdateStep

(* A review that is applying rows keeps its arguments, and came there by   *)
(* its own query.                                                          *)
LEMMA ArgumentsKept ==
    ASSUME Base, [Next]_vars, NEW u \in Reviewers, at'[u] = "apply"
    PROVE  /\ schema'[u] = schema[u] /\ review'[u] = review[u]
           /\ at[u] = "apply" \/ UpdateSelect(u)
  <1> USE DEF Base
  <1> DEFINE Goal == /\ schema'[u] = schema[u] /\ review'[u] = review[u]
                     /\ at[u] = "apply" \/ UpdateSelect(u)
  <1>1. CASE \/ PollAgain \/ Restart \/ UNCHANGED vars
             \/ \E s \in Schemas : PollSchema(s)
             \/ \E s \in Schemas, e \in Events : PipelineWrite(s, e)
    BY <1>1, ThreadsAssumption
    DEF PollAgain, PollSchema, PipelineWrite, Restart, vars, dbVars, callVars,
        TypeOK, Threads
  <1>2. ASSUME NEW o \in Reviewers,
               \/ \E s \in Schemas, e \in Events : ReviewStart(o, s, e)
               \/ ReviewLock(o) \/ ReviewAbort(o)
        PROVE  Goal
    BY <1>2 DEF ReviewStart, ReviewLock, ReviewAbort, dbVars, TypeOK, Threads
  <1>3. ASSUME NEW o \in Reviewers, ReviewExecute(o) PROVE Goal
    <2>1. o # u
      BY <1>3 DEF ReviewExecute, TypeOK, Threads
    <2> QED
      BY <1>3, <2>1 DEF ReviewExecute, TypeOK, Threads
  <1>4. ASSUME NEW t \in Threads,
               UpdateBegin(t) \/ UpdateSelect(t) \/ UpdateApply(t) \/ UpdateSkip(t)
        PROVE  Goal
    BY <1>4 DEF UpdateBegin, UpdateSelect, UpdateApply, UpdateSkip, dbVars,
                TypeOK, Threads
  <1>5. ASSUME NEW t \in Threads, UpdateFail(t) \/ UpdatePublish(t) PROVE Goal
    <2>1. t # u
      BY <1>5 DEF UpdateFail, UpdatePublish, Return, TypeOK, Threads
    <2> QED
      BY <1>5, <2>1 DEF UpdateFail, UpdatePublish, Return, TypeOK, Threads
  <1> QED
    BY <1>1, <1>2, <1>3, <1>4, <1>5 DEF Next, ReviewStep, UpdateStep

(* The query takes the review's own row: it is ahead of the watermark the  *)
(* refresh read, unless it is settled, since nobody else refreshes.        *)
LEMMA SelectTakes ==
    ASSUME CatchUpInv, NEW u \in Reviewers, UpdateSelect(u), OwnRow(u)'
    PROVE  Taken(u)'
  <1> USE DEF Base
  <1>1. TypeOK /\ RowsExist /\ PendingRows /\ OneRefresh /\ RowsAccounted
    BY DEF CatchUpInv
  <1>2. PICK s \in Schemas, e \in Events :
            s = schema[u] /\ e = review[u].event /\ u \in Threads
    BY <1>1, KnownRows DEF UpdateSelect, Threads
  <1>3. /\ UNCHANGED <<table, cache, exempt, overlapped, schema, review>>
        /\ rows'[u] = NewerRows(s, newest[u])
        /\ \A o \in Threads, r \in Schemas : Refreshing(o, r)' <=> Refreshing(o, r)
    BY <1>1, <1>2 DEF UpdateSelect, TypeOK, dbVars, Refreshing
  <1>4. Refreshing(u, s) /\ rows[u] = {} /\ ~overlapped[s] /\ Obliged(s, e)
    BY <1>1, <1>2, <1>3
    DEF UpdateSelect, PendingRows, Refreshing, OwnRow, RefreshDone, Obliged
  <1>5. \A o \in Threads : Refreshing(o, s) => o = u
    BY <1>1, <1>2, <1>4 DEF OneRefresh
  <1>6. Accounted(s, e)
    BY <1>1, <1>2, <1>4 DEF RowsAccounted
  <1>7. schema'[u] = s /\ review'[u].event = e
    BY <1>2, <1>3
  <1>8. CASE Ahead(s, e)
    <2>1. [event |-> e, row |-> table[s][e]] \in NewerRows(s, newest[u])
      <3>1. table[s][e].ts \in Nat /\ newest[u] \in Int /\ newest[u] < table[s][e].ts
        BY <1>1, <1>2, <1>4, <1>8, Numbers DEF Ahead, Obliged
      <3> QED
        BY <1>2, <1>4, <3>1 DEF NewerRows, Present, Obliged
    <2> QED
      BY <1>3, <1>7, <2>1 DEF Taken
  <1>9. CASE Settled(s, e)
    BY <1>3, <1>5, <1>7, <1>9 DEF Taken, Settled, Shown, NewerRows
  <1>10. CASE Pending(s, e)
    BY <1>4, <1>5, <1>10 DEF Pending
  <1> QED
    BY <1>6, <1>8, <1>9, <1>10 DEF Accounted

(* Nothing an undisturbed review still has to apply is lost on the way.    *)
LEMMA TakenKept ==
    ASSUME CatchUpInv, AnswerInv, [Next]_vars, NEW u \in Reviewers, OwnRow(u)',
           at[u] = "apply"
    PROVE  Taken(u)'
  <1> USE DEF Base
  <1>1. TypeOK /\ RowsExist /\ PendingRows /\ OneRefresh
    BY DEF CatchUpInv
  <1>2. PICK s \in Schemas, e \in Events :
            /\ s = schema[u] /\ e = review[u].event
            /\ u \in Threads /\ Refreshing(u, s)
    BY <1>1, KnownRows DEF Refreshing, Threads
  <1>3. at'[u] = "apply" /\ ~overlapped'[s] /\ schema'[u] = s /\ review'[u] = review[u]
    BY <1>1, <1>2, ArgumentsKept DEF OwnRow, RefreshDone
  <1>4. /\ review[u].wrote > 0 /\ table'[s][e].ver = review[u].wrote
        /\ Obliged(s, e)'
    BY <1>2, <1>3 DEF OwnRow
  <1>5. Taken(u) <=> \/ Settled(s, e)
                     \/ \E x \in rows[u] : x.event = e /\ x.row = table[s][e]
    BY <1>2 DEF Taken
  <1>6. Taken(u)' <=> \/ Settled(s, e)'
                      \/ \E x \in rows'[u] : x.event = e /\ x.row = table'[s][e]
    BY <1>2, <1>3 DEF Taken
  <1>7. ASSUME table'[s][e] = table[s][e], e \in exempt'[s] <=> e \in exempt[s],
               ~overlapped[s]
        PROVE  Taken(u)
    BY <1>2, <1>3, <1>4, <1>7 DEF AnswerInv, OwnRowTaken, OwnRow, RefreshDone, Obliged
  <1>8. CASE Calm
    BY <1>2, <1>3, <1>5, <1>6, <1>7, <1>8 DEF Calm, Refreshing, Settled, Shown
  <1>9. ASSUME NEW r \in Schemas, NEW x \in Events, NEW ts \in Times,
               NEW ok \in BOOLEAN, Commit(r, x, ts, ok),
               UNCHANGED <<cache, rows, overlapped>>,
               \A o \in Threads, q \in Schemas : Refreshing(o, q)' <=> Refreshing(o, q)
        PROVE  Taken(u)'
    <2>1. <<r, x>> # <<s, e>>
      <3>1. review[u].wrote <= writes /\ writes \in Nat /\ review[u].wrote \in Nat
        BY <1>1, <1>2, Versions DEF AnswerInv, CommitsNumbered, Updating
      <3> QED
        BY <1>1, <1>4, <1>9, <3>1, CommitVersion
    <2>2. table'[s][e] = table[s][e] /\ (e \in exempt'[s] <=> e \in exempt[s])
      BY <1>1, <1>2, <1>9, <2>1, CommitEffect
    <2> QED
      BY <1>2, <1>3, <1>5, <1>6, <1>7, <1>9, <2>2 DEF Settled, Shown
  <1>10. ASSUME NEW w \in Schemas, NEW x \in Events, PipelineWrite(w, x)
         PROVE  Taken(u)'
    <2>1. PICK ts \in Stamps, ok \in BOOLEAN : Commit(w, x, ts, ok)
      BY <1>10 DEF PipelineWrite
    <2>2. ts \in Times
      BY DEF Stamps
    <2> QED
      BY <1>9, <1>10, <2>1, <2>2 DEF PipelineWrite, callVars, Refreshing
  <1>11. ASSUME NEW o \in Reviewers, ReviewExecute(o) PROVE Taken(u)'
    <2>1. /\ \A r \in Schemas, t \in Threads : Refreshing(t, r)' <=> Refreshing(t, r)
          /\ UNCHANGED <<cache, watermark, newest, rows, overlapped>>
      BY <1>1, <1>11 DEF ReviewExecute, Refreshing, TypeOK, Threads
    <2>2. CASE Commit(schema[o], review[o].event, review[o].stamp,
                      table[schema[o]][review[o].event].ok)
      <3>1. PICK r \in Schemas, x \in Events, ts \in Times, ok \in BOOLEAN :
                Commit(r, x, ts, ok)
        BY <1>1, <1>11, <2>2, ReviewedRow, Zenon
      <3> QED
        BY <1>9, <2>1, <3>1
    <2>3. CASE UNCHANGED <<table, writes, latest, exempt>>
      BY <1>8, <2>1, <2>3 DEF Calm
    <2> QED
      BY <1>11, <2>2, <2>3 DEF ReviewExecute
  <1>12. ASSUME NEW t \in Threads, UpdateBegin(t) PROVE Taken(u)'
    <2>1. schema[t] # s
      BY <1>1, <1>2, <1>3, <1>12 DEF UpdateBegin, TypeOK
    <2>2. \A o \in Threads : Refreshing(o, s)' => Refreshing(o, s)
      BY <1>1, <1>12, <2>1 DEF UpdateBegin, Refreshing, TypeOK
    <2>3. UNCHANGED <<table, cache, exempt, rows>> /\ ~overlapped[s]
      BY <1>1, <1>2, <1>3, <1>12, <2>1 DEF UpdateBegin, TypeOK, dbVars
    <2> QED
      BY <1>2, <1>5, <1>6, <1>7, <2>2, <2>3 DEF Settled, Shown
  <1>13. ASSUME NEW t \in Threads, t # u, UpdateSelect(t) \/ UpdateApply(t)
         PROVE  Taken(u)'
    <2>1. UNCHANGED <<table, exempt, overlapped, schema>>
          /\ \A o \in Threads, r \in Schemas : Refreshing(o, r)' <=> Refreshing(o, r)
      BY <1>1, <1>13 DEF UpdateSelect, UpdateApply, TypeOK, dbVars, Refreshing
    <2>2. schema[t] # s /\ schema[t] \in Schemas
      <3>1. schema[t] \in Schemas /\ Refreshing(t, schema[t])
        BY <1>1, <1>13 DEF UpdateSelect, UpdateApply, TypeOK, Refreshing
      <3> QED
        BY <1>1, <1>2, <1>3, <1>13, <2>1, <3>1 DEF OneRefresh
    <2>3. cache'[s] = cache[s] /\ \A o \in Threads : o # t => rows'[o] = rows[o]
      BY <1>1, <1>2, <1>13, <2>2
      DEF UpdateSelect, UpdateApply, Store, TypeOK
    <2>4. \A o \in Threads : Refreshing(o, s) => o # t
      BY <2>2 DEF Refreshing
    <2> QED
      BY <1>2, <1>3, <1>5, <1>6, <1>7, <1>13, <2>1, <2>3, <2>4 DEF Settled, Shown
  <1>14. CASE UpdateApply(u)
    <2>1. PICK x \in rows[u] :
            /\ rows' = [rows EXCEPT ![u] = @ \ {x}]
            /\ cache' = [cache EXCEPT ![s][x.event] = x.row]
      BY <1>2, <1>14 DEF UpdateApply, Store
    <2>2. UNCHANGED <<table, exempt, overlapped>>
          /\ \A o \in Threads, r \in Schemas : Refreshing(o, r)' <=> Refreshing(o, r)
      BY <1>1, <1>14 DEF UpdateApply, dbVars, Refreshing
    <2>3. Taken(u) /\ x.event \in Events
      BY <1>1, <1>3, <1>7, <2>2, Numbers, <1>2
    <2>4. rows'[u] = rows[u] \ {x}
      BY <1>1, <1>2, <2>1 DEF TypeOK
    <2>5. /\ cache'[s][x.event] = x.row
          /\ x.event # e => cache'[s][e] = cache[s][e]
      BY <1>1, <1>2, <2>1, <2>3 DEF TypeOK
    <2>6. \A o \in Threads : Refreshing(o, s) => o = u
      BY <1>1, <1>2, <1>3, <2>2 DEF OneRefresh
    <2>7. CASE x.event = e
      <3>1. x.row = table[s][e]
        BY <1>1, <1>2, <1>5, <2>1, <2>3, <2>7 DEF Settled, PendingRows
      <3>2. \A y \in rows'[u] : y.event # e
        BY <1>1, <1>2, <2>4, <2>7 DEF PendingRows
      <3> QED
        BY <1>6, <2>2, <2>5, <2>6, <2>7, <3>1, <3>2 DEF Settled, Shown
    <2>8. CASE x.event # e
      BY <1>2, <1>5, <1>6, <2>2, <2>3, <2>4, <2>5, <2>6, <2>8 DEF Settled, Shown
    <2> QED
      BY <2>7, <2>8
  <1>15. ASSUME NEW t \in Threads, UpdateSkip(t) PROVE Taken(u)'
    <2>1. PICK x \in rows[t] : ~x.row.ok /\ rows' = [rows EXCEPT ![t] = @ \ {x}]
      BY <1>15 DEF UpdateSkip
    <2>2. /\ UNCHANGED <<table, cache, exempt, overlapped>>
          /\ \A o \in Threads, r \in Schemas : Refreshing(o, r)' <=> Refreshing(o, r)
      BY <1>15 DEF UpdateSkip, dbVars, Refreshing
    <2>3. /\ \A o \in Threads : \A y \in rows[o] : y \in rows'[o] \/ ~y.row.ok
          /\ \A q \in Threads : rows'[q] \subseteq rows[q]
      BY <1>1, <2>1 DEF TypeOK
    <2>4. Taken(u) /\ table[s][e].ok
      BY <1>3, <1>4, <1>7, <2>2 DEF Obliged
    <2> QED
      BY <1>2, <1>5, <1>6, <2>2, <2>3, <2>4 DEF Settled, Shown
  <1>16. ASSUME NEW t \in Threads, UpdatePublish(t) PROVE Taken(u)'
    <2>1. t # u
      BY <1>1, <1>2, <1>3, <1>16 DEF UpdatePublish, Return, TypeOK
    <2>2. /\ UNCHANGED <<table, cache, exempt, overlapped>>
          /\ \A o \in Threads : o # t => rows'[o] = rows[o]
          /\ \A o \in Threads : Refreshing(o, s)' => Refreshing(o, s) /\ o # t
      BY <1>1, <1>16 DEF UpdatePublish, Return, TypeOK, dbVars, Refreshing
    <2> QED
      BY <1>2, <1>3, <1>5, <1>6, <1>7, <2>1, <2>2 DEF Settled, Shown
  <1>17. CASE Restart
    BY <1>2, <1>3, <1>17 DEF Restart
  <1>18. CASE \/ PollAgain \/ \E q \in Schemas : PollSchema(q)
              \/ \E o \in Reviewers, q \in Schemas, x \in Events : ReviewStart(o, q, x)
              \/ \E o \in Reviewers : ReviewLock(o) \/ ReviewAbort(o)
              \/ \E t \in Threads : UpdateFail(t)
              \/ UNCHANGED vars
    <2>1. Calm
      BY <1>1, <1>18, CalmSteps
    <2> QED
      BY <1>8, <2>1
  <1>19. ~UpdateSelect(u)
    BY DEF UpdateSelect
  <1> QED
    BY <1>10, <1>11, <1>12, <1>13, <1>14, <1>15, <1>16, <1>17, <1>18, <1>19
    DEF Next, ReviewStep, UpdateStep

(* The inductive invariant behind the next theorem: CatchUpInv says that   *)
(* the query of a review finds its row, AnswerInv that it is not lost.     *)
THEOREM AnswerInvariant == Spec => []AnswerInv
  <1>1. Init => AnswerInv
    BY ThreadsAssumption
    DEF Init, NoCalls, InitialRow, AnswerInv, CommitsNumbered, OwnRowTaken, OwnRow,
        RefreshDone, Updating, Threads
  <1>2. CatchUpInv /\ AnswerInv /\ [Next]_vars => AnswerInv'
    <2> SUFFICES ASSUME CatchUpInv, AnswerInv, [Next]_vars PROVE AnswerInv'
      OBVIOUS
    <2>1. Base
      BY DEF CatchUpInv, Base
    <2>2. CommitsNumbered'
      BY <2>1, NumbersKept DEF AnswerInv
    <2>3. ASSUME NEW u \in Reviewers, OwnRow(u)' PROVE Taken(u)'
      <3>1. at[u] = "apply" \/ UpdateSelect(u)
        BY <2>1, <2>3, ArgumentsKept DEF OwnRow, RefreshDone
      <3> QED
        BY <2>3, <3>1, SelectTakes, TakenKept
    <2> QED
      BY <2>2, <2>3 DEF AnswerInv, OwnRowTaken
  <1> QED
    BY <1>1, <1>2, CatchUpInvariant, PTL DEF Spec

(* A review answered with success has committed its row; and if its        *)
(* refresh ran to the end undisturbed and the row is still the current     *)
(* one, the event data show it when the request is answered.               *)
THEOREM AcknowledgedReviewHolds == Spec => AcknowledgedReview
  <1> DEFINE Promise ==
        restarts' = restarts => \A u \in Reviewers :
            Answered(u) /\ review[u].success =>
                LET s == schema[u]
                    e == review[u].event
                IN  /\ review[u].wrote > 0
                    /\ RefreshDone(u) /\ table[s][e].ver = review[u].wrote
                        /\ Obliged(s, e) => Shown(s, e)
  <1>1. CatchUpInv /\ AnswerInv /\ [Next]_vars => [Promise]_vars
    <2> SUFFICES ASSUME CatchUpInv, AnswerInv, [Next]_vars, restarts' = restarts,
                        NEW u \in Reviewers, Answered(u), review[u].success
                 PROVE  /\ review[u].wrote > 0
                        /\ OwnRow(u) => Shown(schema[u], review[u].event)
      BY DEF OwnRow
    <2>1. review[u].wrote > 0
      BY DEF Answered, AnswerInv, CommitsNumbered, Updating
    <2>2. ASSUME OwnRow(u) PROVE Shown(schema[u], review[u].event)
      <3>1. TypeOK /\ u \in Threads /\ at[u] = "apply" /\ at'[u] = "idle"
        BY <2>2 DEF CatchUpInv, OwnRow, RefreshDone, Answered, Threads
      <3>2. rows[u] = {}
        <4>1. ~Restart
          BY <3>1 DEF Restart, TypeOK
        <4>2. UpdatePublish(u)
          BY <3>1, <4>1, ThreadsAssumption
          DEF Next, ReviewStep, UpdateStep, PipelineWrite, PollAgain, PollSchema,
              ReviewStart, ReviewLock, ReviewAbort, ReviewExecute, UpdateBegin,
              UpdateSelect, UpdateFail, UpdateApply, UpdateSkip, UpdatePublish,
              Return, vars, callVars, TypeOK, Threads
        <4> QED
          BY <4>2 DEF UpdatePublish
      <3>3. Taken(u)
        BY <2>2 DEF AnswerInv, OwnRowTaken
      <3> QED
        BY <3>2, <3>3 DEF Taken, Settled
    <2> QED
      BY <2>1, <2>2
  <1> QED
    BY <1>1, CatchUpInvariant, AnswerInvariant, PTL DEF Spec, AcknowledgedReview

-----------------------------------------------------------------------------
(***************************************************************************)
(* NeverBackwards.                                                         *)
(***************************************************************************)
(* The number of a row only grows.                                         *)
LEMMA TableRises ==
    ASSUME Base, CommitsNumbered, [Next]_vars
    PROVE  \A s \in Schemas, e \in Events : table[s][e] # None =>
                table'[s][e] # None /\ table'[s][e].ver >= table[s][e].ver
  <1> USE DEF Base
  <1> DEFINE Rises == \A s \in Schemas, e \in Events : table[s][e] # None =>
                table'[s][e] # None /\ table'[s][e].ver >= table[s][e].ver
  <1>1. ASSUME NEW s \in Schemas, NEW e \in Events, NEW ts \in Times,
               NEW ok \in BOOLEAN, Commit(s, e, ts, ok)
        PROVE  Rises
    <2>1. \A r \in Schemas, x \in Events : <<r, x>> # <<s, e>> =>
            table'[r][x] = table[r][x]
      BY <1>1, CommitEffect
    <2>2. table'[s][e] # None /\ table'[s][e].ver = writes + 1
      BY <1>1, CommitEffect, CommitVersion
    <2>3. table[s][e] # None => table[s][e].ver <= writes
      BY DEF CommitsNumbered
    <2> QED
      BY <2>1, <2>2, <2>3, Versions
  <1>2. CASE UNCHANGED table
    BY <1>2, Versions
  <1>3. ASSUME NEW s \in Schemas, NEW e \in Events, PipelineWrite(s, e)
        PROVE  Rises
    <2>1. PICK ts \in Stamps, ok \in BOOLEAN : Commit(s, e, ts, ok)
      BY <1>3 DEF PipelineWrite
    <2> QED
      BY <1>1, <2>1 DEF Stamps
  <1>4. ASSUME NEW u \in Reviewers, ReviewExecute(u) PROVE Rises
    <2>1. CASE Commit(schema[u], review[u].event, review[u].stamp,
                      table[schema[u]][review[u].event].ok)
      <3>1. PICK s \in Schemas, e \in Events, ts \in Times, ok \in BOOLEAN :
                Commit(s, e, ts, ok)
        BY <1>4, <2>1, ReviewedRow, Zenon
      <3> QED
        BY <1>1, <3>1
    <2> QED
      BY <1>2, <1>4, <2>1 DEF ReviewExecute
  <1> QED
    BY <1>2, <1>3, <1>4
    DEF Next, ReviewStep, UpdateStep, PollAgain, PollSchema, ReviewStart,
        ReviewLock, ReviewAbort, UpdateBegin, UpdateSelect, UpdateFail,
        UpdateApply, UpdateSkip, UpdatePublish, Restart, dbVars, vars

(* Rows in the cache and rows of a query are numbered.                     *)
LEMMA RowVersions ==
    ASSUME TypeOK
    PROVE  /\ \A s \in Schemas, e \in Events :
                cache[s][e] # None => cache[s][e].ver \in Nat
           /\ \A t \in Threads : \A x \in rows[t] :
                x.event \in Events /\ x.row \in Row /\ x.row.ver \in Nat
  <1>1. \A s \in Schemas, e \in Events :
            cache[s][e] # None => cache[s][e] \in Row
    BY DEF TypeOK
  <1>2. \A t \in Threads : \A x \in rows[t] : x.event \in Events /\ x.row \in Row
    BY DEF TypeOK
  <1> QED
    BY <1>1, <1>2 DEF Row

(* What all steps do but those of a query, of a row that is applied and of *)
(* a restart: the cache is left alone and no refresh gets more rows.       *)
Still ==
    /\ cache' = cache
    /\ \A s \in Schemas : ~overlapped'[s] => ~overlapped[s]
    /\ \A t \in Threads :
        /\ rows'[t] \subseteq rows[t]
        /\ rows'[t] # {} => schema'[t] = schema[t]

LEMMA StillKeeps ==
    ASSUME Base, VersionInv, [Next]_vars, Still
    PROVE  NoneAheadOfTable' /\ NoneAheadOfRefresh'
  <1> USE DEF Base
  <1>1. \A t \in Threads : rows[t] # {} => schema[t] \in Schemas /\ at[t] = "apply"
    BY KnownRows DEF PendingRows
  <1>2. ASSUME NEW s \in Schemas, NEW e \in Events
        PROVE  table[s][e] # None =>
                table'[s][e].ver >= table[s][e].ver /\ table[s][e].ver \in Nat
                /\ table'[s][e].ver \in Nat
    BY TableRises, NextType, Versions DEF VersionInv, TypeOK, Row
  <1>3. ASSUME NEW s \in Schemas, NEW e \in Events
        PROVE  cache[s][e] # None => cache[s][e].ver <= table'[s][e].ver
    BY <1>2, RowVersions DEF RowsExist, VersionInv, NoneAheadOfTable
  <1>4. ASSUME NEW t \in Threads, NEW x \in rows'[t]
        PROVE  /\ schema'[t] = schema[t] /\ x \in rows[t] /\ at[t] = "apply"
               /\ schema[t] \in Schemas
               /\ x.row.ver <= table'[schema[t]][x.event].ver
    <2>1. schema'[t] = schema[t] /\ x \in rows[t] /\ schema[t] \in Schemas
          /\ at[t] = "apply"
      BY <1>1, <1>4 DEF Still
    <2>2. table[schema[t]][x.event] # None
      BY <2>1 DEF RowsExist
    <2>3. x.row.ver <= table[schema[t]][x.event].ver /\ x.row.ver \in Nat
          /\ x.event \in Events
      BY <2>1, RowVersions DEF VersionInv, NoneAheadOfTable
    <2> QED
      BY <1>2, <2>1, <2>2, <2>3
  <1>5. NoneAheadOfTable'
    BY <1>3, <1>4 DEF NoneAheadOfTable, Still
  <1>6. NoneAheadOfRefresh'
    BY <1>4 DEF NoneAheadOfRefresh, VersionInv, Still
  <1> QED
    BY <1>5, <1>6

LEMMA StillSteps ==
    ASSUME Base,
           \/ \E s \in Schemas, e \in Events : PipelineWrite(s, e)
           \/ PollAgain \/ \E s \in Schemas : PollSchema(s)
           \/ \E u \in Reviewers, s \in Schemas, e \in Events : ReviewStart(u, s, e)
           \/ \E u \in Reviewers : ReviewStep(u)
           \/ \E t \in Threads :
                UpdateBegin(t) \/ UpdateFail(t) \/ UpdateSkip(t) \/ UpdatePublish(t)
           \/ UNCHANGED vars
    PROVE  Still
  <1> USE DEF Base
  <1>1. \A t \in Threads : at[t] # "apply" => rows[t] = {}
    BY DEF PendingRows
  <1>2. CASE \/ PollAgain \/ UNCHANGED vars
             \/ \E s \in Schemas, e \in Events : PipelineWrite(s, e)
    BY <1>2 DEF PollAgain, PipelineWrite, vars, dbVars, callVars, Still
  <1>3. ASSUME NEW s \in Schemas, PollSchema(s) PROVE Still
    BY <1>1, <1>3, ThreadsAssumption DEF PollSchema, dbVars, Still, TypeOK, Threads
  <1>4. ASSUME NEW u \in Reviewers,
               \/ \E s \in Schemas, e \in Events : ReviewStart(u, s, e)
               \/ ReviewStep(u)
        PROVE  Still
    BY <1>1, <1>4
    DEF ReviewStep, ReviewStart, ReviewLock, ReviewAbort, ReviewExecute, dbVars,
        Still, TypeOK, Threads
  <1>5. ASSUME NEW t \in Threads, UpdateBegin(t) PROVE Still
    BY <1>5 DEF UpdateBegin, dbVars, Still, TypeOK
  <1>6. ASSUME NEW t \in Threads, UpdateSkip(t) PROVE Still
    BY <1>6 DEF UpdateSkip, dbVars, Still, TypeOK
  <1>7. ASSUME NEW t \in Threads, UpdateFail(t) \/ UpdatePublish(t) PROVE Still
    BY <1>7 DEF UpdateFail, UpdatePublish, Return, dbVars, Still, TypeOK
  <1> QED
    BY <1>2, <1>3, <1>4, <1>5, <1>6, <1>7

(* The rows of a query are those of the table, which the cache is behind.  *)
LEMMA SelectVersions ==
    ASSUME Base, VersionInv, NEW t \in Threads, UpdateSelect(t)
    PROVE  NoneAheadOfTable' /\ NoneAheadOfRefresh'
  <1> USE DEF Base
  <1>1. /\ UNCHANGED <<table, cache, schema, overlapped>>
        /\ rows'[t] = NewerRows(schema[t], newest[t])
        /\ \A o \in Threads : o # t => rows'[o] = rows[o] /\ at'[o] = at[o]
        /\ schema[t] \in Schemas
    BY DEF UpdateSelect, TypeOK, dbVars
  <1>2. \A x \in rows'[t] : /\ x.event \in Events
                            /\ x.row = table[schema[t]][x.event]
                            /\ x.row # None
    BY <1>1 DEF NewerRows, Present
  <1>3. \A x \in rows'[t] : x.row.ver \in Nat
    BY <1>1, <1>2, Versions
  <1>4. NoneAheadOfTable'
    BY <1>1, <1>2, <1>3 DEF NoneAheadOfTable, VersionInv
  <1>5. NoneAheadOfRefresh'
    BY <1>1, <1>2, <1>3 DEF NoneAheadOfRefresh, NoneAheadOfTable, VersionInv
  <1> QED
    BY <1>4, <1>5

(* The row that is applied is behind the table, and no other pending row   *)
(* of the schema is for its event.                                         *)
LEMMA ApplyVersions ==
    ASSUME Base, OneRefresh, VersionInv, NEW t \in Threads, UpdateApply(t)
    PROVE  /\ NoneAheadOfTable' /\ NoneAheadOfRefresh'
           /\ \A s \in Schemas, e \in Events :
                cache[s][e] # None /\ ~overlapped[s] =>
                    cache'[s][e] # None /\ cache'[s][e].ver >= cache[s][e].ver
  <1> USE DEF Base
  <1>1. PICK x \in rows[t] :
            /\ rows' = [rows EXCEPT ![t] = @ \ {x}]
            /\ cache' = [cache EXCEPT ![schema[t]][x.event] = x.row]
    BY DEF UpdateApply, Store
  <1> DEFINE s == schema[t]
             e == x.event
  <1>2. /\ UNCHANGED <<table, at, schema, overlapped>>
        /\ at[t] = "apply" /\ s \in Schemas /\ e \in Events
        /\ x.row # None /\ x.row.ver \in Nat
    BY <1>1, KnownRows, RowVersions, NoneAssumption DEF UpdateApply, dbVars
  <1>3. /\ cache'[s][e] = x.row
        /\ \A r \in Schemas, y \in Events :
            <<r, y>> # <<s, e>> => cache'[r][y] = cache[r][y]
    BY <1>1, <1>2 DEF TypeOK
  <1>4. x.row.ver <= table[s][e].ver
    BY <1>1, <1>2 DEF VersionInv, NoneAheadOfTable
  <1>5. \A o \in Threads : rows'[o] \subseteq rows[o]
    BY <1>1 DEF TypeOK
  <1>6. NoneAheadOfTable'
    <2>1. ASSUME NEW r \in Schemas, NEW y \in Events, cache'[r][y] # None
          PROVE  cache'[r][y].ver <= table'[r][y].ver
      <3>1. CASE <<r, y>> = <<s, e>>
        BY <1>2, <1>3, <1>4, <3>1
      <3>2. CASE <<r, y>> # <<s, e>>
        BY <1>2, <1>3, <2>1, <3>2 DEF VersionInv, NoneAheadOfTable
      <3> QED
        BY <3>1, <3>2
    <2>2. ASSUME NEW r \in Schemas, NEW y \in Events, NEW o \in Threads,
                 schema'[o] = r, NEW z \in rows'[o], z.event = y
          PROVE  z.row.ver <= table'[r][y].ver
      BY <1>2, <1>5, <2>2 DEF VersionInv, NoneAheadOfTable
    <2> QED
      BY <2>1, <2>2 DEF NoneAheadOfTable
  <1>7. ASSUME NEW o \in Threads, at'[o] = "apply", ~overlapped'[schema'[o]],
               NEW z \in rows'[o], cache'[schema'[o]][z.event] # None
        PROVE  cache'[schema'[o]][z.event].ver <= z.row.ver
    <2>1. z \in rows[o] /\ schema'[o] = schema[o] /\ at[o] = "apply"
          /\ schema[o] \in Schemas /\ z.event \in Events /\ ~overlapped[schema[o]]
      BY <1>2, <1>5, <1>7, KnownRows
    <2>2. <<schema[o], z.event>> # <<s, e>>
      <3>1. SUFFICES ASSUME schema[o] = s, z.event = e PROVE FALSE
        OBVIOUS
      <3>2. o = t
        BY <1>2, <2>1, <3>1 DEF OneRefresh, Refreshing
      <3>3. z # x
        BY <1>1, <1>7, <3>2 DEF TypeOK
      <3> QED
        BY <1>1, <2>1, <3>1, <3>2, <3>3 DEF PendingRows
    <2>3. cache'[schema[o]][z.event] = cache[schema[o]][z.event]
      BY <1>3, <2>1, <2>2
    <2> QED
      BY <1>7, <2>1, <2>3 DEF VersionInv, NoneAheadOfRefresh
  <1>8. ASSUME NEW r \in Schemas, NEW y \in Events, cache[r][y] # None, ~overlapped[r]
        PROVE  cache'[r][y] # None /\ cache'[r][y].ver >= cache[r][y].ver
    <2>1. CASE <<r, y>> = <<s, e>>
      <3>1. cache[s][e].ver <= x.row.ver
        BY <1>1, <1>2, <1>8, <2>1 DEF VersionInv, NoneAheadOfRefresh
      <3> QED
        BY <1>2, <1>3, <1>8, <2>1, <3>1, RowVersions
    <2>2. CASE <<r, y>> # <<s, e>>
      BY <1>3, <1>8, <2>2, RowVersions
    <2> QED
      BY <2>1, <2>2
  <1> QED
    BY <1>6, <1>7, <1>8 DEF NoneAheadOfRefresh

(* What is loaded at a start are rows of the table, and nothing pends.     *)
LEMMA RestartVersions ==
    ASSUME Base, Restart
    PROVE  NoneAheadOfTable' /\ NoneAheadOfRefresh'
  <1> USE DEF Base
  <1>1. PICK L \in Loads :
            cache' = [s \in Schemas |-> LoadedEvents(table[s], L[s])]
    BY DEF Restart
  <1>2. \A s \in Schemas, e \in Events :
            cache'[s][e] # None => cache'[s][e] = table[s][e]
    <2>1. \A s \in Schemas : table[s] \in [Events -> Row \union {None}]
      BY DEF TypeOK
    <2> QED
      BY <1>1, <2>1, LoadedEventsType
  <1>3. table' = table /\ \A t \in Threads : rows'[t] = {}
    BY DEF Restart
  <1> QED
    BY <1>2, <1>3, Versions DEF NoneAheadOfTable, NoneAheadOfRefresh

LEMMA InitVersions == Init => VersionInv
  <1> SUFFICES ASSUME Init PROVE VersionInv
    OBVIOUS
  <1>1. Base
    BY InitBase
  <1>2. PICK L \in Loads :
            cache = [s \in Schemas |-> LoadedEvents(table[s], L[s])]
    BY DEF Init
  <1>3. \A s \in Schemas, e \in Events :
            cache[s][e] # None => cache[s][e] = table[s][e]
    <2>1. \A s \in Schemas : table[s] \in [Events -> Row \union {None}]
      BY <1>1 DEF Base, TypeOK
    <2> QED
      BY <1>2, <2>1, LoadedEventsType
  <1>4. \A t \in Threads : rows[t] = {}
    BY DEF Init, NoCalls
  <1>5. CommitsNumbered
    BY ThreadsAssumption
    DEF Init, NoCalls, InitialRow, CommitsNumbered, Updating, Threads
  <1> QED
    BY <1>1, <1>3, <1>4, <1>5, Versions
    DEF Base, VersionInv, NoneAheadOfTable, NoneAheadOfRefresh

LEMMA NextVersions ==
    ASSUME CatchUpInv, VersionInv, [Next]_vars
    PROVE  VersionInv'
  <1>1. Base /\ OneRefresh
    BY DEF CatchUpInv, Base
  <1>2. CommitsNumbered'
    BY <1>1, NumbersKept DEF VersionInv
  <1>3. NoneAheadOfTable' /\ NoneAheadOfRefresh'
    <2>1. CASE Still
      BY <1>1, <2>1, StillKeeps
    <2>2. ASSUME NEW t \in Threads, UpdateSelect(t) \/ UpdateApply(t)
          PROVE  NoneAheadOfTable' /\ NoneAheadOfRefresh'
      BY <1>1, <2>2, SelectVersions, ApplyVersions
    <2>3. CASE Restart
      BY <1>1, <2>3, RestartVersions
    <2> QED
      BY <1>1, <2>1, <2>2, <2>3, StillSteps DEF Next, UpdateStep
  <1> QED
    BY <1>2, <1>3 DEF VersionInv

(* What the front ends have been shown of an event is only replaced by a   *)
(* later commit, whatever fails and whoever refreshes, as long as no two   *)
(* refreshes of its schema overlap and the process is not restarted.       *)
THEOREM NeverBackwardsHolds == Spec => NeverBackwards
  <1>1. Spec => []VersionInv
    BY InitVersions, NextVersions, CatchUpInvariant, PTL DEF Spec
  <1> DEFINE Forward ==
        restarts' = restarts => \A s \in Schemas, e \in Events :
            cache[s][e] # None /\ ~overlapped[s] =>
                cache'[s][e] # None /\ cache'[s][e].ver >= cache[s][e].ver
  <1>2. CatchUpInv /\ VersionInv /\ [Next]_vars => [Forward]_vars
    <2> SUFFICES ASSUME CatchUpInv, VersionInv, [Next]_vars, restarts' = restarts,
                        NEW s \in Schemas, NEW e \in Events,
                        cache[s][e] # None, ~overlapped[s]
                 PROVE  cache'[s][e] # None /\ cache'[s][e].ver >= cache[s][e].ver
      OBVIOUS
    <2>1. Base /\ OneRefresh
      BY DEF CatchUpInv, Base
    <2>2. CASE UNCHANGED cache
      BY <2>1, <2>2, RowVersions DEF Base
    <2>3. ASSUME NEW t \in Threads, UpdateApply(t)
          PROVE  cache'[s][e] # None /\ cache'[s][e].ver >= cache[s][e].ver
      BY <2>1, <2>3, ApplyVersions
    <2>4. ~Restart
      BY <2>1 DEF Restart, Base, TypeOK
    <2> QED
      BY <2>1, <2>2, <2>3, <2>4, StillSteps
      DEF Next, UpdateStep, UpdateSelect, Still
  <1> QED
    BY <1>1, <1>2, CatchUpInvariant, PTL DEF Spec, NeverBackwards
=============================================================================
