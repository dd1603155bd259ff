----------------------- MODULE AQMSPostgresClientProofs -----------------------
(***************************************************************************)
(* Proofs about AQMSPostgresClient: type correctness for any number of     *)
(* threads, and for a single request thread that an origin has one coda    *)
(* magnitude, that the preferred magnitude exists, and that every call has *)
(* its whole effect on the tables or none, as AQMSEvent promises.          *)
(***************************************************************************)
EXTENDS AQMSPostgresClient, TLAPS

-----------------------------------------------------------------------------
(***************************************************************************)
(* The statements keep the tables well formed.                             *)
(***************************************************************************)
(* What a database is made of.                                             *)
LEMMA DatabaseFields ==
    ASSUME NEW d \in Database
    PROVE  /\ d.prefor \in Origins
           /\ d.prefmag \in Ids \union {NoMagnitude}
           /\ d.netmag \in [Ids -> Row \union {Absent}]
           /\ d.listed \in SUBSET (Ids \union {FalseId})
           /\ d = [prefor |-> d.prefor, prefmag |-> d.prefmag,
                   netmag |-> d.netmag, listed |-> d.listed]
BY DEF Database

LEMMA InsertType ==
    ASSUME NEW d \in Database, NEW i \in Ids, NEW o \in Origins, NEW v \in Values
    PROVE  InsertNetMag(d, i, o, v) \in Database
<1> DEFINE n == [d.netmag EXCEPT ![i] = [orid |-> o, coda |-> TRUE, val |-> v]]
<1>1. n \in [Ids -> Row \union {Absent}]
  BY DEF Database, Row
<1>2. InsertNetMag(d, i, o, v) = [d EXCEPT !.netmag = n]
  BY DEF InsertNetMag
<1> QED  BY <1>1, <1>2 DEF Database

LEMMA UpdateType ==
    ASSUME NEW d \in Database, NEW i, NEW v \in Values
    PROVE  UpdateNetMag(d, i, v) \in Database
<1> DEFINE n == [j \in Ids |->
        IF j = i /\ d.netmag[j] # Absent
        THEN [orid |-> d.netmag[j].orid, coda |-> TRUE, val |-> v]
        ELSE d.netmag[j]]
<1>1. n \in [Ids -> Row \union {Absent}]
  BY DEF Database, Row
<1>2. UpdateNetMag(d, i, v) = [d EXCEPT !.netmag = n]
  BY DEF UpdateNetMag
<1> QED  BY <1>1, <1>2 DEF Database

LEMMA DeleteType ==
    ASSUME NEW d \in Database, NEW i
    PROVE  DeleteNetMag(d, i) \in Database
<1> DEFINE n == [j \in Ids |->
        IF j = i /\ j \in Existing(d) /\ d.netmag[j].coda
        THEN Absent ELSE d.netmag[j]]
<1>1. n \in [Ids -> Row \union {Absent}]
  BY DEF Database
<1>2. DeleteNetMag(d, i) = [d EXCEPT !.netmag = n, !.listed = d.listed \ {i}]
  BY DEF DeleteNetMag
<1> QED  BY <1>1, <1>2 DEF Database

(* The procedures that choose a preferred magnitude change nothing else.   *)
LEMMA ChosenType ==
    ASSUME NEW d \in Database, NEW e,
           \/ e \in SetPrefMagOfEvent(d)
           \/ \E p : e \in SetPrefMag(d, p)
           \/ e \in SetPrefMagOfEventByPrefor(d)
    PROVE  /\ e \in Database
           /\ e.netmag = d.netmag
           /\ e.prefmag \in Existing(d) \union {NoMagnitude, d.prefmag}
<1>1. PICK q : e = [d EXCEPT !.prefmag = q]
               /\ q \in Existing(d) \union {NoMagnitude, d.prefmag}
  BY DEF SetPrefMagOfEvent, SetPrefMag, SetPrefMagOfEventByPrefor
<1>2. q \in Ids \union {NoMagnitude}
  BY <1>1 DEF Existing, Database
<1> QED  BY <1>1, <1>2 DEF Database

(* The choice by preferred origin is always one that exists, or none.      *)
LEMMA ByPreforExists ==
    ASSUME NEW d \in Database, NEW e \in SetPrefMagOfEventByPrefor(d)
    PROVE  PreferredIn(e)
<1> DEFINE candidates == {i \in Existing(d) : d.netmag[i].orid = d.prefor}
<1>1. PICK q \in IF candidates = {} THEN {NoMagnitude} ELSE candidates :
        e = [d EXCEPT !.prefmag = q]
  BY DEF SetPrefMagOfEventByPrefor
<1>2. e.prefmag = q /\ e.netmag = d.netmag
  BY <1>1 DEF Database
<1>3. Existing(e) = Existing(d)
  BY <1>2 DEF Existing
<1>4. q \in Existing(d) \union {NoMagnitude}
  BY <1>1
<1> QED  BY <1>2, <1>3, <1>4 DEF PreferredIn

-----------------------------------------------------------------------------
(***************************************************************************)
(* Types.                                                                  *)
(***************************************************************************)
(* The types of what a call keeps for itself, and of the rest.             *)
LocalsOK ==
    /\ op \in [Threads -> Operations]
    /\ at \in [Threads -> Places]
    /\ orid \in [Threads -> Origins \union {Absent}]
    /\ val \in [Threads -> Values \union {Absent}]
    /\ id \in [Threads -> Ids \union {FalseId, NoMagnitude}]
    /\ found \in [Threads -> BOOLEAN]
    /\ pref \in [Threads -> Ids \union {NoMagnitude}]
    /\ sure \in [Threads -> BOOLEAN]
SharedOK ==
    /\ aqms \in Database /\ working \in Database
    /\ tx \in {"none", "open", "aborted"}
    /\ next \in Nat /\ others \in 0..MaxOthers
    /\ excused \subseteq {"insert", "delete"}

LEMMA TypeParts == TypeOK <=> SharedOK /\ LocalsOK
BY DEF TypeOK, SharedOK, LocalsOK

LEMMA ViewType == SharedOK => View \in Database
BY DEF SharedOK, View

(* What the two ways to execute a statement do to the tables.              *)
LEMMA WriteType ==
    ASSUME NEW d \in Database, Write(d), SharedOK
    PROVE  /\ aqms' \in Database /\ working' \in Database
           /\ tx' \in {"none", "open", "aborted"}
BY DEF Write, SharedOK

LEMMA RollbackType ==
    ASSUME Rollback, SharedOK
    PROVE  /\ aqms' \in Database /\ working' \in Database
           /\ tx' \in {"none", "open", "aborted"}
BY DEF Rollback, SharedOK

LEMMA QueryType ==
    ASSUME NEW answered \in BOOLEAN, Query(answered), SharedOK
    PROVE  /\ aqms' \in Database /\ working' \in Database
           /\ tx' \in {"none", "open", "aborted"}
           /\ aqms' = aqms /\ working' = working
BY DEF Query, SharedOK

LEMMA StartCallType ==
    ASSUME LocalsOK, ArgumentsOK, NEW t \in Threads, NEW o \in Operations,
           NEW origin \in Origins \union {Absent},
           NEW v \in Values \union {Absent},
           NEW i \in Ids \union {FalseId, NoMagnitude},
           o = "insert" => origin \in Origins,
           o \in {"insert", "update"} => v \in Values,
           o = "update" => i # NoMagnitude,
           StartCall(t, o, origin, v, i)
    PROVE  LocalsOK' /\ ArgumentsOK'
<1>1. LocalsOK'
  BY DEF LocalsOK, StartCall, Goto, Places
<1>2. ArgumentsOK'
  BY DEF LocalsOK, ArgumentsOK, StartCall, Goto, ChangePlaces, Changes, Operations
<1> QED  BY <1>1, <1>2

LEMMA CallType ==
    ASSUME TypeInv, NEW t \in Threads, Call(t)
    PROVE  TypeInv'
<1>1. SharedOK' /\ LocalsOK /\ ArgumentsOK
  BY TypeParts DEF TypeInv, Call, aqmsVars, SharedOK
<1>2. CodaOfEvent(View) \subseteq Ids
  BY DEF CodaOfEvent, Codas, Existing
<1>3. ASSUME ReadCall(t) PROVE LocalsOK' /\ ArgumentsOK'
  <2>1. PICK o \in {"origin", "find", "exists", "delete"} :
            StartCall(t, o, Absent, Absent, NoMagnitude)
    BY <1>3 DEF ReadCall
  <2>2. o \in Operations /\ o \notin {"insert", "update"}
    BY DEF Operations
  <2> QED  BY <1>1, <2>1, <2>2, StartCallType
<1>4. ASSUME InsertCall(t) PROVE LocalsOK' /\ ArgumentsOK'
  <2>1. PICK o \in Origins, v \in Values :
            StartCall(t, "insert", o, v, NoMagnitude)
    BY <1>4 DEF InsertCall
  <2>2. "insert" \in Operations
    BY DEF Operations
  <2> QED  BY <1>1, <2>1, <2>2, StartCallType
<1>5. ASSUME UpdateCall(t) PROVE LocalsOK' /\ ArgumentsOK'
  <2>1. PICK v \in Values, i \in CodaOfEvent(View) \union {FalseId} :
            StartCall(t, "update", Absent, v, i)
    BY <1>5 DEF UpdateCall
  <2>2. /\ "update" \in Operations /\ i \in Ids \union {FalseId, NoMagnitude}
        /\ i # NoMagnitude
    BY <1>2, BoundsAssumption DEF Operations, Ids, FalseId, NoMagnitude
  <2> QED  BY <1>1, <2>1, <2>2, StartCallType
<1>6. LocalsOK' /\ ArgumentsOK' => TypeInv'
  BY <1>1 DEF TypeInv, TypeOK, SharedOK, LocalsOK
<1> QED  BY <1>3, <1>4, <1>5, <1>6 DEF Call

(* A step within a call changes the tables and at most these locals; the   *)
(* arguments stay.                                                         *)
LEMMA ReadType ==
    ASSUME TypeInv, NEW t \in Threads,
           \/ ReadOrigin(t) \/ ReadExistence(t) \/ ReadIdentifier(t)
           \/ ReadPreferred(t)
    PROVE  TypeInv' /\ aqms' = aqms /\ working' = working
<1>1. SharedOK /\ LocalsOK /\ ArgumentsOK /\ View \in Database
  BY TypeParts, ViewType DEF TypeInv
<1>2. View.prefor \in Origins /\ View.prefmag \in Ids \union {NoMagnitude}
  BY <1>1, DatabaseFields
<1>3. PICK answered \in BOOLEAN : Query(answered)
  BY DEF ReadOrigin, ReadExistence, ReadIdentifier, ReadPreferred
<1>4. SharedOK' /\ aqms' = aqms /\ working' = working
  BY <1>1, <1>3, QueryType
  DEF SharedOK, ReadOrigin, ReadExistence, ReadIdentifier, ReadPreferred
<1>5. /\ op' = op /\ val' = val
      /\ orid' = orid \/ orid' = [orid EXCEPT ![t] = View.prefor]
  <2>1. CASE ReadOrigin(t)
    BY <1>1, <2>1 DEF ReadOrigin, LocalsOK
  <2>2. CASE ReadExistence(t) \/ ReadIdentifier(t) \/ ReadPreferred(t)
    BY <2>2 DEF ReadExistence, ReadIdentifier, ReadPreferred
  <2> QED  BY <2>1, <2>2
<1>6. orid' \in [Threads -> Origins \union {Absent}] /\ ArgumentsOK'
  <2>1. orid' \in [Threads -> Origins \union {Absent}]
    BY <1>1, <1>2, <1>5 DEF LocalsOK
  <2>2. ASSUME NEW u \in Threads
        PROVE  /\ op[u] = "insert" => orid'[u] \in Origins
               /\ at'[u] \in {"prefer", "record"} => u # t /\ at'[u] = at[u]
               /\ u # t => at'[u] = at[u] /\ id'[u] = id[u]
               /\ op[u] = "update" => id'[u] = id[u]
               /\ at'[u] = "find" => op[u] \in {"find", "delete"}
               /\ at'[u] = "exists" => at[u] = "exists"
               /\ at'[u] \in ChangePlaces => op[u] \in Changes
               /\ at'[u] # "record" \/ at'[u] = at[u]
    <3>1. op[u] = "insert" => orid'[u] \in Origins
      BY <1>1, <1>2, <1>5 DEF LocalsOK, ArgumentsOK
    <3>2. u # t => at'[u] = at[u] /\ id'[u] = id[u]
      BY <1>1 DEF LocalsOK, ReadOrigin, ReadExistence, ReadIdentifier,
                  ReadPreferred, Goto
    <3>3. at'[t] \notin {"exists", "prefer", "record"} /\ at'[t] # "record"
      BY <1>1 DEF LocalsOK, ReadOrigin, ReadExistence, ReadIdentifier,
                  ReadPreferred, Goto, AfterExists
    <3>4. op[t] = "update" => id'[t] = id[t]
      BY <1>1 DEF LocalsOK, ArgumentsOK, ReadOrigin, ReadExistence,
                  ReadIdentifier, ReadPreferred
    <3>5. at'[t] = "find" => op[t] \in {"find", "delete"}
      BY <1>1 DEF LocalsOK, ReadOrigin, ReadExistence, ReadIdentifier,
                  ReadPreferred, Goto, AfterExists, Operations
    <3>6. at'[u] = "find" => op[u] \in {"find", "delete"}
      BY <1>1, <3>2, <3>5 DEF ArgumentsOK
    <3>7. at'[t] \in ChangePlaces => op[t] \in Changes
      BY <1>1 DEF LocalsOK, ArgumentsOK, ReadOrigin, ReadExistence,
                  ReadIdentifier, ReadPreferred, Goto, AfterExists, Operations,
                  Changes, ChangePlaces
    <3>8. at'[u] \in ChangePlaces => op[u] \in Changes
      BY <1>1, <3>2, <3>7 DEF ArgumentsOK
    <3>9. at'[u] # "record" \/ at'[u] = at[u]
      BY <3>2, <3>3
    <3>10. at'[u] \in {"prefer", "record"} => u # t /\ at'[u] = at[u]
      BY <3>2, <3>3
    <3>11. /\ u # t => at'[u] = at[u] /\ id'[u] = id[u]
           /\ op[u] = "update" => id'[u] = id[u]
           /\ at'[u] = "exists" => at[u] = "exists"
      BY <3>2, <3>3, <3>4
    <3> QED  BY <3>1, <3>6, <3>8, <3>9, <3>10, <3>11
  <2>3. ArgumentsOK'
    BY <1>1, <1>5, <2>2 DEF ArgumentsOK
  <2> QED  BY <2>1, <2>3
<1>7. at' \in [Threads -> Places]
  BY <1>1 DEF LocalsOK, ReadOrigin, ReadExistence, ReadIdentifier, ReadPreferred,
              Goto, Places, AfterExists
<1>8. id' \in [Threads -> Ids \union {FalseId, NoMagnitude}]
  BY <1>1 DEF LocalsOK, ReadOrigin, ReadExistence, ReadIdentifier, ReadPreferred
<1>9. pref' \in [Threads -> Ids \union {NoMagnitude}]
  BY <1>1, <1>2
  DEF LocalsOK, ReadOrigin, ReadExistence, ReadIdentifier, ReadPreferred
<1>10. found' \in [Threads -> BOOLEAN] /\ sure' \in [Threads -> BOOLEAN]
  <2>1. CASE ReadExistence(t)
    <3>1. PICK b \in BOOLEAN :
            /\ found' = [found EXCEPT ![t] = b /\ CodaOfEvent(View) # {}]
            /\ sure' = [sure EXCEPT ![t] = b /\ View.prefor = orid[t]]
      BY <2>1 DEF ReadExistence
    <3>2. PICK x, y \in BOOLEAN : /\ found' = [found EXCEPT ![t] = x]
                                  /\ sure' = [sure EXCEPT ![t] = y]
      BY <3>1
    <3> QED  BY <1>1, <3>2 DEF LocalsOK
  <2>2. CASE ReadOrigin(t) \/ ReadIdentifier(t) \/ ReadPreferred(t)
    BY <1>1, <2>2 DEF LocalsOK, ReadOrigin, ReadIdentifier, ReadPreferred
  <2> QED  BY <2>1, <2>2
<1>11. LocalsOK'
  BY <1>1, <1>5, <1>6, <1>7, <1>8, <1>9, <1>10 DEF LocalsOK
<1> QED  BY <1>4, <1>6, <1>11 DEF TypeInv, TypeOK, SharedOK, LocalsOK

(* Steps that keep the locals, but for the place.                          *)
LEMMA PlainType ==
    ASSUME TypeInv, NEW t \in Threads, NEW place \in Places,
           at' = [at EXCEPT ![t] = place],
           UNCHANGED <<next, others, localVars>>,
           excused' \subseteq {"insert", "delete"},
           aqms' \in Database, working' \in Database,
           tx' \in {"none", "open", "aborted"},
           place # "find", place # "exists",
           place \in ChangePlaces => op[t] \in Changes,
           place = "record" => op[t] # "delete",
           op[t] = "insert" /\ place \in {"prefer", "record"}
               => id[t] # NoMagnitude
    PROVE  TypeInv'
BY DEF TypeInv, TypeOK, ArgumentsOK, localVars

LEMMA StatementType ==
    ASSUME TypeInv, NEW t \in Threads,
           \/ UpdateMagnitude(t) \/ DeleteMagnitude(t)
           \/ Prefer(t) \/ Replace(t) \/ Record(t)
    PROVE  TypeInv'
<1>1. SharedOK /\ LocalsOK /\ ArgumentsOK /\ View \in Database
  BY TypeParts, ViewType DEF TypeInv
<1>2. PICK d \in Database : Write(d)
  <2>1. CASE UpdateMagnitude(t)
    <3>1. val[t] \in Values
      BY <1>1, <2>1 DEF ArgumentsOK, UpdateMagnitude
    <3> QED  BY <1>1, <2>1, <3>1, UpdateType DEF UpdateMagnitude
  <2>2. CASE DeleteMagnitude(t)
    BY <1>1, <2>2, DeleteType DEF DeleteMagnitude
  <2>3. CASE Prefer(t)
    BY <1>1, <2>3, ChosenType DEF Prefer
  <2>4. CASE Replace(t)
    BY <1>1, <2>4, ChosenType DEF Replace
  <2>5. CASE Record(t)
    <3>1. PICK l \in Listings(t) : Write([View EXCEPT !.listed = l])
      BY <2>5 DEF Record
    <3>2. id[t] \in Ids \union {FalseId}
      BY <1>1, <2>5 DEF ArgumentsOK, LocalsOK, Record, ChangePlaces, Changes
    <3>3. [View EXCEPT !.listed = l] \in Database
      BY <1>1, <3>2 DEF Listings, Database
    <3> QED  BY <3>1, <3>3
  <2> QED  BY <2>1, <2>2, <2>3, <2>4, <2>5
<1>3. /\ aqms' \in Database /\ working' \in Database
      /\ tx' \in {"none", "open", "aborted"}
  BY <1>1, <1>2, WriteType
<1>4. /\ UNCHANGED <<next, others, localVars>>
      /\ excused' \subseteq {"insert", "delete"}
  BY <1>1 DEF SharedOK, UpdateMagnitude, DeleteMagnitude, Prefer, Replace, Record
<1>5. \E place \in Places :
          /\ at' = [at EXCEPT ![t] = place] /\ place \notin {"find", "exists"}
          /\ place \in ChangePlaces => op[t] \in Changes
          /\ place = "record" => op[t] # "delete"
          /\ op[t] = "insert" /\ place \in {"prefer", "record"}
                => id[t] # NoMagnitude
  BY <1>1 DEF ArgumentsOK, ChangePlaces, Changes, UpdateMagnitude, DeleteMagnitude, Prefer, Replace, Record, Goto, Places
<1> QED  BY <1>3, <1>4, <1>5, PlainType

LEMMA InsertStepType ==
    ASSUME TypeInv, NEW t \in Threads, InsertMagnitude(t)
    PROVE  TypeInv'
<1>1. SharedOK /\ LocalsOK /\ ArgumentsOK /\ View \in Database
  BY TypeParts, ViewType DEF TypeInv
<1>2. /\ orid[t] \in Origins /\ val[t] \in Values /\ next \in Ids
      /\ Write(InsertNetMag(View, next, orid[t], val[t]))
  BY <1>1 DEF InsertMagnitude, ArgumentsOK
<1>3. /\ aqms' \in Database /\ working' \in Database
      /\ tx' \in {"none", "open", "aborted"}
  BY <1>1, <1>2, InsertType, WriteType
<1>4. SharedOK'
  BY <1>1, <1>3 DEF InsertMagnitude, SharedOK
<1>5. LocalsOK'
  BY <1>1, <1>2 DEF InsertMagnitude, LocalsOK, Goto, Places
<1>6. ArgumentsOK'
  BY <1>1, <1>2, BoundsAssumption
  DEF InsertMagnitude, LocalsOK, ArgumentsOK, Goto, ChangePlaces, Changes, Ids,
      NoMagnitude
<1> QED  BY <1>4, <1>5, <1>6 DEF TypeInv, TypeOK, SharedOK, LocalsOK

LEMMA EndType ==
    ASSUME TypeInv, NEW t \in Threads,
           \/ ConnectionBroken(t) \/ BeginTransaction(t)
           \/ Commit(t) \/ StatementFails(t)
    PROVE  TypeInv'
<1>1. SharedOK /\ LocalsOK /\ ArgumentsOK /\ View \in Database
  BY TypeParts, ViewType DEF TypeInv
<1>2. /\ aqms' \in Database /\ working' \in Database
      /\ tx' \in {"none", "open", "aborted"}
  BY <1>1, RollbackType
  DEF SharedOK, ConnectionBroken, BeginTransaction, Commit, StatementFails
<1>3. /\ UNCHANGED <<next, others, localVars>>
      /\ excused' \subseteq {"insert", "delete"}
  BY <1>1 DEF SharedOK, ConnectionBroken, BeginTransaction, Commit,
              StatementFails
<1>4. \E place \in Places :
          /\ at' = [at EXCEPT ![t] = place] /\ place \notin {"find", "exists"}
          /\ place \in ChangePlaces => op[t] \in Changes
          /\ place \notin {"prefer", "record"}
  BY <1>1 DEF ArgumentsOK, ChangePlaces, Changes, ConnectionBroken,
              BeginTransaction, Commit, StatementFails, Goto, Places
<1> QED  BY <1>2, <1>3, <1>4, PlainType

LEMMA NextType == TypeInv /\ [Next]_clientVars => TypeInv'
<1> SUFFICES ASSUME TypeInv, [Next]_clientVars PROVE TypeInv'
  OBVIOUS
<1>1. ASSUME NEW t \in Threads, Call(t) PROVE TypeInv'
  BY <1>1, CallType
<1>2. ASSUME NEW t \in Threads, ClientStep(t) PROVE TypeInv'
  BY <1>2, ReadType, StatementType, InsertStepType, EndType DEF ClientStep
<1>3. ASSUME NEW t \in Threads, EndCall(t) PROVE TypeInv'
  <2>1. SharedOK' /\ LocalsOK /\ ArgumentsOK
    BY <1>3, TypeParts DEF TypeInv, EndCall, aqmsVars, SharedOK
  <2>2. LocalsOK' /\ ArgumentsOK'
    BY <1>3, <2>1, StartCallType DEF EndCall, Operations
  <2> QED  BY <2>1, <2>2 DEF TypeInv, TypeOK, SharedOK, LocalsOK
<1>4. ASSUME NEW d \in Database, Elsewhere(d) PROVE TypeInv'
  BY <1>4, BoundsAssumption DEF Elsewhere, TypeInv, TypeOK, ArgumentsOK
<1>5. CASE Relocate
  <2>1. PICK o \in Origins : Elsewhere([aqms EXCEPT !.prefor = o])
    BY <1>5 DEF Relocate
  <2>2. [aqms EXCEPT !.prefor = o] \in Database
    BY DEF TypeInv, TypeOK, Database
  <2> QED  BY <1>4, <2>1, <2>2
<1>6. CASE PreferOther
  <2>1. PICK p \in Existing(aqms) : Elsewhere([aqms EXCEPT !.prefmag = p])
    BY <1>6 DEF PreferOther
  <2>2. [aqms EXCEPT !.prefmag = p] \in Database
    BY DEF TypeInv, TypeOK, Database, Existing
  <2> QED  BY <1>4, <2>1, <2>2
<1>7. CASE Die
  BY <1>7 DEF Die, Rollback, TypeInv, TypeOK, ArgumentsOK, Operations, Places,
              ChangePlaces
<1>8. CASE UNCHANGED clientVars
  BY <1>8 DEF clientVars, TypeInv, TypeOK, ArgumentsOK
<1> QED  BY <1>1, <1>2, <1>3, <1>5, <1>6, <1>7, <1>8 DEF Next

LEMMA InitType == Init => TypeInv
<1> SUFFICES ASSUME Init PROVE TypeInv
  OBVIOUS
<1>1. aqms \in Database
  <2>1. 1..Older \subseteq Ids
    BY BoundsAssumption DEF Ids
  <2>2. PICK f \in [1..Older -> Row \union {Absent}] :
            aqms.netmag = [i \in Ids |-> IF i <= Older THEN f[i] ELSE Absent]
    BY DEF Init, InitialTables
  <2>3. aqms.netmag \in [Ids -> Row \union {Absent}]
    BY <2>2, BoundsAssumption DEF Ids
  <2> QED  BY <2>1, <2>3 DEF Init, InitialTables, Database
<1>2. next \in Nat /\ others \in 0..MaxOthers
  BY BoundsAssumption DEF Init
<1> QED  BY <1>1, <1>2 DEF Init, NoCalls, TypeInv, TypeOK, ArgumentsOK,
                           Operations, Places, ChangePlaces

(* Type correctness, for any number of threads.                            *)
THEOREM TypeCorrect == Spec => []TypeOK
<1>1. TypeInv => TypeOK
  BY DEF TypeInv
<1> QED  BY InitType, NextType, <1>1, PTL DEF Spec

-----------------------------------------------------------------------------
(***************************************************************************)
(* What the statements do to coda and preferred magnitudes.                *)
(***************************************************************************)
(* Both notions look at netmag and prefmag only.                           *)
LEMMA SameRows ==
    ASSUME NEW d, NEW e, e.netmag = d.netmag
    PROVE  /\ Existing(e) = Existing(d)
           /\ \A o : Codas(e, o) = Codas(d, o)
           /\ OneCodaIn(e) <=> OneCodaIn(d)
           /\ \A i : CodaIfAny(e, i) <=> CodaIfAny(d, i)
<1>1. Existing(e) = Existing(d)
  BY DEF Existing
<1>2. \A o : Codas(e, o) = Codas(d, o)
  BY <1>1 DEF Codas
<1> QED  BY <1>1, <1>2 DEF OneCodaIn, CodaIfAny

(* One coda magnitude is added to an origin that has none.                 *)
LEMMA InsertEffect ==
    ASSUME NEW d \in Database, NEW i \in Ids, NEW o \in Origins, NEW v \in Values
    PROVE  LET e == InsertNetMag(d, i, o, v) IN
           /\ PreferredIn(d) => PreferredIn(e)
           /\ OneCodaIn(d) /\ Codas(d, o) = {} => OneCodaIn(e)
<1> DEFINE row == [orid |-> o, coda |-> TRUE, val |-> v]
           e == InsertNetMag(d, i, o, v)
<1>1. /\ e.netmag = [d.netmag EXCEPT ![i] = row] /\ e.prefmag = d.prefmag
      /\ d.netmag \in [Ids -> Row \union {Absent}] /\ row \in Row
  BY DEF InsertNetMag, Database, Row
<1>2. row # Absent /\ row.orid = o
  BY <1>1, AbsentAssumption
<1>3. Existing(e) = Existing(d) \union {i}
  BY <1>1, <1>2 DEF Existing
<1>4. \A j \in Ids : j # i => e.netmag[j] = d.netmag[j]
  BY <1>1
<1>5. e.netmag[i].orid = o
  BY <1>1, <1>2
<1>6. \A p : Codas(e, p) \subseteq Codas(d, p) \union {i}
  BY <1>3, <1>4 DEF Codas, Existing
<1>7. \A p : p # o => Codas(e, p) \subseteq Codas(d, p)
  BY <1>3, <1>4, <1>5 DEF Codas, Existing
<1>8. ASSUME OneCodaIn(d), Codas(d, o) = {} PROVE OneCodaIn(e)
  BY <1>6, <1>7, <1>8 DEF OneCodaIn
<1>9. PreferredIn(d) => PreferredIn(e)
  BY <1>1, <1>3 DEF PreferredIn
<1> QED  BY <1>8, <1>9

(* An update makes no row and, of a coda magnitude, none that was not one. *)
LEMMA UpdateEffect ==
    ASSUME NEW d \in Database, NEW i, NEW v \in Values
    PROVE  LET e == UpdateNetMag(d, i, v) IN
           /\ PreferredIn(d) => PreferredIn(e)
           /\ CodaIfAny(e, i)
           /\ OneCodaIn(d) /\ CodaIfAny(d, i) => OneCodaIn(e)
<1> DEFINE e == UpdateNetMag(d, i, v)
           row(j) == [orid |-> d.netmag[j].orid, coda |-> TRUE, val |-> v]
<1>1. /\ e.netmag = [j \in Ids |-> IF j = i /\ d.netmag[j] # Absent
                                   THEN row(j) ELSE d.netmag[j]]
      /\ e.prefmag = d.prefmag
      /\ d.netmag \in [Ids -> Row \union {Absent}]
  BY DEF UpdateNetMag, Database
<1>2. \A j \in Ids : j \in Existing(d) => row(j) \in Row /\ row(j).orid = d.netmag[j].orid
  BY <1>1 DEF Existing, Row
<1>3. \A j \in Ids : d.netmag[j] # Absent => row(j) # Absent
  BY <1>2, AbsentAssumption DEF Existing
<1>4. Existing(e) = Existing(d)
  BY <1>1, <1>3 DEF Existing
<1>5. \A j \in Existing(e) : e.netmag[j].orid = d.netmag[j].orid
  BY <1>1, <1>2, <1>4 DEF Existing
<1>6. \A j \in Ids : j # i => e.netmag[j] = d.netmag[j]
  BY <1>1
<1>7. \A j \in Existing(e) : j = i => e.netmag[j].coda
  BY <1>1, <1>4 DEF Existing
<1>8. CodaIfAny(e, i)
  BY <1>7 DEF CodaIfAny
<1>9. ASSUME CodaIfAny(d, i) PROVE \A o : Codas(e, o) \subseteq Codas(d, o)
  <2>1. ASSUME NEW o, NEW j \in Codas(e, o) PROVE j \in Codas(d, o)
    <3>1. j \in Existing(d) /\ j \in Ids /\ d.netmag[j].orid = o
      BY <2>1, <1>4, <1>5 DEF Codas, Existing
    <3>2. d.netmag[j].coda
      BY <2>1, <3>1, <1>6, <1>9 DEF Codas, CodaIfAny
    <3> QED  BY <3>1, <3>2 DEF Codas
  <2> QED  BY <2>1
<1>10. ASSUME OneCodaIn(d), CodaIfAny(d, i) PROVE OneCodaIn(e)
  BY <1>9, <1>10 DEF OneCodaIn
<1>11. PreferredIn(d) => PreferredIn(e)
  BY <1>1, <1>4 DEF PreferredIn
<1> QED  BY <1>8, <1>10, <1>11

(* A deletion leaves what it does not delete.                              *)
LEMMA DeleteEffect ==
    ASSUME NEW d \in Database, NEW i
    PROVE  LET e == DeleteNetMag(d, i) IN
           /\ PreferredIn(d) /\ d.prefmag # i => PreferredIn(e)
           /\ OneCodaIn(d) => OneCodaIn(e)
<1> DEFINE e == DeleteNetMag(d, i)
<1>1. /\ e.netmag = [j \in Ids |-> IF j = i /\ j \in Existing(d) /\ d.netmag[j].coda
                                   THEN Absent ELSE d.netmag[j]]
      /\ e.prefmag = d.prefmag
  BY DEF DeleteNetMag, Database
<1>2. \A j \in Ids : e.netmag[j] = d.netmag[j] \/ (e.netmag[j] = Absent /\ j = i)
  BY <1>1
<1>3. Existing(d) \ {i} \subseteq Existing(e) /\ Existing(e) \subseteq Existing(d)
  BY <1>2 DEF Existing
<1>4. \A j \in Existing(e) : e.netmag[j] = d.netmag[j]
  BY <1>2 DEF Existing
<1>5. \A o : Codas(e, o) \subseteq Codas(d, o)
  BY <1>3, <1>4 DEF Codas
<1>6. OneCodaIn(d) => OneCodaIn(e)
  BY <1>5 DEF OneCodaIn
<1>7. PreferredIn(d) /\ d.prefmag # i => PreferredIn(e)
  BY <1>1, <1>3 DEF PreferredIn
<1> QED  BY <1>6, <1>7

(* The choice of a preferred magnitude, and the listing.                   *)
LEMMA ChosenEffect ==
    ASSUME NEW d \in Database, NEW e,
           \/ e \in SetPrefMagOfEvent(d)
           \/ \E p : e \in SetPrefMag(d, p)
           \/ e \in SetPrefMagOfEventByPrefor(d)
    PROVE  /\ e.netmag = d.netmag
           /\ PreferredIn(d) => PreferredIn(e)
<1>1. /\ e.netmag = d.netmag
      /\ e.prefmag \in Existing(d) \union {NoMagnitude, d.prefmag}
  BY ChosenType
<1> QED  BY <1>1, SameRows DEF PreferredIn

-----------------------------------------------------------------------------
(***************************************************************************)
(* A single request thread.                                                *)
(***************************************************************************)
(* Before any statement the session sees the working tables.               *)
LEMMA ViewIsWorking == SessionInv /\ TypeOK => View = working
BY DEF SessionInv, View, TypeOK

(* In a call that has begun its transaction, it is open.                   *)
LEMMA Open ==
    ASSUME SessionInv, TypeOK, NEW t \in Threads, at[t] \notin Reading
    PROVE  tx = "open"
BY DEF SessionInv, TypeOK

(* There a statement turns the working tables into d, and only those.      *)
LEMMA WriteEffect ==
    ASSUME NEW d, Write(d), tx = "open"
    PROVE  working' = d /\ aqms' = aqms /\ tx' = "open"
BY DEF Write

(* The statements, each with the tables it makes of the working tables.    *)
Becomes(t, d) ==
    \/ op[t] = "insert" /\ \E i \in Ids : d = InsertNetMag(working, i, orid[t], val[t])
    \/ op[t] = "update" /\ d = UpdateNetMag(working, id[t], val[t])
    \/ op[t] = "delete" /\ d = DeleteNetMag(working, id[t])

LEMMA ModifyStep ==
    ASSUME ClientInv, NEW t \in Threads,
           InsertMagnitude(t) \/ UpdateMagnitude(t) \/ DeleteMagnitude(t)
    PROVE  /\ at[t] = "modify" /\ tx = "open" /\ working = aqms
           /\ Becomes(t, working') /\ aqms' = aqms /\ tx' = "open"
           /\ at' = [at EXCEPT ![t] = "prefer"]
           /\ op' = op /\ orid' = orid /\ val' = val /\ pref' = pref /\ sure' = sure
           /\ op[t] # "insert" => id' = id
           /\ excused \subseteq excused'
<1>1. SessionInv /\ TypeOK /\ View = working
  BY ViewIsWorking DEF ClientInv, TypeInv
<1>2. at[t] = "modify" /\ tx = "open" /\ working = aqms
  BY <1>1, Open DEF SessionInv, Reading, InsertMagnitude, UpdateMagnitude,
                    DeleteMagnitude
<1>3. /\ at' = [at EXCEPT ![t] = "prefer"]
      /\ op' = op /\ orid' = orid /\ val' = val /\ pref' = pref /\ sure' = sure
      /\ op[t] # "insert" => id' = id
      /\ excused \subseteq excused'
  BY DEF InsertMagnitude, UpdateMagnitude, DeleteMagnitude, Goto, localVars
<1>4. PICK d : Becomes(t, d) /\ Write(d)
  BY <1>1 DEF InsertMagnitude, UpdateMagnitude, DeleteMagnitude, Becomes
<1> QED  BY <1>1, <1>2, <1>3, <1>4, WriteEffect

(* The statements after it keep netmag.                                    *)
LEMMA LaterStep ==
    ASSUME ClientInv, NEW t \in Threads, Prefer(t) \/ Replace(t) \/ Record(t)
    PROVE  /\ at[t] \in {"prefer", "record"} /\ tx' = "open"
           /\ working'.netmag = working.netmag /\ aqms' = aqms
           /\ PreferredIn(working) => PreferredIn(working')
           /\ Replace(t) /\ changePrefMag(t) => PreferredIn(working')
           /\ at'[t] \in {"record", "commit"}
           /\ \A u \in Threads : u # t => at'[u] = at[u]
           /\ UNCHANGED localVars /\ excused' = excused
<1>1. SessionInv /\ TypeOK /\ View = working /\ working \in Database
  BY ViewIsWorking DEF ClientInv, TypeInv, TypeOK
<1>2. /\ at[t] \in {"prefer", "record"}
      /\ at'[t] \in {"record", "commit"}
      /\ \A u \in Threads : u # t => at'[u] = at[u]
      /\ UNCHANGED localVars /\ excused' = excused
  BY <1>1 DEF Prefer, Replace, Record, Goto, TypeOK
<1>3. PICK d : /\ Write(d)
               /\ d.netmag = working.netmag
               /\ PreferredIn(working) => PreferredIn(d)
               /\ Replace(t) /\ changePrefMag(t) => PreferredIn(d)
  <2>1. CASE Prefer(t)
    <3>1. ~Replace(t)
      BY <2>1 DEF Prefer, Replace
    <3>2. PICK d : /\ Write(d)
                   /\ \/ d \in SetPrefMagOfEvent(working)
                      \/ \E p : d \in SetPrefMag(working, p)
      BY <1>1, <2>1 DEF Prefer
    <3> QED  BY <1>1, <3>1, <3>2, ChosenEffect
  <2>2. CASE Replace(t) /\ changePrefMag(t)
    <3>1. PICK d \in SetPrefMagOfEventByPrefor(working) : Write(d)
      BY <1>1, <2>2 DEF Replace
    <3> QED  BY <1>1, <3>1, ChosenEffect, ByPreforExists
  <2>3. CASE Replace(t) /\ ~changePrefMag(t)
    BY <1>1, <2>3 DEF Replace
  <2>4. CASE Record(t)
    <3>1. ~Replace(t)
      BY <2>4 DEF Record, Replace
    <3>2. PICK l : Write([working EXCEPT !.listed = l])
      BY <1>1, <2>4 DEF Record
    <3> DEFINE d == [working EXCEPT !.listed = l]
    <3>3. d.netmag = working.netmag /\ d.prefmag = working.prefmag
      BY <1>1 DEF Database
    <3>4. PreferredIn(working) => PreferredIn(d)
      BY <3>3, SameRows DEF PreferredIn
    <3> QED  BY <3>1, <3>2, <3>3, <3>4
  <2> QED  BY <2>1, <2>2, <2>3, <2>4
<1>4. working' = d /\ aqms' = aqms /\ tx' = "open"
  BY <1>1, <1>2, <1>3, Open, WriteEffect DEF Reading
<1> QED  BY <1>2, <1>3, <1>4

(* Between transactions the working tables are the committed ones.         *)
LEMMA Quiet ==
    ASSUME SessionInv, NEW t \in Threads, at[t] \in Reading
    PROVE  tx = "none" /\ working = aqms
BY DEF SessionInv

(* The four steps that only read.                                          *)
Read(t) == ReadOrigin(t) \/ ReadExistence(t) \/ ReadIdentifier(t) \/ ReadPreferred(t)

LEMMA ReadStep ==
    ASSUME ClientInv, NEW t \in Threads, Read(t)
    PROVE  /\ at[t] \in Reading /\ at'[t] \in Reading
           /\ tx' = "none" /\ aqms' = aqms /\ working' = working
           /\ op' = op /\ excused' = excused
           /\ op[t] = "update" => id' = id
           /\ at'[t] \in {"prefmag", "begin", "modify"} => orid' = orid
<1>1. SessionInv /\ TypeOK /\ ArgumentsOK
  BY DEF ClientInv, TypeInv
<1>2. /\ at[t] \in Reading
      /\ op' = op /\ excused' = excused
      /\ aqms' = aqms /\ working' = working
  BY DEF Read, ReadOrigin, ReadExistence, ReadIdentifier, ReadPreferred, Reading,
         Query
<1>3. tx' = "none"
  <2>1. tx = "none"
    BY <1>1, <1>2, Quiet
  <2> QED  BY <2>1 DEF Read, ReadOrigin, ReadExistence, ReadIdentifier,
                       ReadPreferred, Query
<1>4. at \in [Threads -> Places] /\ op \in [Threads -> Operations]
  BY <1>1 DEF TypeOK
<1>5. at'[t] \in Reading
  BY <1>4 DEF Read, ReadOrigin, ReadExistence, ReadIdentifier, ReadPreferred,
              Reading, Goto, AfterExists
<1>6. at'[t] \in {"prefmag", "begin", "modify"} => orid' = orid
  BY <1>4 DEF Read, ReadOrigin, ReadExistence, ReadIdentifier, ReadPreferred, Goto
<1>7. op[t] = "update" => id' = id
  BY <1>1 DEF Read, ReadOrigin, ReadExistence, ReadIdentifier, ReadPreferred,
              ArgumentsOK
<1> QED  BY <1>2, <1>3, <1>5, <1>6, <1>7

(* The steps that end a transaction, one way or the other.                 *)
End(t) == ConnectionBroken(t) \/ Commit(t) \/ StatementFails(t)

LEMMA EndStep ==
    ASSUME ClientInv, NEW t \in Threads, End(t)
    PROVE  /\ at'[t] \in {"returned", "thrown"} /\ tx' = "none"
           /\ working' = aqms' /\ aqms' \in {aqms, working}
           /\ at[t] \in {"commit"} \/ aqms' = aqms
           /\ UNCHANGED localVars /\ excused' = excused
<1>1. SessionInv /\ TypeOK /\ View = working /\ at \in [Threads -> Places]
  BY ViewIsWorking DEF ClientInv, TypeInv, TypeOK
<1> QED  BY <1>1 DEF End, ConnectionBroken, Commit, StatementFails, Rollback,
                     Goto

(* A call begins or ends.                                                  *)
LEMMA CallStep ==
    ASSUME ClientInv, NEW t \in Threads, Call(t) \/ EndCall(t)
    PROVE  /\ at[t] \in Reading /\ at'[t] \in {"idle", "origin", "exists"}
           /\ UNCHANGED <<aqms, working, tx, excused>>
           /\ op'[t] = "update" => id'[t] \in CodaOfEvent(aqms) \union {FalseId}
<1>1. SessionInv /\ TypeOK
  BY DEF ClientInv, TypeInv
<1>2. at \in [Threads -> Places] /\ op \in [Threads -> Operations]
      /\ id \in [Threads -> Ids \union {FalseId, NoMagnitude}]
  BY <1>1 DEF TypeOK
<1>3. at[t] \in Reading /\ UNCHANGED <<aqms, working, tx, excused>>
  BY DEF Call, EndCall, Finished, Reading, aqmsVars
<1>4. View = aqms
  BY <1>1, <1>3, Quiet DEF View
<1>5. at'[t] \in {"idle", "origin", "exists"}
  BY <1>2 DEF Call, EndCall, ReadCall, InsertCall, UpdateCall, StartCall, Goto
<1>6. op'[t] = "update" => id'[t] \in CodaOfEvent(aqms) \union {FalseId}
  BY <1>2, <1>4 DEF Call, EndCall, ReadCall, InsertCall, UpdateCall, StartCall
<1> QED  BY <1>3, <1>5, <1>6

(* Other programs change the choice of origin or of magnitude.             *)
LEMMA OthersStep ==
    ASSUME ClientInv, Relocate \/ PreferOther
    PROVE  /\ aqms'.netmag = aqms.netmag /\ working' = aqms' /\ working = aqms
           /\ PreferredIn(aqms) => PreferredIn(aqms')
           /\ tx = "none" /\ tx' = "none"
           /\ at' = at /\ UNCHANGED localVars /\ excused' = excused
<1>1. SessionInv /\ aqms \in Database
  BY DEF ClientInv, TypeInv, TypeOK
<1>2. PICK d : /\ Elsewhere(d)
               /\ d.netmag = aqms.netmag
               /\ d.prefmag \in Existing(aqms) \union {aqms.prefmag}
  <2>1. ASSUME NEW o PROVE LET d == [aqms EXCEPT !.prefor = o] IN
            d.netmag = aqms.netmag /\ d.prefmag = aqms.prefmag
    BY <1>1 DEF Database
  <2>2. ASSUME NEW p PROVE LET d == [aqms EXCEPT !.prefmag = p] IN
            d.netmag = aqms.netmag /\ d.prefmag = p
    BY <1>1 DEF Database
  <2> QED  BY <2>1, <2>2 DEF Relocate, PreferOther
<1>3. /\ aqms' = d /\ working' = d /\ tx = "none" /\ tx' = "none"
      /\ at' = at /\ UNCHANGED localVars /\ excused' = excused
  BY <1>2 DEF Elsewhere, localVars
<1>4. working = aqms
  BY <1>1, <1>3 DEF SessionInv
<1>5. Existing(d) = Existing(aqms)
  BY <1>2 DEF Existing
<1>6. PreferredIn(aqms) => PreferredIn(d)
  BY <1>2, <1>5 DEF PreferredIn
<1> QED  BY <1>2, <1>3, <1>4, <1>6

(* Every step is of one of these kinds.                                    *)
LEMMA Kinds ==
    ASSUME [Next]_clientVars
    PROVE  \/ \E t \in Threads :
                \/ Call(t) \/ EndCall(t)
                \/ Read(t)
                \/ BeginTransaction(t)
                \/ InsertMagnitude(t) \/ UpdateMagnitude(t) \/ DeleteMagnitude(t)
                \/ Prefer(t) \/ Replace(t) \/ Record(t)
                \/ End(t)
           \/ Relocate \/ PreferOther
           \/ Die
           \/ UNCHANGED clientVars
BY DEF Next, ClientStep, Read, End

-----------------------------------------------------------------------------
(***************************************************************************)
(* The session.                                                            *)
(***************************************************************************)
LEMMA SessionStep == Solo /\ ClientInv /\ [Next]_clientVars => SessionInv'
<1> SUFFICES ASSUME Solo, ClientInv, [Next]_clientVars PROVE SessionInv'
  OBVIOUS
<1>1. SessionInv /\ TypeOK /\ at \in [Threads -> Places]
  BY DEF ClientInv, TypeInv, TypeOK
<1>2. ASSUME NEW t \in Threads, at'[t] \in Reading, tx' = "none",
             working' = aqms'
      PROVE  SessionInv'
  <2>1. \A u \in Threads : at'[u] = at'[t]
    BY DEF Solo
  <2> QED  BY <1>2, <2>1 DEF SessionInv, Reading
<1>3. ASSUME NEW t \in Threads, Call(t) \/ EndCall(t) PROVE SessionInv'
  BY <1>1, <1>2, <1>3, CallStep, Quiet DEF Reading
<1>4. ASSUME NEW t \in Threads, Read(t) PROVE SessionInv'
  BY <1>1, <1>2, <1>4, ReadStep, Quiet
<1>5. ASSUME NEW t \in Threads, BeginTransaction(t) PROVE SessionInv'
  <2>1. /\ tx' = "open" /\ aqms' = aqms /\ working' = working
        /\ working = aqms
    BY <1>1, <1>5, Quiet DEF BeginTransaction, Reading
  <2>2. \A u \in Threads : at'[u] = "modify"
    BY <1>1, <1>5 DEF BeginTransaction, Goto, Solo
  <2> QED  BY <2>1, <2>2 DEF SessionInv, Reading
<1>6. ASSUME NEW t \in Threads,
             InsertMagnitude(t) \/ UpdateMagnitude(t) \/ DeleteMagnitude(t)
      PROVE  SessionInv'
  <2>1. tx' = "open"
    BY <1>6, ModifyStep
  <2>2. \A u \in Threads : at'[u] = "prefer"
    BY <1>1, <1>6, ModifyStep DEF Solo
  <2> QED  BY <2>1, <2>2 DEF SessionInv, Reading
<1>7. ASSUME NEW t \in Threads, Prefer(t) \/ Replace(t) \/ Record(t)
      PROVE  SessionInv'
  <2>1. tx' = "open" /\ at'[t] \in {"record", "commit"}
    BY <1>7, LaterStep
  <2>2. \A u \in Threads : u = t
    BY DEF Solo
  <2> QED  BY <2>1, <2>2 DEF SessionInv, Reading
<1>8. ASSUME NEW t \in Threads, End(t) PROVE SessionInv'
  BY <1>2, <1>8, EndStep DEF Reading
<1>9. CASE Relocate \/ PreferOther
  <2>1. /\ tx = "none" /\ tx' = "none" /\ working' = aqms'
        /\ at' = at /\ op' = op
    BY <1>9, OthersStep DEF localVars
  <2> QED  BY <1>1, <2>1 DEF SessionInv
<1>10. CASE Die
  <2>1. /\ tx' = "none" /\ working' = aqms'
        /\ \A t \in Threads : at'[t] = "idle"
    BY <1>10 DEF Die, Rollback
  <2> QED  BY <2>1 DEF SessionInv, Reading
<1>11. CASE UNCHANGED clientVars
  BY <1>1, <1>11 DEF clientVars, SessionInv
<1> QED  BY <1>3, <1>4, <1>5, <1>6, <1>7, <1>8, <1>9, <1>10, <1>11, Kinds

-----------------------------------------------------------------------------
(***************************************************************************)
(* One coda magnitude on an origin.                                        *)
(***************************************************************************)
(* What OneCodaInv says of the one call there may be.                      *)
CodaFacts(t) ==
    /\ OneCodaIn(aqms) /\ OneCodaIn(working)
    /\ op[t] = "insert" /\ sure[t] /\ at[t] \in {"prefmag", "begin", "modify"}
       => Codas(aqms, orid[t]) = {}
    /\ op[t] = "update" => CodaIfAny(aqms, id[t]) /\ CodaIfAny(working, id[t])

LEMMA CodaFactsHold ==
    ASSUME OneCodaInv, NEW t \in Threads, "insert" \notin excused
    PROVE  CodaFacts(t)
BY DEF OneCodaInv, CodaFacts

LEMMA CodaFactsSuffice ==
    ASSUME Solo, NEW t \in Threads, CodaFacts(t)'
    PROVE  OneCodaInv'
<1>1. \A u \in Threads : u = t
  BY DEF Solo
<1> QED  BY <1>1 DEF OneCodaInv, CodaFacts

(* A query that is answered on the preferred origin, and finds no coda     *)
(* magnitude there, is what an insertion relies on.                        *)
LEMMA CodaAfterRead ==
    ASSUME ClientInv, NEW t \in Threads, Read(t), CodaFacts(t)
    PROVE  CodaFacts(t)'
<1>1. SessionInv /\ TypeOK /\ ArgumentsOK
  BY DEF ClientInv, TypeInv
<1>2. /\ at \in [Threads -> Places] /\ op \in [Threads -> Operations]
      /\ sure \in [Threads -> BOOLEAN]
  BY <1>1 DEF TypeOK
<1>3. /\ at[t] \in Reading /\ aqms' = aqms /\ working' = working /\ op' = op
      /\ op[t] = "update" => id'[t] = id[t]
  BY ReadStep
<1>4. View = aqms
  BY <1>1, <1>3, Quiet DEF View
<1>5. (OneCodaIn(aqms) /\ OneCodaIn(working))'
  BY <1>3 DEF CodaFacts, OneCodaIn, Codas, Existing
<1>6. (op[t] = "update" => CodaIfAny(aqms, id[t]) /\ CodaIfAny(working, id[t]))'
  BY <1>3 DEF CodaFacts, CodaIfAny, Existing
<1>7. ASSUME op[t] = "insert", sure'[t], at'[t] \in {"prefmag", "begin", "modify"}
      PROVE  Codas(aqms, orid'[t]) = {}
  <2>1. orid' = orid
    BY <1>7, ReadStep
  <2>2. CASE ReadExistence(t)
    <3>1. PICK answered \in BOOLEAN :
            /\ sure' = [sure EXCEPT ![t] = answered /\ View.prefor = orid[t]]
            /\ at' = [at EXCEPT ![t] =
                    AfterExists(op[t], answered /\ CodaOfEvent(View) # {})]
      BY <2>2 DEF ReadExistence, Goto
    <3>2. answered /\ View.prefor = orid[t]
      BY <1>2, <1>7, <3>1
    <3>3. ~(answered /\ CodaOfEvent(View) # {})
      BY <1>2, <1>7, <3>1 DEF AfterExists
    <3> QED  BY <1>4, <2>1, <3>2, <3>3 DEF CodaOfEvent
  <2>3. CASE ReadPreferred(t)
    BY <1>7, <2>1, <2>3 DEF ReadPreferred, CodaFacts
  <2>4. CASE ReadOrigin(t) \/ ReadIdentifier(t)
    <3>1. at'[t] \notin {"begin", "modify"} /\ (at'[t] = "prefmag" => op[t] = "delete")
      BY <1>2, <2>4 DEF ReadOrigin, ReadIdentifier, Goto
    <3> QED  BY <1>7, <3>1
  <2> QED  BY <2>2, <2>3, <2>4 DEF Read
<1>8. Codas(aqms', orid'[t]) = Codas(aqms, orid'[t])
  BY <1>3
<1> QED  BY <1>3, <1>5, <1>6, <1>7, <1>8 DEF CodaFacts

LEMMA CodaAfterModify ==
    ASSUME ClientInv, NEW t \in Threads, CodaFacts(t), "insert" \notin excused',
           InsertMagnitude(t) \/ UpdateMagnitude(t) \/ DeleteMagnitude(t)
    PROVE  CodaFacts(t)'
<1>1. TypeOK /\ ArgumentsOK /\ working \in Database
  BY DEF ClientInv, TypeInv, TypeOK
<1>2. /\ at[t] = "modify" /\ working = aqms
      /\ Becomes(t, working') /\ aqms' = aqms
      /\ at' = [at EXCEPT ![t] = "prefer"]
      /\ op' = op /\ orid' = orid /\ val' = val
      /\ op[t] # "insert" => id' = id
  BY ModifyStep
<1>3. at'[t] = "prefer"
  BY <1>1, <1>2 DEF TypeOK
<1>4. CASE op[t] = "insert"
  <2>1. sure[t]
    BY <1>4 DEF InsertMagnitude, UpdateMagnitude, DeleteMagnitude
  <2>2. Codas(working, orid[t]) = {} /\ OneCodaIn(working)
    BY <1>2, <1>4, <2>1 DEF CodaFacts
  <2>3. PICK i \in Ids : working' = InsertNetMag(working, i, orid[t], val[t])
    BY <1>2, <1>4 DEF Becomes
  <2>4. orid[t] \in Origins /\ val[t] \in Values
    BY <1>1, <1>4 DEF ArgumentsOK
  <2>5. OneCodaIn(working')
    BY <1>1, <2>2, <2>3, <2>4, InsertEffect
  <2>6. OneCodaIn(aqms')
    BY <1>2, <2>2, <2>5
  <2> QED  BY <1>2, <1>3, <1>4, <2>5, <2>6 DEF CodaFacts
<1>5. CASE op[t] = "update"
  <2>1. working' = UpdateNetMag(working, id[t], val[t]) /\ val[t] \in Values
    BY <1>1, <1>2, <1>5 DEF Becomes, ArgumentsOK
  <2>2. OneCodaIn(working') /\ CodaIfAny(working', id[t])
    BY <1>1, <1>5, <2>1, UpdateEffect DEF CodaFacts
  <2>3. OneCodaIn(aqms') /\ CodaIfAny(aqms', id[t])
    BY <1>2, <1>5 DEF CodaFacts
  <2> QED  BY <1>2, <1>3, <1>5, <2>2, <2>3 DEF CodaFacts
<1>6. CASE op[t] = "delete"
  <2>1. working' = DeleteNetMag(working, id[t])
    BY <1>2, <1>6 DEF Becomes
  <2>2. OneCodaIn(working')
    BY <1>1, <2>1, DeleteEffect DEF CodaFacts
  <2>3. OneCodaIn(aqms')
    BY <1>2, <1>6 DEF CodaFacts
  <2> QED  BY <1>2, <1>3, <1>6, <2>2, <2>3 DEF CodaFacts
<1> QED  BY <1>2, <1>4, <1>5, <1>6 DEF Becomes

(* The tables become ones with the same rows, and the call stays.          *)
LEMMA CodaSameRows ==
    ASSUME NEW t \in Threads, CodaFacts(t),
           \/ aqms'.netmag = aqms.netmag
           \/ aqms'.netmag = working.netmag,
           \/ working'.netmag = aqms.netmag
           \/ working'.netmag = working.netmag,
           op'[t] = op[t], id'[t] = id[t],
           at'[t] \notin {"prefmag", "begin", "modify"}
    PROVE  CodaFacts(t)'
<1>1. OneCodaIn(aqms') /\ OneCodaIn(working')
  BY SameRows DEF CodaFacts
<1>2. op[t] = "update" => CodaIfAny(aqms', id[t]) /\ CodaIfAny(working', id[t])
  BY SameRows DEF CodaFacts
<1> QED  BY <1>1, <1>2 DEF CodaFacts

LEMMA OneCodaStep == Solo /\ ClientInv /\ [Next]_clientVars => OneCodaInv'
<1> SUFFICES ASSUME Solo, ClientInv, [Next]_clientVars, "insert" \notin excused'
             PROVE  OneCodaInv'
  BY DEF OneCodaInv
<1>1. SessionInv /\ TypeOK /\ OneCodaInv /\ at \in [Threads -> Places]
  BY DEF ClientInv, TypeInv, TypeOK
<1>2. ASSUME NEW t \in Threads, Call(t) \/ EndCall(t) PROVE OneCodaInv'
  <2>1. /\ aqms' = aqms /\ working' = working /\ excused' = excused
        /\ at'[t] \notin {"prefmag", "begin", "modify"}
        /\ working = aqms
        /\ op'[t] = "update" => id'[t] \in CodaOfEvent(aqms) \union {FalseId}
    BY <1>1, <1>2, CallStep, Quiet
  <2>2. CodaFacts(t)
    BY <1>1, <2>1, CodaFactsHold
  <2>3. op'[t] = "update" => CodaIfAny(aqms, id'[t])
    BY <2>1 DEF CodaOfEvent, Codas, CodaIfAny, Existing, Ids, FalseId
  <2>4. CodaFacts(t)'
    BY <2>1, <2>2, <2>3 DEF CodaFacts
  <2> QED  BY <2>4, CodaFactsSuffice
<1>3. ASSUME NEW t \in Threads, Read(t) PROVE OneCodaInv'
  BY <1>1, <1>3, ReadStep, CodaFactsHold, CodaAfterRead, CodaFactsSuffice
<1>4. ASSUME NEW t \in Threads, BeginTransaction(t) PROVE OneCodaInv'
  <2>1. /\ at[t] = "begin" /\ aqms' = aqms /\ working' = working
        /\ op' = op /\ orid' = orid /\ id' = id /\ sure' = sure
        /\ excused' = excused
    BY <1>4 DEF BeginTransaction, localVars
  <2>2. CodaFacts(t)
    BY <1>1, <2>1, CodaFactsHold
  <2>3. CodaFacts(t)'
    BY <2>1, <2>2 DEF CodaFacts
  <2> QED  BY <2>3, CodaFactsSuffice
<1>5. ASSUME NEW t \in Threads,
             InsertMagnitude(t) \/ UpdateMagnitude(t) \/ DeleteMagnitude(t)
      PROVE  OneCodaInv'
  <2>1. excused \subseteq excused'
    BY <1>5, ModifyStep
  <2>2. CodaFacts(t)
    BY <1>1, <2>1, CodaFactsHold
  <2> QED  BY <1>5, <2>2, CodaAfterModify, CodaFactsSuffice
<1>6. ASSUME NEW t \in Threads, Prefer(t) \/ Replace(t) \/ Record(t)
      PROVE  OneCodaInv'
  <2>1. /\ working'.netmag = working.netmag /\ aqms' = aqms
        /\ at'[t] \in {"record", "commit"}
        /\ op' = op /\ id' = id /\ excused' = excused
    BY <1>6, LaterStep DEF localVars
  <2>2. CodaFacts(t)
    BY <1>1, <2>1, CodaFactsHold
  <2> QED  BY <2>1, <2>2, CodaSameRows, CodaFactsSuffice
<1>7. ASSUME NEW t \in Threads, End(t) PROVE OneCodaInv'
  <2>1. /\ working' = aqms' /\ aqms' \in {aqms, working}
        /\ at'[t] \in {"returned", "thrown"}
        /\ op' = op /\ id' = id /\ excused' = excused
    BY <1>7, EndStep DEF localVars
  <2>2. CodaFacts(t)
    BY <1>1, <2>1, CodaFactsHold
  <2> QED  BY <2>1, <2>2, CodaSameRows, CodaFactsSuffice
<1>8. CASE Relocate \/ PreferOther
  <2>1. /\ aqms'.netmag = aqms.netmag /\ working' = aqms' /\ working = aqms
        /\ at' = at /\ op' = op /\ id' = id /\ orid' = orid /\ sure' = sure
        /\ excused' = excused
    BY <1>8, OthersStep DEF localVars
  <2>2. /\ \A o : Codas(aqms', o) = Codas(aqms, o)
        /\ OneCodaIn(aqms') <=> OneCodaIn(aqms)
        /\ \A i : CodaIfAny(aqms', i) <=> CodaIfAny(aqms, i)
    BY <2>1, SameRows
  <2> QED  BY <1>1, <2>1, <2>2 DEF OneCodaInv
<1>9. CASE Die
  <2>1. /\ aqms' = aqms /\ working' = aqms /\ excused' = excused
        /\ \A t \in Threads : op'[t] = "none"
    BY <1>9 DEF Die, Rollback
  <2>2. OneCodaIn(aqms)
    BY <1>1, <2>1 DEF OneCodaInv
  <2> QED  BY <2>1, <2>2 DEF OneCodaInv
<1>10. CASE UNCHANGED clientVars
  BY <1>1, <1>10 DEF clientVars, OneCodaInv
<1> QED  BY <1>2, <1>3, <1>4, <1>5, <1>6, <1>7, <1>8, <1>9, <1>10, Kinds

-----------------------------------------------------------------------------
(***************************************************************************)
(* The preferred magnitude exists.                                         *)
(***************************************************************************)
(* A step of the one call there may be, that leaves no deletion half done. *)
LEMMA PreferredSuffices ==
    ASSUME PreferredIn(aqms'), PreferredIn(working')
    PROVE  PreferredInv'
BY DEF PreferredInv, PreferredIn, Existing

(* Except in the middle of a deletion, the working tables are sound too.   *)
LEMMA PreferredBefore ==
    ASSUME Solo, ClientInv, NEW t \in Threads, "delete" \notin excused,
           ~(at[t] = "prefer" /\ op[t] = "delete" /\ changePrefMag(t))
    PROVE  PreferredIn(aqms) /\ PreferredIn(working)
BY DEF Solo, ClientInv, PreferredInv

LEMMA PreferredAfterModify ==
    ASSUME Solo, ClientInv, NEW t \in Threads, "delete" \notin excused',
           InsertMagnitude(t) \/ UpdateMagnitude(t) \/ DeleteMagnitude(t)
    PROVE  PreferredInv'
<1>1. TypeOK /\ ArgumentsOK /\ working \in Database /\ View = working
  BY ViewIsWorking DEF ClientInv, TypeInv, TypeOK
<1>2. /\ at[t] = "modify" /\ working = aqms
      /\ Becomes(t, working') /\ aqms' = aqms
      /\ at' = [at EXCEPT ![t] = "prefer"]
      /\ op' = op /\ pref' = pref /\ (op[t] # "insert" => id' = id)
      /\ excused \subseteq excused'
  BY ModifyStep
<1>3. PreferredIn(aqms) /\ PreferredIn(working)
  BY <1>2, PreferredBefore
<1>4. CASE op[t] = "insert"
  <2>1. PICK i \in Ids : working' = InsertNetMag(working, i, orid[t], val[t])
    BY <1>2, <1>4 DEF Becomes
  <2>2. orid[t] \in Origins /\ val[t] \in Values
    BY <1>1, <1>4 DEF ArgumentsOK
  <2>3. PreferredIn(working')
    BY <1>1, <1>3, <2>1, <2>2, InsertEffect
  <2> QED  BY <1>2, <1>3, <2>3, PreferredSuffices
<1>5. CASE op[t] = "update"
  <2>1. working' = UpdateNetMag(working, id[t], val[t]) /\ val[t] \in Values
    BY <1>1, <1>2, <1>5 DEF Becomes, ArgumentsOK
  <2>2. PreferredIn(working')
    BY <1>1, <1>3, <2>1, UpdateEffect
  <2> QED  BY <1>2, <1>3, <2>2, PreferredSuffices
<1>6. CASE op[t] = "delete"
  <2>1. working' = DeleteNetMag(working, id[t]) /\ aqms' = aqms
    BY <1>2, <1>6 DEF Becomes
  <2>2. CASE working.prefmag # id[t]
    <3>1. PreferredIn(working')
      BY <1>1, <1>3, <2>1, <2>2, DeleteEffect
    <3> QED  BY <1>3, <2>1, <3>1, PreferredSuffices
  <2>3. CASE working.prefmag = id[t]
    <3>1. ~BecamePreferred(t)
      BY <1>6 DEF InsertMagnitude, UpdateMagnitude, DeleteMagnitude
    <3>2. changePrefMag(t)
      BY <1>1, <2>3, <3>1 DEF BecamePreferred, changePrefMag
    <3>3. changePrefMag(t)'
      BY <1>2, <1>6, <3>2 DEF changePrefMag
    <3>4. at'[t] = "prefer" /\ op'[t] = "delete"
      BY <1>1, <1>2, <1>6 DEF TypeOK
    <3> QED  BY <1>3, <2>1, <3>3, <3>4 DEF PreferredInv
  <2> QED  BY <2>2, <2>3
<1> QED  BY <1>2, <1>4, <1>5, <1>6 DEF Becomes

LEMMA PreferredStep == Solo /\ ClientInv /\ [Next]_clientVars => PreferredInv'
<1> SUFFICES ASSUME Solo, ClientInv, [Next]_clientVars, "delete" \notin excused'
             PROVE  PreferredInv'
  BY DEF PreferredInv
<1>1. SessionInv /\ TypeOK /\ PreferredInv /\ at \in [Threads -> Places]
  BY DEF ClientInv, TypeInv, TypeOK
<1>2. ASSUME NEW t \in Threads, Call(t) \/ EndCall(t) \/ Read(t)
      PROVE  PreferredInv'
  <2>1. /\ aqms' = aqms /\ working' = working /\ excused' = excused
        /\ at[t] \in Reading
    BY <1>2, CallStep, ReadStep
  <2>2. PreferredIn(aqms) /\ PreferredIn(working)
    BY <2>1, PreferredBefore DEF Reading
  <2> QED  BY <2>1, <2>2, PreferredSuffices
<1>3. ASSUME NEW t \in Threads, BeginTransaction(t) PROVE PreferredInv'
  <2>1. /\ at[t] = "begin" /\ aqms' = aqms /\ working' = working
        /\ excused' = excused
    BY <1>3 DEF BeginTransaction
  <2>2. PreferredIn(aqms) /\ PreferredIn(working)
    BY <2>1, PreferredBefore
  <2> QED  BY <2>1, <2>2, PreferredSuffices
<1>4. ASSUME NEW t \in Threads,
             InsertMagnitude(t) \/ UpdateMagnitude(t) \/ DeleteMagnitude(t)
      PROVE  PreferredInv'
  BY <1>4, PreferredAfterModify
<1>5. ASSUME NEW t \in Threads, Prefer(t) \/ Replace(t) \/ Record(t)
      PROVE  PreferredInv'
  <2>1. /\ aqms' = aqms /\ excused' = excused
        /\ PreferredIn(working) => PreferredIn(working')
        /\ Replace(t) /\ changePrefMag(t) => PreferredIn(working')
    BY <1>5, LaterStep
  <2>2. PreferredIn(aqms)
    BY <1>1, <2>1 DEF PreferredInv
  <2>3. PreferredIn(working')
    <3>1. CASE at[t] = "prefer" /\ op[t] = "delete" /\ changePrefMag(t)
      BY <1>5, <2>1, <3>1 DEF Prefer, Record
    <3>2. CASE ~(at[t] = "prefer" /\ op[t] = "delete" /\ changePrefMag(t))
      BY <2>1, <3>2, PreferredBefore
    <3> QED  BY <3>1, <3>2
  <2> QED  BY <2>1, <2>2, <2>3, PreferredSuffices
<1>6. ASSUME NEW t \in Threads, End(t) PROVE PreferredInv'
  <2>1. /\ working' = aqms' /\ aqms' \in {aqms, working}
        /\ at[t] = "commit" \/ aqms' = aqms
        /\ excused' = excused
    BY <1>6, EndStep
  <2>2. PreferredIn(aqms)
    BY <1>1, <2>1 DEF PreferredInv
  <2>3. at[t] = "commit" => PreferredIn(working)
    BY <2>1, PreferredBefore
  <2> QED  BY <2>1, <2>2, <2>3, PreferredSuffices
<1>7. CASE Relocate \/ PreferOther
  <2>1. /\ working' = aqms' /\ excused' = excused
        /\ PreferredIn(aqms) => PreferredIn(aqms')
    BY <1>7, OthersStep
  <2>2. PreferredIn(aqms)
    BY <1>1, <2>1 DEF PreferredInv
  <2> QED  BY <2>1, <2>2, PreferredSuffices
<1>8. CASE Die
  <2>1. aqms' = aqms /\ working' = aqms /\ excused' = excused
    BY <1>8 DEF Die, Rollback
  <2>2. PreferredIn(aqms)
    BY <1>1, <2>1 DEF PreferredInv
  <2> QED  BY <2>1, <2>2, PreferredSuffices
<1>9. CASE UNCHANGED clientVars
  BY <1>1, <1>9 DEF clientVars, PreferredInv, PreferredIn, Existing, changePrefMag
<1> QED  BY <1>2, <1>3, <1>4, <1>5, <1>6, <1>7, <1>8, <1>9, Kinds

-----------------------------------------------------------------------------
(***************************************************************************)
(* The invariant, and what follows.                                        *)
(***************************************************************************)
LEMMA ClientInit == Init => ClientInv
<1> SUFFICES ASSUME Init PROVE ClientInv
  OBVIOUS
<1>1. TypeInv
  BY InitType
<1>2. SessionInv
  <2>1. \A t \in Threads : at[t] = "idle"
    BY DEF Init, NoCalls
  <2> QED  BY <2>1 DEF Init, SessionInv, Reading
<1>3. Sound(aqms) /\ working = aqms
  BY DEF Init, InitialTables
<1>4. OneCodaInv
  BY <1>3 DEF Init, NoCalls, Sound, OneCodaInv
<1>5. PreferredInv
  BY <1>3 DEF Sound, PreferredInv
<1> QED  BY <1>1, <1>2, <1>4, <1>5 DEF ClientInv

LEMMA ClientStepInv == Solo /\ ClientInv /\ [Next]_clientVars => ClientInv'
BY NextType, SessionStep, OneCodaStep, PreferredStep DEF ClientInv

(* The inductive invariant holds for a single request thread.              *)
THEOREM ClientInvariant == Solo => (Spec => []ClientInv)
<1> SUFFICES ASSUME Solo PROVE Spec => []ClientInv
  OBVIOUS
<1>1. ClientInv /\ [Next]_clientVars => ClientInv'
  BY ClientStepInv
<1> QED  BY ClientInit, <1>1, PTL DEF Spec

(* For a single request thread, whatever other programs do and whichever   *)
(* statements fail: an origin has one coda magnitude, unless some          *)
(* insertion went ahead after a failed query or on another origin than it  *)
(* asked about.                                                            *)
THEOREM OneCodaHolds == Solo => (Spec => []OneCoda)
<1> SUFFICES ASSUME Solo PROVE Spec => []OneCoda
  OBVIOUS
<1>1. ClientInv => OneCoda
  BY DEF ClientInv, OneCodaInv, OneCoda
<1> QED  BY ClientInvariant, <1>1, PTL

(* Under the same conditions the preferred magnitude exists, unless one    *)
(* was deleted that had become preferred while the call was under way.     *)
THEOREM PreferredHolds == Solo => (Spec => []PreferredExists)
<1> SUFFICES ASSUME Solo PROVE Spec => []PreferredExists
  OBVIOUS
<1>1. ClientInv => PreferredExists
  BY DEF ClientInv, PreferredInv, PreferredExists
<1> QED  BY ClientInvariant, <1>1, PTL

-----------------------------------------------------------------------------
(***************************************************************************)
(* All or nothing: the committed tables implement AQMSEvent.               *)
(***************************************************************************)
(* What each statement makes of one magnitude, and leaves of the rest.     *)
LEMMA InsertWork ==
    ASSUME NEW d \in Database, NEW i \in Ids, NEW o \in Origins, NEW v \in Values
    PROVE  LET e == InsertNetMag(d, i, o, v) IN
           /\ \A j \in Ids : j # i => e.netmag[j] = d.netmag[j]
           /\ i \in Existing(e) /\ e.netmag[i].coda
           /\ Existing(e) = Existing(d) \union {i}
           /\ e.prefor = d.prefor /\ e.prefmag = d.prefmag /\ e.listed = d.listed
<1> DEFINE row == [orid |-> o, coda |-> TRUE, val |-> v]
           e == InsertNetMag(d, i, o, v)
<1>1. /\ e.netmag = [d.netmag EXCEPT ![i] = row]
      /\ e.prefor = d.prefor /\ e.prefmag = d.prefmag /\ e.listed = d.listed
      /\ d.netmag \in [Ids -> Row \union {Absent}] /\ row \in Row
  BY DEF InsertNetMag, Database, Row
<1>2. row # Absent /\ row.coda
  BY <1>1, AbsentAssumption
<1>3. /\ \A j \in Ids : j # i => e.netmag[j] = d.netmag[j]
      /\ e.netmag[i] = row
  BY <1>1
<1> HIDE DEF row, e
<1>4. i \in Existing(e) /\ e.netmag[i].coda /\ Existing(e) = Existing(d) \union {i}
  BY <1>2, <1>3 DEF Existing
<1> QED  BY <1>1, <1>3, <1>4 DEF e

LEMMA UpdateWork ==
    ASSUME NEW d \in Database, NEW i, NEW v \in Values
    PROVE  LET e == UpdateNetMag(d, i, v) IN
           /\ \A j \in Ids : j # i => e.netmag[j] = d.netmag[j]
           /\ Existing(e) = Existing(d) /\ CodaIfAny(e, i)
           /\ e.prefor = d.prefor /\ e.prefmag = d.prefmag /\ e.listed = d.listed
<1> DEFINE row(j) == [orid |-> d.netmag[j].orid, coda |-> TRUE, val |-> v]
           e == UpdateNetMag(d, i, v)
<1>1. /\ e.netmag = [j \in Ids |-> IF j = i /\ d.netmag[j] # Absent
                                   THEN row(j) ELSE d.netmag[j]]
      /\ e.prefor = d.prefor /\ e.prefmag = d.prefmag /\ e.listed = d.listed
      /\ d.netmag \in [Ids -> Row \union {Absent}]
  BY DEF UpdateNetMag, Database
<1>2. \A j \in Existing(d) : row(j) \in Row /\ row(j).coda
  BY <1>1 DEF Existing, Row
<1>3. \A j \in Existing(d) : row(j) # Absent
  BY <1>2, AbsentAssumption
<1>4. \A j \in Ids : /\ j = i /\ j \in Existing(d) => e.netmag[j] = row(j)
                     /\ ~(j = i /\ j \in Existing(d)) => e.netmag[j] = d.netmag[j]
  BY <1>1 DEF Existing
<1> HIDE DEF row, e
<1>5. Existing(e) = Existing(d)
  BY <1>3, <1>4 DEF Existing
<1>6. CodaIfAny(e, i)
  <2>1. SUFFICES ASSUME i \in Existing(d) PROVE e.netmag[i].coda
    BY <1>5 DEF CodaIfAny
  <2> QED  BY <1>2, <1>4, <2>1 DEF Existing
<1> QED  BY <1>1, <1>4, <1>5, <1>6 DEF e

LEMMA DeleteWork ==
    ASSUME NEW d \in Database, NEW i
    PROVE  LET e == DeleteNetMag(d, i) IN
           /\ \A j \in Ids : j # i => e.netmag[j] = d.netmag[j]
           /\ IF i \in Existing(d) /\ d.netmag[i].coda
              THEN i \notin Existing(e) ELSE e.netmag = d.netmag
           /\ Existing(e) \subseteq Existing(d)
           /\ e.prefor = d.prefor /\ e.prefmag = d.prefmag
           /\ e.listed = d.listed \ {i}
<1> DEFINE e == DeleteNetMag(d, i)
<1>1. /\ e.netmag = [j \in Ids |->
                IF j = i /\ j \in Existing(d) /\ d.netmag[j].coda
                THEN Absent ELSE d.netmag[j]]
      /\ e.prefor = d.prefor /\ e.prefmag = d.prefmag /\ e.listed = d.listed \ {i}
      /\ d.netmag \in [Ids -> Row \union {Absent}]
  BY DEF DeleteNetMag, Database
<1>2. \A j \in Ids : e.netmag[j] =
            IF j = i /\ j \in Existing(d) /\ d.netmag[j].coda
            THEN Absent ELSE d.netmag[j]
  BY <1>1
<1>3. ~(i \in Existing(d) /\ d.netmag[i].coda) => e.netmag = d.netmag
  BY <1>1
<1> HIDE DEF e
<1>4. i \in Existing(d) /\ d.netmag[i].coda => i \notin Existing(e)
  BY <1>2 DEF Existing
<1>5. Existing(e) \subseteq Existing(d)
  BY <1>2 DEF Existing
<1> QED  BY <1>1, <1>2, <1>3, <1>4, <1>5 DEF e

(* The procedures touch the preferred magnitude only.                      *)
LEMMA ChosenWork ==
    ASSUME NEW d \in Database, NEW e,
           \/ e \in SetPrefMagOfEvent(d)
           \/ \E p : e \in SetPrefMag(d, p)
           \/ e \in SetPrefMagOfEventByPrefor(d)
    PROVE  /\ e.netmag = d.netmag /\ e.prefor = d.prefor /\ e.listed = d.listed
           /\ e.prefmag \in Existing(d) \union {NoMagnitude, d.prefmag}
<1>1. PICK q : e = [d EXCEPT !.prefmag = q]
  BY DEF SetPrefMagOfEvent, SetPrefMag, SetPrefMagOfEventByPrefor
<1> QED  BY <1>1, ChosenType DEF Database

(* The statements after the first, each with what it leaves alone.         *)
LEMMA LaterWork ==
    ASSUME ClientInv, NEW t \in Threads, Prefer(t) \/ Replace(t) \/ Record(t)
    PROVE  /\ working'.netmag = working.netmag /\ working'.prefor = working.prefor
           /\ working'.prefmag \in Existing(working) \union
                                        {NoMagnitude, working.prefmag}
           /\ ~Record(t) => working'.listed = working.listed
           /\ Record(t) => /\ working'.listed \in {working.listed,
                                        working.listed \union {id[t]}}
                           /\ op[t] = "insert" =>
                                working'.listed = working.listed \union {id[t]}
<1>1. SessionInv /\ TypeOK /\ View = working /\ working \in Database
  BY ViewIsWorking DEF ClientInv, TypeInv, TypeOK
<1>2. tx = "open"
  BY <1>1, Open DEF Prefer, Replace, Record, Reading
<1>3. CASE Prefer(t)
  <2>1. PICK d : /\ Write(d)
                 /\ \/ d \in SetPrefMagOfEvent(working)
                    \/ \E p : d \in SetPrefMag(working, p)
    BY <1>1, <1>3 DEF Prefer
  <2>2. ~Record(t)
    BY <1>3 DEF Prefer, Record
  <2> QED  BY <1>1, <1>2, <2>1, <2>2, WriteEffect, ChosenWork
<1>4. CASE Replace(t)
  <2>1. PICK d : Write(d) /\ (d = working \/ d \in SetPrefMagOfEventByPrefor(working))
    BY <1>1, <1>4 DEF Replace
  <2>2. ~Record(t)
    BY <1>4 DEF Replace, Record
  <2> QED  BY <1>1, <1>2, <2>1, <2>2, WriteEffect, ChosenWork
<1>5. CASE Record(t)
  <2>1. PICK l \in Listings(t) : Write([working EXCEPT !.listed = l])
    BY <1>1, <1>5 DEF Record
  <2>2. /\ l \in {working.listed, working.listed \union {id[t]}}
        /\ op[t] = "insert" => l = working.listed \union {id[t]}
    BY <1>1, <2>1 DEF Listings
  <2>3. working' = [working EXCEPT !.listed = l]
    BY <1>2, <2>1, WriteEffect
  <2>4. /\ working'.listed = l /\ working'.netmag = working.netmag
        /\ working'.prefor = working.prefor /\ working'.prefmag = working.prefmag
    BY <1>1, <2>3 DEF Database
  <2> QED  BY <1>5, <2>2, <2>4
<1> QED  BY <1>3, <1>4, <1>5

LEMMA WorkAfterModify ==
    ASSUME Solo, ClientInv, WorkInv, NEW t \in Threads,
           InsertMagnitude(t) \/ UpdateMagnitude(t) \/ DeleteMagnitude(t)
    PROVE  WorkInv'
<1>1. TypeOK /\ ArgumentsOK /\ working \in Database /\ View = working
      /\ op \in [Threads -> Operations] /\ at \in [Threads -> Places]
      /\ id \in [Threads -> Ids \union {FalseId, NoMagnitude}]
  BY ViewIsWorking DEF ClientInv, TypeInv, TypeOK
<1>2. /\ at[t] = "modify" /\ working = aqms /\ tx = "open"
      /\ aqms' = aqms /\ op' = op
      /\ at' = [at EXCEPT ![t] = "prefer"]
      /\ op[t] # "insert" => id' = id
  BY ModifyStep
<1>3. \A u \in Threads : u = t
  BY DEF Solo
<1>4. at'[t] = "prefer"
  BY <1>1, <1>2
<1>5. SUFFICES /\ \A i \in Existing(aqms) \union Existing(working') : i < next'
               /\ op[t] = "update" => CodaIfAny(aqms, id'[t])
               /\ HalfDone(t)'
  BY <1>2, <1>3 DEF WorkInv, Existing, CodaIfAny
<1>6. \A i \in Existing(aqms) : i < next
  BY DEF WorkInv
<1>7. CASE InsertMagnitude(t)
  <2>1. /\ op[t] = "insert" /\ next \in Ids /\ id'[t] = next /\ next' = next + 1
        /\ Write(InsertNetMag(working, next, orid[t], val[t]))
        /\ orid[t] \in Origins /\ val[t] \in Values
    BY <1>1, <1>7 DEF InsertMagnitude, ArgumentsOK
  <2> DEFINE e == InsertNetMag(working, next, orid[t], val[t])
  <2>2. working' = e
    BY <1>2, <2>1, WriteEffect
  <2>3. /\ \A j \in Ids : j # next => e.netmag[j] = working.netmag[j]
        /\ next \in Existing(e) /\ e.netmag[next].coda
        /\ Existing(e) = Existing(working) \union {next}
        /\ e.prefor = working.prefor /\ e.prefmag = working.prefmag
        /\ e.listed = working.listed
    BY <1>1, <2>1, InsertWork
  <2> HIDE DEF e
  <2>4. next \notin Existing(aqms) /\ next \in Nat /\ Existing(aqms) \subseteq Nat
    BY <1>6, <2>1 DEF Existing, Ids
  <2>5. \A i \in Existing(aqms) \union Existing(working') : i < next'
    BY <1>2, <1>6, <2>1, <2>2, <2>3, <2>4
  <2>6. OneMagnitude(t)'
    BY <1>2, <2>1, <2>2, <2>3, <2>4 DEF OneMagnitude, Existing
  <2>7. ListedSoFar(t)'
    BY <1>2, <1>4, <2>1, <2>2, <2>3 DEF ListedSoFar
  <2> QED  BY <1>2, <2>1, <2>2, <2>3, <2>5, <2>6, <2>7 DEF HalfDone
<1>8. CASE UpdateMagnitude(t)
  <2>1. /\ op[t] = "update" /\ next' = next /\ id' = id
        /\ Write(UpdateNetMag(working, id[t], val[t])) /\ val[t] \in Values
    BY <1>1, <1>8 DEF UpdateMagnitude, ArgumentsOK, localVars
  <2> DEFINE e == UpdateNetMag(working, id[t], val[t])
  <2>2. working' = e
    BY <1>2, <2>1, WriteEffect
  <2>3. /\ \A j \in Ids : j # id[t] => e.netmag[j] = working.netmag[j]
        /\ Existing(e) = Existing(working) /\ CodaIfAny(e, id[t])
        /\ e.prefor = working.prefor /\ e.prefmag = working.prefmag
        /\ e.listed = working.listed
    BY <1>1, <2>1, UpdateWork
  <2> HIDE DEF e
  <2>4. OneMagnitude(t)'
    BY <1>2, <2>1, <2>2, <2>3 DEF OneMagnitude, Existing, CodaIfAny
  <2>5. ListedSoFar(t)'
    BY <1>2, <1>4, <2>1, <2>2, <2>3 DEF ListedSoFar
  <2>6. CodaIfAny(aqms, id[t])
    BY <2>1 DEF WorkInv
  <2> QED  BY <1>2, <1>6, <2>1, <2>2, <2>3, <2>4, <2>5, <2>6 DEF HalfDone
<1>9. CASE DeleteMagnitude(t)
  <2>1. /\ op[t] = "delete" /\ next' = next /\ id' = id
        /\ Write(DeleteNetMag(working, id[t]))
    BY <1>1, <1>9 DEF DeleteMagnitude, localVars
  <2> DEFINE e == DeleteNetMag(working, id[t])
  <2>2. working' = e
    BY <1>2, <2>1, WriteEffect
  <2>3. /\ \A j \in Ids : j # id[t] => e.netmag[j] = working.netmag[j]
        /\ IF id[t] \in Existing(working) /\ working.netmag[id[t]].coda
           THEN id[t] \notin Existing(e) ELSE e.netmag = working.netmag
        /\ Existing(e) \subseteq Existing(working)
        /\ e.prefor = working.prefor /\ e.prefmag = working.prefmag
        /\ e.listed = working.listed \ {id[t]}
    BY <1>1, <2>1, DeleteWork
  <2> HIDE DEF e
  <2>4. OneMagnitude(t)'
    BY <1>2, <2>1, <2>2, <2>3 DEF OneMagnitude, Existing
  <2>5. ListedSoFar(t)'
    BY <1>2, <1>4, <2>1, <2>2, <2>3 DEF ListedSoFar
  <2> QED  BY <1>2, <1>6, <2>1, <2>2, <2>3, <2>4, <2>5 DEF HalfDone
<1> QED  BY <1>7, <1>8, <1>9

LEMMA WorkAfterLater ==
    ASSUME Solo, ClientInv, WorkInv, NEW t \in Threads,
           Prefer(t) \/ Replace(t) \/ Record(t)
    PROVE  WorkInv'
<1>1. /\ TypeOK /\ ArgumentsOK
      /\ op \in [Threads -> Operations] /\ at \in [Threads -> Places]
  BY DEF ClientInv, TypeInv, TypeOK
<1>2. /\ at[t] \in {"prefer", "record"} /\ aqms' = aqms
      /\ op' = op /\ id' = id
      /\ next' = next
  BY LaterStep DEF localVars, Prefer, Replace, Record
<1>3. /\ working'.netmag = working.netmag /\ working'.prefor = working.prefor
      /\ working'.prefmag \in Existing(working) \union {NoMagnitude, working.prefmag}
      /\ ~Record(t) => working'.listed = working.listed
      /\ Record(t) => /\ working'.listed \in {working.listed,
                                   working.listed \union {id[t]}}
                      /\ op[t] = "insert" =>
                           working'.listed = working.listed \union {id[t]}
  BY LaterWork
<1>4. \A u \in Threads : u = t
  BY DEF Solo
<1>5. HalfDone(t) /\ Existing(working') = Existing(working)
  BY <1>2, <1>3 DEF WorkInv, Existing
<1>6. OneMagnitude(t)'
  BY <1>2, <1>3, <1>5 DEF HalfDone, OneMagnitude, Existing, CodaIfAny
<1>7. ListedSoFar(t)'
  <2>1. CASE Record(t)
    <3>1. at[t] = "record" /\ at'[t] = "commit" /\ op[t] # "delete"
          /\ op[t] \in {"insert", "update"}
      BY <1>1, <2>1
      DEF Record, Goto, ArgumentsOK, ChangePlaces, Changes
    <3>2. working.listed = aqms.listed
      BY <1>5, <3>1 DEF HalfDone, ListedSoFar
    <3> QED  BY <1>2, <1>3, <2>1, <3>1, <3>2 DEF ListedSoFar
  <2>2. CASE Prefer(t)
    <3>1. at[t] = "prefer" /\ at'[t] = "record" /\ op[t] # "delete" /\ ~Record(t)
      BY <1>1, <2>2 DEF Prefer, Record, Goto
    <3>2. working.listed = aqms.listed
      BY <1>5, <3>1 DEF HalfDone, ListedSoFar
    <3> QED  BY <1>2, <1>3, <3>1, <3>2 DEF ListedSoFar
  <2>3. CASE Replace(t)
    <3>1. op[t] = "delete" /\ ~Record(t)
      BY <2>3 DEF Replace, Record
    <3>2. working.listed = aqms.listed \ {id[t]}
      BY <1>5, <3>1 DEF HalfDone, ListedSoFar
    <3> QED  BY <1>2, <1>3, <3>1, <3>2 DEF ListedSoFar
  <2> QED  BY <2>1, <2>2, <2>3
<1>8. /\ working'.prefor = aqms'.prefor
      /\ working'.prefmag \in Existing(working)' \union {NoMagnitude, aqms'.prefmag}
  BY <1>2, <1>3, <1>5 DEF HalfDone, Existing
<1>9. HalfDone(t)'
  BY <1>6, <1>7, <1>8 DEF HalfDone
<1> QED  BY <1>2, <1>4, <1>5, <1>9 DEF WorkInv, Existing, CodaIfAny

(* Outside of the transaction's statements nothing is half done.           *)
LEMMA WorkSettled ==
    ASSUME Solo, WorkInv, NEW t \in Threads,
           at'[t] \notin {"prefer", "record", "commit"},
           next' = next,
           Existing(aqms') \union Existing(working')
                \subseteq Existing(aqms) \union Existing(working),
           op'[t] = "update" => CodaIfAny(aqms', id'[t])
    PROVE  WorkInv'
<1>1. \A u \in Threads : u = t
  BY DEF Solo
<1> QED  BY <1>1 DEF WorkInv, Existing, CodaIfAny

LEMMA WorkInit == Init => WorkInv
<1> SUFFICES ASSUME Init PROVE WorkInv
  OBVIOUS
<1>1. ASSUME NEW i \in Existing(aqms) PROVE i < next
  <2>1. PICK f \in [1..Older -> Row \union {Absent}] :
            aqms.netmag = [j \in Ids |-> IF j <= Older THEN f[j] ELSE Absent]
    BY DEF Init, InitialTables
  <2>2. i \in Ids /\ i <= Older
    BY <1>1, <2>1 DEF Existing
  <2> QED  BY <2>2, BoundsAssumption DEF Init, Ids
<1> QED  BY <1>1 DEF Init, NoCalls, WorkInv

LEMMA WorkStep == Solo /\ ClientInv /\ WorkInv /\ [Next]_clientVars => WorkInv'
<1> SUFFICES ASSUME Solo, ClientInv, WorkInv, [Next]_clientVars PROVE WorkInv'
  OBVIOUS
<1>1. ASSUME NEW t \in Threads, Call(t) \/ EndCall(t) PROVE WorkInv'
  <2>1. /\ at'[t] \in {"idle", "origin", "exists"}
        /\ UNCHANGED <<aqms, working>>
        /\ op'[t] = "update" => id'[t] \in CodaOfEvent(aqms) \union {FalseId}
    BY <1>1, CallStep
  <2>2. next' = next
    BY <1>1 DEF Call, EndCall, aqmsVars
  <2>3. FalseId \notin Ids
    BY DEF Ids, FalseId
  <2>4. op'[t] = "update" => CodaIfAny(aqms', id'[t])
    BY <2>1, <2>3 DEF CodaIfAny, CodaOfEvent, Codas, Existing
  <2> QED  BY <2>1, <2>2, <2>4, WorkSettled
<1>2. ASSUME NEW t \in Threads, Read(t) PROVE WorkInv'
  <2>1. /\ at'[t] \in Reading /\ UNCHANGED <<aqms, working, op>>
        /\ op[t] = "update" => id' = id
    BY <1>2, ReadStep
  <2>2. next' = next
    BY <1>2 DEF Read, ReadOrigin, ReadExistence, ReadIdentifier, ReadPreferred
  <2>3. op'[t] = "update" => CodaIfAny(aqms', id'[t])
    BY <2>1 DEF WorkInv
  <2> QED  BY <2>1, <2>2, <2>3, WorkSettled DEF Reading
<1>3. ASSUME NEW t \in Threads, BeginTransaction(t) PROVE WorkInv'
  <2>1. /\ at'[t] = "modify" /\ UNCHANGED <<aqms, working, op, id, next>>
    BY <1>3 DEF BeginTransaction, Goto, localVars, ClientInv, TypeInv, TypeOK
  <2> QED  BY <2>1, WorkSettled DEF WorkInv
<1>4. ASSUME NEW t \in Threads,
             InsertMagnitude(t) \/ UpdateMagnitude(t) \/ DeleteMagnitude(t)
      PROVE  WorkInv'
  BY <1>4, WorkAfterModify
<1>5. ASSUME NEW t \in Threads, Prefer(t) \/ Replace(t) \/ Record(t)
      PROVE  WorkInv'
  BY <1>5, WorkAfterLater
<1>6. ASSUME NEW t \in Threads, End(t) PROVE WorkInv'
  <2>1. /\ at'[t] \in {"returned", "thrown"} /\ working' = aqms'
        /\ aqms' \in {aqms, working} /\ (at[t] = "commit" \/ aqms' = aqms)
        /\ UNCHANGED <<op, id>>
    BY <1>6, EndStep DEF localVars
  <2>2. next' = next
    BY <1>6 DEF End, ConnectionBroken, Commit, StatementFails
  <2>3. op'[t] = "update" => CodaIfAny(aqms', id'[t])
    BY <2>1 DEF WorkInv, HalfDone, OneMagnitude
  <2> QED  BY <2>1, <2>2, <2>3, WorkSettled
<1>7. CASE Relocate \/ PreferOther
  <2>1. /\ aqms'.netmag = aqms.netmag /\ working' = aqms' /\ working = aqms
        /\ tx = "none" /\ UNCHANGED <<at, op, id>>
    BY <1>7, OthersStep DEF localVars
  <2>2. next' = next
    BY <1>7 DEF Relocate, PreferOther, Elsewhere
  <2>3. \A t \in Threads : at'[t] \notin {"prefer", "record", "commit"}
    BY <2>1 DEF ClientInv, SessionInv, Reading
  <2> QED  BY <2>1, <2>2, <2>3 DEF WorkInv, Existing, CodaIfAny
<1>8. CASE Die
  <2>1. /\ aqms' = aqms /\ working' = aqms /\ next' = next
        /\ \A t \in Threads : op'[t] = "none" /\ at'[t] = "idle"
    BY <1>8 DEF Die, Rollback
  <2> QED  BY <2>1 DEF WorkInv, Existing
<1>9. CASE UNCHANGED clientVars
  BY <1>9 DEF clientVars, WorkInv, Existing, CodaIfAny, HalfDone, OneMagnitude, ListedSoFar
<1> QED  BY <1>1, <1>2, <1>3, <1>4, <1>5, <1>6, <1>7, <1>8, <1>9, Kinds

(* While the one transaction is open, its tables differ from the committed *)
(* ones by what the call has done so far.                                  *)
THEOREM WorkInvariant == Solo => (Spec => []WorkInv)
<1> SUFFICES ASSUME Solo PROVE Spec => []WorkInv
  OBVIOUS
<1>1. ClientInv /\ WorkInv /\ [Next]_clientVars => WorkInv'
  BY WorkStep
<1> QED  BY WorkInit, ClientInvariant, <1>1, PTL DEF Spec

(* The committed tables begin as AQMSEvent's do.                           *)
LEMMA TablesInit == Init => Tables!Init
<1> SUFFICES ASSUME Init PROVE Tables!Init
  OBVIOUS
<1>1. aqms \in Database
  BY InitType DEF TypeInv, TypeOK
<1>2. aqms.listed \in SUBSET Ids
  BY BoundsAssumption DEF Init, InitialTables, Ids
<1> QED  BY <1>1, <1>2 DEF Tables!Init, Database, Tables!Row, Row,
                          Tables!NoMagnitude, NoMagnitude

(* Only a commit changes them in a call, by the whole of what was done.    *)
LEMMA CommitIsOneStep ==
    ASSUME ClientInv, WorkInv, NEW t \in Threads, at[t] = "commit", aqms' = working
    PROVE  Tables!Next
<1> DEFINE i == id[t]
<1>1. /\ HalfDone(t) /\ op[t] \in {"insert", "update", "delete"}
      /\ i \in Ids \union {FalseId, NoMagnitude}
  BY DEF WorkInv, ClientInv, TypeInv, TypeOK, ArgumentsOK, ChangePlaces, Changes
<1>2. /\ \A d : Tables!Stored(d) = Existing(d)
      /\ \A d, j : Tables!IsCoda(d, j) <=> j \in Existing(d) /\ d.netmag[j].coda
      /\ Tables!NoMagnitude = NoMagnitude
  BY DEF Tables!Stored, Tables!IsCoda, Existing, Tables!NoMagnitude, NoMagnitude
<1>3. /\ aqms'.prefor = aqms.prefor
      /\ Tables!Preferred(aqms')
      /\ \A j \in Ids : j # i => aqms'.netmag[j] = aqms.netmag[j]
  BY <1>1, <1>2 DEF HalfDone, OneMagnitude, Tables!Preferred
<1>4. ASSUME aqms'.netmag = aqms.netmag,
             aqms'.listed \in {aqms.listed, aqms.listed \union {i}, aqms.listed \ {i}},
             i # NoMagnitude \/ aqms'.listed = aqms.listed
      PROVE  Tables!Settle
  <2>1. PICK j \in Ids \union {0} : aqms'.listed \in
            {aqms.listed, aqms.listed \union {j}, aqms.listed \ {j}}
    BY <1>1, <1>4 DEF FalseId
  <2> QED  BY <1>3, <1>4, <2>1 DEF Tables!Settle
<1>5. CASE op[t] = "insert"
  <2>1. /\ i \in Ids /\ i \notin Existing(aqms)
        /\ i \in Existing(aqms') /\ aqms'.netmag[i].coda
        /\ aqms'.listed = aqms.listed \union {i}
    BY <1>1, <1>5 DEF HalfDone, OneMagnitude, ListedSoFar
  <2>2. Tables!Accept(i)
    BY <1>2, <1>3, <2>1 DEF Tables!Accept, Tables!Only
  <2> QED  BY <2>1, <2>2 DEF Tables!Next
<1>6. CASE op[t] = "update"
  <2>1. /\ i \in Existing(aqms') <=> i \in Existing(aqms)
        /\ CodaIfAny(aqms', i) /\ CodaIfAny(aqms, i)
        /\ aqms'.listed \in {aqms.listed, aqms.listed \union {i}}
        /\ i # NoMagnitude
    BY <1>1, <1>6 DEF HalfDone, OneMagnitude, ListedSoFar, WorkInv, ClientInv, TypeInv,
                      ArgumentsOK
  <2>2. CASE i \in Existing(aqms)
    <3>1. i \in Ids
      BY <2>2 DEF Existing
    <3>2. Tables!Accept(i)
      BY <1>2, <1>3, <2>1, <2>2, <3>1 DEF Tables!Accept, Tables!Only, CodaIfAny
    <3> QED  BY <3>1, <3>2 DEF Tables!Next
  <2>3. CASE i \notin Existing(aqms)
    <3>1. \A j \in Ids : aqms'.netmag[j] = aqms.netmag[j]
      BY <1>3, <2>1, <2>3 DEF Existing
    <3>2. aqms.netmag \in [Ids -> Row \union {Absent}]
          /\ aqms'.netmag \in [Ids -> Row \union {Absent}]
      BY DEF ClientInv, TypeInv, TypeOK, Database
    <3>3. aqms'.netmag = aqms.netmag
      BY <3>1, <3>2
    <3> QED  BY <1>4, <2>1, <3>3 DEF Tables!Next
  <2> QED  BY <2>2, <2>3
<1>7. CASE op[t] = "delete"
  <2>1. /\ IF i \in Existing(aqms) /\ aqms.netmag[i].coda
           THEN i \notin Existing(aqms') ELSE aqms'.netmag = aqms.netmag
        /\ aqms'.listed = aqms.listed \ {i}
    BY <1>1, <1>7 DEF HalfDone, OneMagnitude, ListedSoFar
  <2>2. CASE i \in Existing(aqms) /\ aqms.netmag[i].coda
    <3>1. i \in Ids
      BY <2>2 DEF Existing
    <3>2. Tables!Reject(i)
      BY <1>2, <1>3, <2>1, <2>2 DEF Tables!Reject, Tables!Only
    <3> QED  BY <3>1, <3>2 DEF Tables!Next
  <2>3. CASE ~(i \in Existing(aqms) /\ aqms.netmag[i].coda)
    <3>1. i = NoMagnitude => aqms'.listed = aqms.listed
      <4>1. aqms.listed \subseteq Ids \union {FalseId}
        BY DEF ClientInv, TypeInv, TypeOK, Database
      <4>2. NoMagnitude \notin Ids \union {FalseId}
        BY DEF Ids, FalseId, NoMagnitude
      <4> QED  BY <2>1, <4>1, <4>2
    <3> QED  BY <1>4, <2>1, <2>3, <3>1 DEF Tables!Next
  <2> QED  BY <2>2, <2>3
<1> QED  BY <1>1, <1>5, <1>6, <1>7

(* Other programs take AQMSEvent's steps of the same names.                *)
LEMMA OthersAreAllowed ==
    ASSUME ClientInv, Relocate \/ PreferOther
    PROVE  Tables!Next
<1>1. CASE Relocate
  BY <1>1 DEF Relocate, Elsewhere, Tables!Next, Tables!Relocate
<1>2. CASE PreferOther
  BY <1>2 DEF PreferOther, Elsewhere, Existing, Tables!Next, Tables!Prefer,
              Tables!Stored
<1> QED  BY <1>1, <1>2

LEMMA TablesStep ==
    Solo /\ ClientInv /\ WorkInv /\ [Next]_clientVars => [Tables!Next]_aqms
<1> SUFFICES ASSUME Solo, ClientInv, WorkInv, [Next]_clientVars, aqms' # aqms
             PROVE  Tables!Next
  OBVIOUS
<1>1. ASSUME NEW t \in Threads, Call(t) \/ EndCall(t) PROVE FALSE
  BY <1>1, CallStep
<1>2. ASSUME NEW t \in Threads, Read(t) \/ BeginTransaction(t) PROVE FALSE
  BY <1>2, ReadStep DEF BeginTransaction
<1>3. ASSUME NEW t \in Threads,
             \/ InsertMagnitude(t) \/ UpdateMagnitude(t) \/ DeleteMagnitude(t)
             \/ Prefer(t) \/ Replace(t) \/ Record(t)
      PROVE  FALSE
  BY <1>3, ModifyStep, LaterStep
<1>4. ASSUME NEW t \in Threads, End(t) PROVE Tables!Next
  BY <1>4, EndStep, CommitIsOneStep
<1>5. CASE Relocate \/ PreferOther
  BY <1>5, OthersAreAllowed
<1>6. CASE Die \/ UNCHANGED clientVars
  BY <1>6 DEF Die, Rollback, clientVars
<1> QED  BY <1>1, <1>2, <1>3, <1>4, <1>5, <1>6, Kinds

(* With a single request thread, the committed tables implement AQMSEvent: *)
(* whatever fails and whenever the process dies, a review's changes are    *)
(* seen as one step or not at all.                                         *)
THEOREM AllOrNothingHolds == Solo => (Spec => AllOrNothing)
<1> SUFFICES ASSUME Solo PROVE Spec => AllOrNothing
  OBVIOUS
<1>1. ClientInv /\ WorkInv /\ [Next]_clientVars => [Tables!Next]_aqms
  BY TablesStep
<1> QED  BY TablesInit, ClientInvariant, WorkInvariant, <1>1, PTL
         DEF Spec, AllOrNothing, Tables!Spec
=============================================================================
