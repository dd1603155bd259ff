-------------------------- MODULE AQMSPostgresClient --------------------------
(***************************************************************************)
(* The AQMS client of the CCT review backend, src/aqmsPostgresClient.cpp.  *)
(*                                                                         *)
(* An accepted review inserts or updates the coda magnitude of an event in *)
(* the network's AQMS database, a rejected one deletes it.  Each of these  *)
(* calls first asks, in queries of their own, whether the magnitude exists *)
(* and which magnitude is preferred, and then changes the tables in one    *)
(* transaction that relies on the answers.  A read query that fails is     *)
(* answered like one that found nothing, and other programs work on the    *)
(* same tables.                                                            *)
(*                                                                         *)
(* The model holds the rows of one event: nothing in a call concerns more  *)
(* than one.  All threads of the program share one database session, and   *)
(* with it the transaction.                                                *)
(***************************************************************************)
EXTENDS Integers, FiniteSets

CONSTANTS
    Threads,        \* request threads, one by default
    Origins,        \* origins (locations) of the event
    Values,         \* sizes of a magnitude
    Absent,         \* no row
    ReadsFail,      \* may a read query fail on a connection that looks sound
    MaxId,          \* bound: magnitude identifiers
    Older,          \* bound: magnitudes there are when the program starts
    MaxOthers       \* bound: changes made by other programs

ASSUME SwitchAssumption == ReadsFail \in BOOLEAN
ASSUME BoundsAssumption == MaxId \in Nat /\ Older \in 0..MaxId
                           /\ MaxOthers \in Nat

Ids == 1..MaxId

(* Optional identifiers: -1 is std::nullopt.  Zero is what `return false'  *)
(* converts to in a function that returns std::optional<int64_t>.          *)
NoMagnitude == -1
FalseId == 0

(* A row of netmag.  "coda" stands for magtype "w" and magalgo "LLNLCCT".  *)
Row == [orid : Origins, coda : BOOLEAN, val : Values]

ASSUME AbsentAssumption == Absent \notin Row

(* The event's rows: event.prefor, event.prefmag, its magnitudes, and the  *)
(* magnitudes named by its row(s) of type "w" in eventprefmag.             *)
Database == [prefor : Origins,
             prefmag : Ids \union {NoMagnitude},
             netmag : [Ids -> Row \union {Absent}],
             listed : SUBSET (Ids \union {FalseId})]

Operations == {"none", "origin", "find", "exists", "insert", "update", "delete"}
Changes == {"insert", "update", "delete"}
Places == {"idle", "origin", "exists", "find", "prefmag", "begin", "modify",
           "prefer", "record", "commit", "returned", "thrown"}

VARIABLES
    aqms,           \* the committed tables, external
    working,        \* the tables as an open transaction has changed them
    tx,             \* the session's transaction: none, open or aborted
    next,           \* the sequence of magnitude identifiers, external
    others,         \* changes made by other programs so far
    op,             \* the call each thread is in
    at,             \* where it stands in the call
    orid,           \* origin: an argument of insert, the result of origin
    val,            \* magnitude argument
    id,             \* magnitude identifier: argument, local and result
    found,          \* result of mwCodaMagnitudeExists
    pref,           \* currentPreferredMagnitudeIdentifier
    sure,           \* history: existence was looked up, on origin orid
    excused         \* history: what was done on a wrong belief

aqmsVars == <<aqms, working, tx, next, others, excused>>
localVars == <<op, orid, val, id, found, pref, sure>>
clientVars == <<aqms, working, tx, next, others, op, at, orid, val, id, found,
                pref, sure, excused>>

-----------------------------------------------------------------------------
(***************************************************************************)
(* What the statements read and do.                                        *)
(***************************************************************************)
Existing(d) == {i \in Ids : d.netmag[i] # Absent}
Codas(d, o) == {i \in Existing(d) : d.netmag[i].coda /\ d.netmag[i].orid = o}

(* The queries join event, origin and netmag: only the preferred origin.   *)
CodaOfEvent(d) == Codas(d, d.prefor)

InsertNetMag(d, i, o, v) ==
    [d EXCEPT !.netmag = [d.netmag EXCEPT ![i] =
        [orid |-> o, coda |-> TRUE, val |-> v]]]

UpdateNetMag(d, i, v) ==
    [d EXCEPT !.netmag = [j \in Ids |->
        IF j = i /\ d.netmag[j] # Absent
        THEN [orid |-> d.netmag[j].orid, coda |-> TRUE, val |-> v]
        ELSE d.netmag[j]]]

(* From netmag, if it is a coda magnitude, and from eventprefmag.          *)
DeleteNetMag(d, i) ==
    [d EXCEPT !.netmag = [j \in Ids |->
                  IF j = i /\ j \in Existing(d) /\ d.netmag[j].coda
                  THEN Absent ELSE d.netmag[j]],
              !.listed = d.listed \ {i}]

(* The stored procedures, external.  They are functions, called by SELECT, *)
(* and cannot commit, whatever they are told.  The preferred magnitude     *)
(* is chosen by rules that may also leave it alone (the status returned is *)
(* only logged); is set to p, or not (the caller allows for both); is      *)
(* chosen among the magnitudes of the preferred origin.                    *)
SetPrefMagOfEvent(d) ==
    {[d EXCEPT !.prefmag = p] : p \in Existing(d) \union {d.prefmag}}
SetPrefMag(d, p) ==
    {[d EXCEPT !.prefmag = q] : q \in ({p} \cap Existing(d)) \union {d.prefmag}}
SetPrefMagOfEventByPrefor(d) ==
    LET candidates == {i \in Existing(d) : d.netmag[i].orid = d.prefor}
    IN  {[d EXCEPT !.prefmag = p] :
            p \in IF candidates = {} THEN {NoMagnitude} ELSE candidates}

-----------------------------------------------------------------------------
(***************************************************************************)
(* The session.                                                            *)
(***************************************************************************)
View == IF tx = "open" THEN working ELSE aqms

(* A statement changes what the transaction sees or, outside of one, the   *)
(* tables.  Nothing is executed in an aborted transaction.                 *)
Write(d) ==
    /\ tx # "aborted"
    /\ working' = d
    /\ aqms' = IF tx = "open" THEN aqms ELSE d
    /\ tx' = tx

(* soci::transaction is destroyed before it has committed.                 *)
Rollback == working' = aqms /\ tx' = "none" /\ UNCHANGED aqms

(* A query is answered or fails, and a failure aborts the transaction.     *)
Query(answered) ==
    /\ answered => tx # "aborted"
    /\ ~answered => ReadsFail \/ tx = "aborted"
    /\ tx' = IF tx = "open" /\ ~answered THEN "aborted" ELSE tx
    /\ UNCHANGED <<aqms, working>>

Goto(t, place) == at' = [at EXCEPT ![t] = place]

-----------------------------------------------------------------------------
(***************************************************************************)
(* The reads.                                                              *)
(***************************************************************************)
(* getPreferredOriginIdentifier throws unless it finds the origin; the     *)
(* mutant returns its -1.                                                  *)
ReturnSentinel(t) ==
    /\ at[t] = "origin"
    /\ \E answered \in BOOLEAN :
        /\ Query(answered)
        /\ orid' = [orid EXCEPT ![t] = IF answered THEN View.prefor ELSE -1]
        /\ Goto(t, "returned")
    /\ UNCHANGED <<next, others, op, val, id, found, pref, sure, excused>>
ReadOrigin(t) ==
    /\ at[t] = "origin"
    /\ \E answered \in BOOLEAN :
        /\ Query(answered)
        /\ orid' = [orid EXCEPT ![t] = IF answered THEN View.prefor ELSE @]
        /\ Goto(t, IF answered THEN "returned" ELSE "thrown")
    /\ UNCHANGED <<next, others, op, val, id, found, pref, sure, excused>>

(* What each call does with the answer of mwCodaMagnitudeExists.           *)
InsertAnyway(o, exists) ==     \* mutant: insert does not look at the answer
    CASE o = "exists" -> "returned"
      [] o \in {"find", "delete"} -> IF exists THEN "find" ELSE "returned"
      [] o = "insert" -> "prefmag"
      [] OTHER -> IF exists THEN "prefmag" ELSE "thrown"
AfterExists(o, exists) ==
    CASE o = "exists" -> "returned"
      [] o \in {"find", "delete"} -> IF exists THEN "find" ELSE "returned"
      [] o = "insert" -> IF exists THEN "thrown" ELSE "prefmag"
      [] OTHER -> IF exists THEN "prefmag" ELSE "thrown"

(* mwCodaMagnitudeExists: a query that fails counts as "no".               *)
ReadExistence(t) ==
    /\ at[t] = "exists"
    /\ \E answered \in BOOLEAN :
        LET exists == answered /\ CodaOfEvent(View) # {}
        IN  /\ Query(answered)
            /\ found' = [found EXCEPT ![t] = exists]
            /\ sure' = [sure EXCEPT ![t] = answered /\ View.prefor = orid[t]]
            /\ Goto(t, AfterExists(op[t], exists))
    /\ UNCHANGED <<next, others, op, orid, val, id, pref, excused>>

(* The second query of getMwCodaMagnitudeIdentifier: a row, no row, or     *)
(* `return false'.  deleteNetworkMagnitude returns when there is none.     *)
FoundIds(answered) ==
    IF ~answered THEN {FalseId}
    ELSE IF CodaOfEvent(View) = {} THEN {NoMagnitude} ELSE CodaOfEvent(View)

ReadIdentifier(t) ==
    /\ at[t] = "find"
    /\ \E answered \in BOOLEAN, i \in Ids \union {FalseId, NoMagnitude} :
        /\ Query(answered)
        /\ i \in FoundIds(answered)
        /\ id' = [id EXCEPT ![t] = i]
        /\ Goto(t, IF op[t] = "delete" /\ i # NoMagnitude THEN "prefmag"
                                                          ELSE "returned")
    /\ UNCHANGED <<next, others, op, orid, val, found, pref, sure, excused>>

(* getPreferredMagnitudeIdentifier: a query that fails counts as "none".   *)
ReadPreferred(t) ==
    /\ at[t] = "prefmag"
    /\ \E answered \in BOOLEAN :
        /\ Query(answered)
        /\ pref' = [pref EXCEPT ![t] =
                        IF answered THEN View.prefmag ELSE NoMagnitude]
    /\ Goto(t, "begin")
    /\ UNCHANGED <<next, others, op, orid, val, id, found, sure, excused>>

(* These three reads look at the connection first and throw if it is       *)
(* broken and cannot be restored.  The server drops what was open on it.   *)
ConnectionBroken(t) ==
    /\ at[t] \in {"origin", "exists", "prefmag"}
    /\ Rollback
    /\ Goto(t, "thrown")
    /\ UNCHANGED <<next, others, localVars, excused>>

-----------------------------------------------------------------------------
(***************************************************************************)
(* The transactions.                                                       *)
(***************************************************************************)
(* BEGIN within a transaction is only warned of.  The mutant has none.     *)
NoTransaction(t) ==
    /\ at[t] = "begin"
    /\ Goto(t, "modify")
    /\ UNCHANGED <<aqms, working, tx, next, others, localVars, excused>>
BeginTransaction(t) ==
    /\ at[t] = "begin"
    /\ tx' = IF tx = "none" THEN "open" ELSE tx
    /\ Goto(t, "modify")
    /\ UNCHANGED <<aqms, working, next, others, localVars, excused>>

InsertMagnitude(t) ==
    /\ at[t] = "modify" /\ op[t] = "insert"
    /\ next \in Ids
    /\ Write(InsertNetMag(View, next, orid[t], val[t]))
    /\ id' = [id EXCEPT ![t] = next]
    /\ next' = next + 1
    /\ excused' = IF sure[t] THEN excused ELSE excused \union {"insert"}
    /\ Goto(t, "prefer")
    /\ UNCHANGED <<others, op, orid, val, found, pref, sure>>

UpdateMagnitude(t) ==
    /\ at[t] = "modify" /\ op[t] = "update"
    /\ Write(UpdateNetMag(View, id[t], val[t]))
    /\ Goto(t, "prefer")
    /\ UNCHANGED <<next, others, localVars, excused>>

(* The preferred magnitude to be deleted was not the preferred one when    *)
(* the call looked.                                                        *)
BecamePreferred(t) ==
    View.prefmag = id[t] /\ pref[t] \notin {id[t], NoMagnitude}

DeleteMagnitude(t) ==
    /\ at[t] = "modify" /\ op[t] = "delete"
    /\ Write(DeleteNetMag(View, id[t]))
    /\ excused' = IF BecamePreferred(t) THEN excused \union {"delete"}
                                        ELSE excused
    /\ Goto(t, "prefer")
    /\ UNCHANGED <<next, others, localVars>>

(* updatePrefMag, false in both calls of the callback.                     *)
updatePrefMag == FALSE
doPrefMagLogic(t) == updatePrefMag \/ pref[t] = NoMagnitude

(* changePrefMag of deleteNetworkMagnitude.                                *)
OnlyIfNone(t) == pref[t] = NoMagnitude     \* mutant: the comparison is missing
changePrefMag(t) == pref[t] \in {id[t], NoMagnitude}

(* The preferred magnitude after an insertion or update.                   *)
Prefer(t) ==
    /\ at[t] = "prefer" /\ op[t] # "delete"
    /\ IF doPrefMagLogic(t)
       THEN \E d \in SetPrefMagOfEvent(View) : Write(d)
       ELSE \E d \in SetPrefMag(View, pref[t]) : Write(d)
    /\ Goto(t, "record")
    /\ UNCHANGED <<next, others, localVars, excused>>

(* The preferred magnitude after a deletion; else only the event's version *)
(* is bumped, which is not modelled.                                       *)
Replace(t) ==
    /\ at[t] = "prefer" /\ op[t] = "delete"
    /\ IF changePrefMag(t)
       THEN \E d \in SetPrefMagOfEventByPrefor(View) : Write(d)
       ELSE Write(View)
    /\ Goto(t, "commit")
    /\ UNCHANGED <<next, others, localVars, excused>>

(* The row of eventprefmag.  An update does without it under the rules of  *)
(* preference, and else lets a row that is there stand.  The version of    *)
(* the event and the credit row are not modelled.                          *)
Listings(t) ==
    LET with == View.listed \union {id[t]}
    IN  IF op[t] = "insert" THEN {with}
        ELSE IF doPrefMagLogic(t) THEN {View.listed} ELSE {View.listed, with}

Record(t) ==
    /\ at[t] = "record"
    /\ \E l \in Listings(t) : Write([View EXCEPT !.listed = l])
    /\ Goto(t, "commit")
    /\ UNCHANGED <<next, others, localVars, excused>>

(* COMMIT of an aborted transaction rolls back without an error; outside   *)
(* of one it does nothing.  Its answer may be lost.                        *)
Commit(t) ==
    /\ at[t] = "commit"
    /\ aqms' = View /\ working' = View /\ tx' = "none"
    /\ \E place \in {"returned", "thrown"} : Goto(t, place)
    /\ UNCHANGED <<next, others, localVars, excused>>

(* A statement fails: the exception leaves the call through the            *)
(* destructor of the transaction.                                          *)
StatementFails(t) ==
    /\ at[t] \in {"begin", "modify", "prefer", "record", "commit"}
    /\ Rollback
    /\ Goto(t, "thrown")
    /\ UNCHANGED <<next, others, localVars, excused>>

ClientStep(t) ==
    \/ ReadOrigin(t) \/ ReadExistence(t) \/ ReadIdentifier(t)
    \/ ReadPreferred(t) \/ ConnectionBroken(t)
    \/ BeginTransaction(t)
    \/ InsertMagnitude(t) \/ UpdateMagnitude(t) \/ DeleteMagnitude(t)
    \/ Prefer(t) \/ Replace(t) \/ Record(t) \/ Commit(t) \/ StatementFails(t)

-----------------------------------------------------------------------------
(***************************************************************************)
(* Calls, and what is outside of the client.                               *)
(***************************************************************************)
StartCall(t, o, origin, v, i) ==
    /\ op' = [op EXCEPT ![t] = o]
    /\ orid' = [orid EXCEPT ![t] = origin]
    /\ val' = [val EXCEPT ![t] = v]
    /\ id' = [id EXCEPT ![t] = i]
    /\ found' = [found EXCEPT ![t] = FALSE]
    /\ pref' = [pref EXCEPT ![t] = NoMagnitude]
    /\ sure' = [sure EXCEPT ![t] = FALSE]
    /\ Goto(t, CASE o = "none" -> "idle"
                 [] o = "origin" -> "origin"
                 [] OTHER -> "exists")

(* Arguments a caller may have: an origin that was the preferred one, an   *)
(* identifier that was found.                                              *)
ReadCall(t) ==
    \E o \in {"origin", "find", "exists", "delete"} :
        StartCall(t, o, Absent, Absent, NoMagnitude)
InsertCall(t) ==
    \E o \in Origins, v \in Values : StartCall(t, "insert", o, v, NoMagnitude)
UpdateCall(t) ==
    \E v \in Values, i \in CodaOfEvent(View) \union {FalseId} :
        StartCall(t, "update", Absent, v, i)

Call(t) ==
    /\ at[t] = "idle"
    /\ ReadCall(t) \/ InsertCall(t) \/ UpdateCall(t)
    /\ UNCHANGED aqmsVars

Finished(t) == at[t] \in {"returned", "thrown"}

EndCall(t) ==
    /\ Finished(t)
    /\ StartCall(t, "none", Absent, Absent, NoMagnitude)
    /\ UNCHANGED aqmsVars

(* Other programs relocate the event or prefer another magnitude.  What    *)
(* they do while our transaction is open comes before or after all of it,  *)
(* for it holds the locks of the rows it has changed.                      *)
Elsewhere(d) ==
    /\ tx = "none"
    /\ others < MaxOthers
    /\ others' = others + 1
    /\ aqms' = d /\ working' = d
    /\ UNCHANGED <<tx, next, op, at, orid, val, id, found, pref, sure, excused>>

Relocate == \E o \in Origins : Elsewhere([aqms EXCEPT !.prefor = o])
PreferOther == \E p \in Existing(aqms) : Elsewhere([aqms EXCEPT !.prefmag = p])

(* The process dies: its calls are forgotten, its transaction rolled back. *)
NoCalls ==
    /\ op = [t \in Threads |-> "none"]
    /\ at = [t \in Threads |-> "idle"]
    /\ orid = [t \in Threads |-> Absent]
    /\ val = [t \in Threads |-> Absent]
    /\ id = [t \in Threads |-> NoMagnitude]
    /\ found = [t \in Threads |-> FALSE]
    /\ pref = [t \in Threads |-> NoMagnitude]
    /\ sure = [t \in Threads |-> FALSE]

Die ==
    /\ Rollback
    /\ op' = [t \in Threads |-> "none"]
    /\ at' = [t \in Threads |-> "idle"]
    /\ orid' = [t \in Threads |-> Absent]
    /\ val' = [t \in Threads |-> Absent]
    /\ id' = [t \in Threads |-> NoMagnitude]
    /\ found' = [t \in Threads |-> FALSE]
    /\ pref' = [t \in Threads |-> NoMagnitude]
    /\ sure' = [t \in Threads |-> FALSE]
    /\ UNCHANGED <<next, others, excused>>

(* Magnitudes that are there when the program starts.                      *)
OneCodaIn(d) == \A o \in Origins : \A i, j \in Codas(d, o) : i = j
PreferredIn(d) == d.prefmag \in Existing(d) \union {NoMagnitude}

Sound(d) ==
    /\ OneCodaIn(d)
    /\ PreferredIn(d)
    /\ \A i \in d.listed : i \in Existing(d) /\ d.netmag[i].coda

InitialTables ==
    {d \in [prefor : Origins, prefmag : (1..Older) \union {NoMagnitude},
            netmag : {[i \in Ids |-> IF i <= Older THEN f[i] ELSE Absent] :
                        f \in [1..Older -> Row \union {Absent}]},
            listed : SUBSET (1..Older)] : Sound(d)}

Init ==
    /\ aqms \in InitialTables
    /\ working = aqms
    /\ tx = "none"
    /\ next = Older + 1
    /\ others = 0
    /\ excused = {}
    /\ NoCalls

Next ==
    \/ \E t \in Threads : Call(t) \/ ClientStep(t) \/ EndCall(t)
    \/ Relocate \/ PreferOther \/ Die

Spec == Init /\ [][Next]_clientVars

-----------------------------------------------------------------------------
(***************************************************************************)
(* Properties.                                                             *)
(***************************************************************************)
(* Every variable has values of its kind.                                  *)
TypeOK ==
    /\ aqms \in Database /\ working \in Database
    /\ tx \in {"none", "open", "aborted"}
    /\ next \in Nat /\ others \in 0..MaxOthers
    /\ excused \subseteq {"insert", "delete"}
    /\ op \in [Threads -> Operations]
    /\ at \in [Threads -> Places]
    /\ orid \in [Threads -> Origins \union {Absent}]
    /\ val \in [Threads -> Values \union {Absent}]
    /\ id \in [Threads -> Ids \union {FalseId, NoMagnitude}]
    /\ found \in [Threads -> BOOLEAN]
    /\ pref \in [Threads -> Ids \union {NoMagnitude}]
    /\ sure \in [Threads -> BOOLEAN]

(* An origin has at most one coda magnitude in the committed tables, since *)
(* insertNetworkMagnitude refuses when there is one, unless some insertion *)
(* was made after a failed existence query, or on an origin other than the *)
(* one the query was about.                                                *)
OneCoda == "insert" \in excused \/ OneCodaIn(aqms)

(* The preferred magnitude of the event is one that exists: deleting the   *)
(* preferred one replaces it in the same transaction, unless it became     *)
(* preferred after deleteNetworkMagnitude had looked.                      *)
PreferredExists == "delete" \in excused \/ PreferredIn(aqms)

(* With one thread the committed tables change as AQMSEvent promises: a    *)
(* call has its whole effect or none.                                      *)
Tables == INSTANCE AQMSEvent WITH tables <- aqms
AllOrNothing == Tables!Spec

(* What insertNetworkMagnitude says when it throws, "Mw,Coda netmag        *)
(* already exists": there is never a second one on an origin.              *)
NeverASecondCoda == OneCodaIn(aqms)

-----------------------------------------------------------------------------
(***************************************************************************)
(* Why the properties hold, for a single request thread.                   *)
(***************************************************************************)
Solo == \A t, u \in Threads : t = u

Reading == {"idle", "origin", "exists", "find", "prefmag", "begin", "returned",
            "thrown"}

(* The transaction is open from BEGIN to COMMIT, and no query is made in   *)
(* it.                                                                     *)
SessionInv ==
    /\ tx # "aborted"
    /\ tx = "none" => working = aqms
    /\ \A t \in Threads :
        /\ tx = "none" <=> at[t] \in Reading
        /\ at[t] = "modify" => working = aqms

(* An insertion that is sure of itself finds no coda magnitude, and an     *)
(* update turns none into one.                                             *)
CodaIfAny(d, i) == i \in Existing(d) => d.netmag[i].coda

OneCodaInv ==
    \/ "insert" \in excused
    \/ /\ OneCodaIn(aqms) /\ OneCodaIn(working)
       /\ \A t \in Threads :
            /\ op[t] = "insert" /\ sure[t]
            /\ at[t] \in {"prefmag", "begin", "modify"}
            => Codas(aqms, orid[t]) = {}
       /\ \A t \in Threads : op[t] = "update" =>
            CodaIfAny(aqms, id[t]) /\ CodaIfAny(working, id[t])

(* In the transaction the preferred magnitude may be gone, if the call is  *)
(* about to replace it.                                                    *)
PreferredInv ==
    \/ "delete" \in excused
    \/ /\ PreferredIn(aqms)
       /\ \/ PreferredIn(working)
          \/ \E t \in Threads :
                at[t] = "prefer" /\ op[t] = "delete" /\ changePrefMag(t)

(* Every call has the arguments it needs and goes the way of its kind.     *)
ChangePlaces == {"prefmag", "begin", "modify", "prefer", "record", "commit"}

ArgumentsOK ==
    \A t \in Threads :
        /\ op[t] = "insert" => orid[t] \in Origins
        /\ op[t] \in {"insert", "update"} => val[t] \in Values
        /\ at[t] = "exists" => op[t] \in {"find", "exists"} \union Changes
        /\ at[t] = "find" => op[t] \in {"find", "delete"}
        /\ at[t] \in ChangePlaces => op[t] \in Changes
        /\ at[t] = "record" => op[t] # "delete"
        /\ \/ op[t] = "update"
           \/ op[t] = "insert" /\ at[t] \in {"prefer", "record"}
           => id[t] # NoMagnitude

TypeInv == TypeOK /\ ArgumentsOK

(* The inductive invariant.                                                *)
ClientInv == TypeInv /\ SessionInv /\ OneCodaInv /\ PreferredInv

(* Why AllOrNothing holds: while the transaction is open, the tables it    *)
(* has worked on differ from the committed ones by what the call has done  *)
(* so far to its own magnitude, to the preferred one and to the listing.   *)
OneMagnitude(t) ==
    LET i == id[t] IN
    /\ \A j \in Ids : j # i => working.netmag[j] = aqms.netmag[j]
    /\ op[t] = "insert" => /\ i \in Ids \ Existing(aqms)
                           /\ i \in Existing(working) /\ working.netmag[i].coda
    /\ op[t] = "update" => /\ i \in Existing(working) <=> i \in Existing(aqms)
                           /\ CodaIfAny(working, i)
    /\ op[t] = "delete" => IF i \in Existing(aqms) /\ aqms.netmag[i].coda
                           THEN i \notin Existing(working)
                           ELSE working.netmag = aqms.netmag

ListedSoFar(t) ==
    LET with == aqms.listed \union {id[t]} IN
    /\ op[t] = "delete" => working.listed = aqms.listed \ {id[t]}
    /\ op[t] # "delete" /\ at[t] # "commit" => working.listed = aqms.listed
    /\ op[t] = "insert" /\ at[t] = "commit" => working.listed = with
    /\ op[t] = "update" /\ at[t] = "commit" =>
            working.listed \in {aqms.listed, with}

HalfDone(t) ==
    /\ OneMagnitude(t)
    /\ ListedSoFar(t)
    /\ working.prefor = aqms.prefor
    /\ working.prefmag \in Existing(working) \union {NoMagnitude, aqms.prefmag}

WorkInv ==
    /\ \A i \in Existing(aqms) \union Existing(working) : i < next
    /\ \A t \in Threads : op[t] = "update" => CodaIfAny(aqms, id[t])
    /\ \A t \in Threads : at[t] \in {"prefer", "record", "commit"} => HalfDone(t)
=============================================================================
