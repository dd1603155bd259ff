------------------------------- MODULE AQMSEvent -------------------------------
(***************************************************************************)
(* What a review promises about one event of the AQMS database: its tables *)
(* change in single steps, each of which concerns one coda magnitude,      *)
(* together with the row that lists it, and leaves every other magnitude   *)
(* alone.  In particular nobody sees a magnitude that is not listed yet,   *)
(* or one that is gone and still listed.                                   *)
(***************************************************************************)
EXTENDS Integers, FiniteSets

CONSTANTS
    Origins,
    Values,
    Ids,            \* magnitude identifiers
    Absent          \* no row

NoMagnitude == -1
Row == [orid : Origins, coda : BOOLEAN, val : Values]

VARIABLE tables

Stored(d) == {i \in Ids : d.netmag[i] # Absent}
IsCoda(d, i) == i \in Stored(d) /\ d.netmag[i].coda

Init ==
    tables \in [prefor : Origins,
                prefmag : Ids \union {NoMagnitude},
                netmag : [Ids -> Row \union {Absent}],
                listed : SUBSET Ids]

(* Only magnitude i differs.                                               *)
Only(i) == \A j \in Ids \ {i} : tables'.netmag[j] = tables.netmag[j]

(* The preferred magnitude is kept or chosen among those there are.        *)
Preferred(d) == d.prefmag \in Stored(d) \union {NoMagnitude, tables.prefmag}

Accept(i) ==
    /\ Only(i)
    /\ IsCoda(tables, i) \/ i \notin Stored(tables)
    /\ IsCoda(tables', i)
    /\ i \notin Stored(tables) => i \in tables'.listed
    /\ tables'.listed \in {tables.listed, tables.listed \union {i}}
    /\ Preferred(tables')
    /\ tables'.prefor = tables.prefor

Reject(i) ==
    /\ Only(i)
    /\ IsCoda(tables, i)
    /\ i \notin Stored(tables')
    /\ tables'.listed = tables.listed \ {i}
    /\ Preferred(tables')
    /\ tables'.prefor = tables.prefor

(* A review that looked for the magnitude in vain, or found it gone, may   *)
(* still settle the preferred magnitude and list what is not there.        *)
Settle ==
    /\ tables'.netmag = tables.netmag
    /\ \E i \in Ids \union {0} :
        tables'.listed \in
            {tables.listed, tables.listed \union {i}, tables.listed \ {i}}
    /\ Preferred(tables')
    /\ tables'.prefor = tables.prefor

(* Other programs.                                                         *)
Relocate == \E o \in Origins : tables' = [tables EXCEPT !.prefor = o]
Prefer == \E p \in Stored(tables) : tables' = [tables EXCEPT !.prefmag = p]

Next ==
    \/ \E i \in Ids : Accept(i) \/ Reject(i)
    \/ Settle \/ Relocate \/ Prefer

Spec == Init /\ [][Next]_tables
=============================================================================
