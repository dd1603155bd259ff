----------------------------- MODULE ReviewService -----------------------------
(***************************************************************************)
(* What the CCT event service promises its callers, the requests: events   *)
(* that are shown have a row, and are shown as one of the rows they have   *)
(* had since the service started, not always the current one; a review of  *)
(* an event that is shown rewrites the row of that event or leaves it, at  *)
(* most once and nobody else's, and does not succeed without.              *)
(***************************************************************************)
CONSTANTS Schemas, Events, Reviewers, Rows, None

VARIABLES
    row,            \* row of each event, None if it has none
    recent,         \* rows it has had since the service started
    shown,          \* the row the event data show, None if they have no event
    call            \* the review each request thread has under way

serviceVars == <<row, recent, shown, call>>

NoCall == [state |-> "none"]
CallOf(s, e, state) == [state |-> state, schema |-> s, event |-> e]

Init ==
    /\ row \in [Schemas -> [Events -> Rows \union {None}]]
    /\ recent = [s \in Schemas |-> [e \in Events |-> {row[s][e]} \ {None}]]
    /\ shown \in [Schemas -> [Events -> Rows \union {None}]]
    /\ \A s \in Schemas, e \in Events : shown[s][e] \in {None, row[s][e]}
    /\ call = [u \in Reviewers |-> NoCall]

(* Every row is a new one.                                                 *)
Write(s, e) ==
    LET new == row'[s][e]
    IN  /\ new \in Rows \ recent[s][e]
        /\ row' = [row EXCEPT ![s][e] = new]
        /\ recent' = [recent EXCEPT ![s][e] = @ \union {new}]

Pipeline(s, e) == Write(s, e) /\ UNCHANGED <<shown, call>>

Refresh(s, e) ==
    /\ \E r \in recent[s][e] : shown' = [shown EXCEPT ![s][e] = r]
    /\ UNCHANGED <<row, recent, call>>

(* acceptEvent or rejectEvent is called, updates, and returns or throws:   *)
(* it returns when the row was stored and the answer has come.             *)
Begin(u, s, e) ==
    /\ call[u] = NoCall
    /\ shown[s][e] # None
    /\ call' = [call EXCEPT ![u] = CallOf(s, e, "called")]
    /\ UNCHANGED <<row, recent, shown>>

Update(u, s, e) ==
    /\ call[u] = CallOf(s, e, "called")
    /\ \/ /\ Write(s, e)
          /\ \E state \in {"stored", "failed"} :
                call' = [call EXCEPT ![u] = CallOf(s, e, state)]
       \/ /\ call' = [call EXCEPT ![u] = CallOf(s, e, "failed")]
          /\ UNCHANGED <<row, recent>>
    /\ UNCHANGED shown

End(u) ==
    /\ call[u] # NoCall
    /\ call' = [call EXCEPT ![u] = NoCall]
    /\ UNCHANGED <<row, recent, shown>>

(* The process dies and is started again.                                  *)
Restart ==
    /\ recent' = [s \in Schemas |-> [e \in Events |-> {row[s][e]} \ {None}]]
    /\ shown' \in [Schemas -> [Events -> Rows \union {None}]]
    /\ \A s \in Schemas, e \in Events : shown'[s][e] \in {None, row[s][e]}
    /\ call' = [u \in Reviewers |-> NoCall]
    /\ UNCHANGED row

Next ==
    \/ \E s \in Schemas, e \in Events :
        \/ Pipeline(s, e) \/ Refresh(s, e)
        \/ \E u \in Reviewers : Begin(u, s, e) \/ Update(u, s, e)
    \/ \E u \in Reviewers : End(u)
    \/ Restart

Spec == Init /\ [][Next]_serviceVars
=============================================================================
