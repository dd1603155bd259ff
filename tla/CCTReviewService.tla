---------------------------- MODULE CCTReviewService ----------------------------
(***************************************************************************)
(* CCTPostgresService keeps what ReviewService promises.  A history        *)
(* variable remembers the rows each event has had since the start.         *)
(***************************************************************************)
EXTENDS CCTPostgresService

VARIABLE recent

RowNow(s, e) == {table[s][e]} \ {None}

HistoryInit ==
    Init /\ recent = [s \in Schemas |-> [e \in Events |-> RowNow(s, e)]]

HistoryNext ==
    /\ Next
    /\ recent' = [s \in Schemas |-> [e \in Events |->
                    (IF restarts' = restarts THEN recent[s][e] ELSE {})
                        \union RowNow(s, e)']]

HistorySpec == HistoryInit /\ [][HistoryNext]_<<vars, recent>>

(* A call is over, for its caller, when the last refresh has ended.        *)
CallNow(u) ==
    IF at[u] = "idle" THEN [state |-> "none"]
    ELSE [state |-> IF at[u] \in {"stamped", "locked"} THEN "called"
                    ELSE IF review[u].success THEN "stored" ELSE "failed",
          schema |-> schema[u], event |-> review[u].event]
CallsNow == [u \in Reviewers |-> CallNow(u)]

Service == INSTANCE ReviewService
    WITH Rows <- Row, row <- table, shown <- cache, call <- CallsNow

(* Whatever the poller, the other reviews and the pipeline do meanwhile, a *)
(* review rewrites its own event's row, once, if it succeeds, and the      *)
(* event data never lose an event, or show what was never in its row.      *)
KeepsPromises == Service!Spec
=============================================================================
