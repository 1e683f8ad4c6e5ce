------------------------------ MODULE Lifecycle ------------------------------
(***************************************************************************)
(* What a pair promises, as the strategies' documentation draws it: one    *)
(* phase, held alike by the strategy and by the portfolio, that moves      *)
(* along the documented transitions only, and a saved phase that a new     *)
(* worker takes up.  PaperTrading implements it.                           *)
(***************************************************************************)

CONSTANT Refills  \* strategies that enter again from REDUCED

VARIABLES
    strategy,  \* name of the strategy
    worker,    \* phase of the pair in the worker
    row        \* the phase last persisted

vars == <<strategy, worker, row>>

Holding == {"POSITION", "REDUCED"}
Out == {"FLAT", "COOLDOWN"}

Init == worker = "FLAT" /\ row = "FLAT"

Stays == UNCHANGED <<strategy, row>>

\* FLAT -> POSITION, at once when the cooldown expires
Enter == worker \in Out /\ worker' = "POSITION" /\ Stays

Refill == strategy \in Refills /\ worker = "REDUCED" /\ worker' = "POSITION" /\ Stays

Reduce == worker = "POSITION" /\ worker' = "REDUCED" /\ Stays

\* After a stop everyone cools down; a strategy that enters again from REDUCED
\* does so after its own exits, too.
Exit ==
    /\ worker \in Holding
    /\ worker' \in IF strategy \in Refills THEN {"COOLDOWN"} ELSE Out
    /\ Stays

Thaw == worker = "COOLDOWN" /\ worker' = "FLAT" /\ Stays

Save == row' = worker /\ UNCHANGED <<strategy, worker>>

Recover == worker' = row /\ UNCHANGED <<strategy, row>>

Next == Enter \/ Refill \/ Reduce \/ Exit \/ Thaw \/ Save \/ Recover

Spec == Init /\ [][Next]_vars
=============================================================================
