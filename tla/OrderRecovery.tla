--------------------------- MODULE OrderRecovery ---------------------------
(***************************************************************************)
(* The market orders of one live pair and the recovery of their fills: the *)
(* order record written before the POST (core/execution/_orders.py), the   *)
(* POST with its retries, the tick that books the fill and persists the    *)
(* book (core/tasks), the loss of the worker at any point, and the         *)
(* reconciliation that reads the fate of a pending order off the exchange  *)
(* (core/tasks/_reconciliation.py).                                        *)
(*                                                                         *)
(* One worker process runs every task, so reconciliation never runs in the *)
(* middle of a tick.  Exchange stop orders are LivePosition's subject.     *)
(***************************************************************************)
EXTENDS Integers

CONSTANTS
    OpenQty,      \* quantity of a first entry
    ScaleQty,     \* quantity of a scale-in
    MaxAttempts,  \* RetryConfig.max_attempts
    MaxOrders,    \* bound on the orders
    Faults        \* what may go wrong

FaultKinds == {"garbled", "unsent", "update", "crash",
               "unlogged", "timeout", "slow", "late", "persist", "stale", "early", "new"}

ASSUME QuantityAssumption == OpenQty \in Nat \ {0} /\ ScaleQty \in Nat \ {0}
ASSUME BoundAssumption == MaxAttempts \in Nat \ {0} /\ MaxOrders \in Nat \ {0}
ASSUME FaultAssumption == Faults \subseteq FaultKinds

VARIABLES
    rec,    \* OrderRecords, in the order they are written
    cur,    \* how many orders there have been; the last one is the tick's
    tries,  \* attempts of the current POST that failed
    held,   \* what the pair's orders have really bought and not sold
    up,     \* the worker process holds components for the pair
    mem,    \* their position size, and whether the strategy expects a position
    db,     \* the same as persisted; known: the pair has a StrategyStateRecord
    pc      \* where the tick is

vars == <<rec, cur, tries, held, up, mem, db, pc>>

Orders == 1..MaxOrders
Buys == {"open", "scale_in"}
Intents == Buys \cup {"reduce", "close"}

Flat == [size |-> 0, expects |-> FALSE]
NoOrder == [status |-> "none", intent |-> "open", qty |-> 0, found |-> FALSE]
Pending == {o \in Orders : rec[o].status = "pending"}

Init ==
    /\ rec = [o \in Orders |-> NoOrder] /\ cur = 0 /\ tries = 0 /\ held = 0
    /\ up = FALSE /\ mem = Flat
    /\ \E k \in BOOLEAN : (k \/ "new" \in Faults) /\ db = [size |-> 0, expects |-> FALSE, known |-> k]
    /\ pc = "idle"

-----------------------------------------------------------------------------
(******************************** the tick *********************************)

\* Recovery comes within minutes and ticks a candle apart: unless it is
\* "early", a tick finds no order pending.
TickStart ==
    /\ pc = "idle" /\ (Pending = {} \/ "early" \in Faults)
    /\ pc' = "decide" /\ up' = TRUE
    /\ mem' = IF up THEN mem ELSE [size |-> db.size, expects |-> db.expects]
    /\ UNCHANGED <<rec, cur, tries, held, db>>

Hold ==
    /\ pc = "decide" /\ pc' = "persist"
    /\ UNCHANGED <<rec, cur, tries, held, up, mem, db>>

\* What strategy and risk engine may ask for
Allowed(i) ==
    CASE i = "open"     -> mem.size = 0 /\ ~mem.expects
      [] i = "scale_in" -> mem.size > 0 /\ mem.expects
      [] i = "reduce"   -> mem.size > 1 /\ mem.expects
      [] i = "close"    -> mem.size > 0

\* A sale is clamped to the balance.
Quantity(i) ==
    LET wanted == CASE i = "open" -> OpenQty
                    [] i = "scale_in" -> ScaleQty
                    [] i = "reduce" -> mem.size \div 2
                    [] i = "close" -> mem.size
    IN  IF i \notin Buys /\ wanted > held THEN held ELSE wanted

\* The write-ahead record is committed before the exchange is called.  With
\* nothing to sell a close happens in the book alone and a reduce is dropped.
Decide(i) ==
    /\ pc = "decide" /\ cur < MaxOrders /\ Allowed(i)
    /\ \/ /\ Quantity(i) > 0
          /\ cur' = cur + 1 /\ tries' = 0 /\ pc' = "send" /\ mem' = mem
          /\ \E s \in {"pending", "unlogged"} :
                /\ s = "unlogged" => "unlogged" \in Faults
                /\ rec' = [rec EXCEPT ![cur + 1] =
                              [status |-> s, intent |-> i, qty |-> Quantity(i), found |-> FALSE]]
       \/ /\ Quantity(i) = 0
          /\ mem' = IF i = "close" THEN Flat ELSE mem
          /\ pc' = "persist" /\ UNCHANGED <<rec, cur, tries>>
    /\ UNCHANGED <<held, up, db>>

Logged(s) == IF rec[cur].status = "unlogged" THEN "unlogged" ELSE s

\* The exchange executes the order if the balance covers it.
Executes ==
    LET bought == rec[cur].intent \in Buys
        q == rec[cur].qty
    IN  /\ bought \/ q <= held
        /\ held' = IF bought THEN held + q ELSE held - q

\* The recovery can match such a fill to the record, unless a slow retry is out
\* of its time window.
Traced ==
    \E f \in {TRUE, tries = 0 \/ "slow" \notin Faults} :
        rec' = [rec EXCEPT ![cur].found = @ \/ f]

PostAnswered ==
    /\ pc = "send" /\ pc' = "record" /\ Executes /\ Traced
    /\ UNCHANGED <<cur, tries, up, mem, db>>

PostRefused ==
    /\ pc = "send" /\ pc' = "failed"
    /\ rec' = [rec EXCEPT ![cur].status = Logged("rejected")]
    /\ UNCHANGED <<cur, tries, held, up, mem, db>>

PostRetried_onceMore ==
    /\ pc = "send" /\ tries < MaxAttempts /\ tries' = tries + 1
    /\ \/ "unsent" \in Faults /\ UNCHANGED <<rec, held>>
       \/ "timeout" \in Faults /\ Executes /\ Traced
    /\ UNCHANGED <<cur, up, mem, db, pc>>

\* No connection, or no answer in time: with_retry sends the order again, under
\* no id that would tell the exchange it is the same.
PostRetried ==
    /\ pc = "send" /\ tries + 1 < MaxAttempts /\ tries' = tries + 1
    /\ \/ "unsent" \in Faults /\ UNCHANGED <<rec, held>>
       \/ "timeout" \in Faults /\ Executes /\ Traced
    /\ UNCHANGED <<cur, up, mem, db, pc>>

\* RetryExhausted is recorded as a rejection, whatever the exchange did.
PostExhausted ==
    /\ pc = "send" /\ tries + 1 = MaxAttempts /\ pc' = "failed"
    /\ \/ "unsent" \in Faults /\ held' = held
       \/ "timeout" \in Faults /\ Executes
    /\ rec' = [rec EXCEPT ![cur].status = Logged("rejected")]
    /\ UNCHANGED <<cur, tries, up, mem, db>>

PostGarbled_rejected ==
    /\ pc = "send" /\ "garbled" \in Faults /\ pc' = "failed"
    /\ Executes \/ held' = held
    /\ rec' = [rec EXCEPT ![cur].status = Logged("rejected")]
    /\ UNCHANGED <<cur, tries, up, mem, db>>

\* Any other error, such as an answer that is not JSON: the record stays pending
\* for the recovery, and the tick takes the order for a failed one.
PostGarbled ==
    /\ pc = "send" /\ "garbled" \in Faults /\ pc' = "failed"
    /\ (Executes /\ Traced) \/ UNCHANGED <<rec, held>>
    /\ UNCHANGED <<cur, tries, up, mem, db>>

\* The fill is recorded; when that fails the exception ends the tick, and the
\* strategy keeps the state it decided.
RecordFill ==
    /\ pc = "record"
    /\ \/ /\ rec' = [rec EXCEPT ![cur].status = Logged("filled")]
          /\ pc' = "book" /\ mem' = mem
       \/ /\ "update" \in Faults /\ rec[cur].status = "pending"
          /\ mem' = [mem EXCEPT !.expects = rec[cur].intent # "close"]
          /\ pc' = "idle" /\ rec' = rec
    /\ UNCHANGED <<cur, tries, held, up, db>>

\* The portfolio takes the fill; a sale takes its part of the book whatever the
\* balance it was clamped to.
Book ==
    /\ pc = "book" /\ pc' = "persist"
    /\ mem' = CASE rec[cur].intent = "open" -> [size |-> rec[cur].qty, expects |-> TRUE]
                [] rec[cur].intent = "scale_in" -> [mem EXCEPT !.size = @ + rec[cur].qty]
                [] rec[cur].intent = "reduce" -> [mem EXCEPT !.size = @ - @ \div 2]
                [] rec[cur].intent = "close" -> Flat
    /\ UNCHANGED <<rec, cur, tries, held, up, db>>

\* No fill: the strategy goes back to the state before its decision.
OrderFailed ==
    /\ pc = "failed" /\ pc' = "persist"
    /\ UNCHANGED <<rec, cur, tries, held, up, mem, db>>

\* The rows are made the worker's.  When that fails only a position gone from
\* the book is cleaned out of them, if that works.
Persist ==
    /\ pc = "persist" /\ pc' = "idle"
    /\ \/ db' = [size |-> mem.size, expects |-> mem.expects, known |-> TRUE]
       \/ "persist" \in Faults /\ db' = db
       \/ "persist" \in Faults /\ mem.size = 0
          /\ db' = [db EXCEPT !.size = 0, !.expects = @ /\ mem.expects]
    /\ UNCHANGED <<rec, cur, tries, held, up, mem>>

\* The worker dies, or is replaced between two tasks (worker_max_tasks_per_child).
\* It is "late" once the record says filled and the rows do not show it yet.
WorkerLost ==
    /\ up
    /\ \/ pc = "idle"
       \/ "crash" \in Faults /\ pc \notin {"book", "persist"}
       \/ "late" \in Faults
    /\ up' = FALSE /\ mem' = Flat /\ pc' = "idle"
    /\ UNCHANGED <<rec, cur, tries, held, db>>

-----------------------------------------------------------------------------
(***************************** reconciliation ******************************)

\* Reconciliation writes the rows and leaves the worker's components as they
\* are: unless they are "stale", the worker has been replaced in between.
Reconciling == pc = "idle" /\ (~up \/ "stale" \in Faults)

\* _reconcile_pair, check A: the strategy state decides about the position.
ReconcilePair ==
    /\ Reconciling
    /\ db' = IF db.known /\ db.expects /\ db.size > 0 THEN db
             ELSE [db EXCEPT !.size = 0, !.expects = FALSE]
    /\ UNCHANGED <<rec, cur, tries, held, up, mem, pc>>

Applied_skipsKnown(r) ==
    CASE r.intent \in Buys /\ db.size = 0 -> [db EXCEPT !.size = r.qty, !.expects = db.known]
      [] r.intent = "reduce" /\ db.size > r.qty -> [db EXCEPT !.size = @ - r.qty]
      [] r.intent = "reduce" /\ db.size \in 1..r.qty -> [db EXCEPT !.size = 0, !.expects = FALSE]
      [] r.intent = "close" /\ db.size > 0 -> [db EXCEPT !.size = 0, !.expects = FALSE]
      [] OTHER -> db

\* _apply_fill_recovery: what the rows become, by the intent of the order
Applied(r) ==
    CASE r.intent = "open" /\ db.size = 0 -> [db EXCEPT !.size = r.qty, !.expects = db.known]
      [] r.intent = "scale_in" -> [db EXCEPT !.size = @ + r.qty]
      [] r.intent = "reduce" /\ db.size > r.qty -> [db EXCEPT !.size = @ - r.qty]
      [] r.intent = "reduce" /\ db.size \in 1..r.qty -> [db EXCEPT !.size = 0, !.expects = FALSE]
      [] r.intent = "close" /\ db.size > 0 -> [db EXCEPT !.size = 0, !.expects = FALSE]
      [] OTHER -> db

Recover_matchedOnly(o) ==
    /\ Reconciling /\ rec[o].status = "pending" /\ rec[o].found
    /\ rec' = [rec EXCEPT ![o].status = "filled"]
    /\ db' = Applied(rec[o])
    /\ UNCHANGED <<cur, tries, held, up, mem, pc>>

\* _recover_pending_orders_without_id, with the exchange reachable: a record
\* that matches an executed order is filled, another one is lost.
Recover(o) ==
    /\ Reconciling /\ rec[o].status = "pending"
    /\ rec' = [rec EXCEPT ![o].status = IF rec[o].found THEN "filled" ELSE "cancelled"]
    /\ db' = IF rec[o].found THEN Applied(rec[o]) ELSE db
    /\ UNCHANGED <<cur, tries, held, up, mem, pc>>

Tick ==
    \/ Hold \/ \E i \in Intents : Decide(i)
    \/ PostAnswered \/ PostRefused \/ PostRetried \/ PostExhausted \/ PostGarbled
    \/ RecordFill \/ Book \/ OrderFailed \/ Persist

Next ==
    \/ TickStart \/ Tick \/ WorkerLost \/ ReconcilePair
    \/ \E o \in Orders : Recover(o)

Spec == Init /\ [][Next]_vars

\* A tick goes on to its end, workers are replaced after so many tasks, and the
\* periodic reconciliation reaches the exchange now and then.
FairSpec == Spec /\ WF_vars(Tick) /\ WF_vars(WorkerLost) /\ \A o \in Orders : SF_vars(Recover(o))

-----------------------------------------------------------------------------
(******************************* properties ********************************)

TypeOK ==
    /\ rec \in [Orders -> [status : {"none", "pending", "unlogged", "filled", "rejected", "cancelled"},
                           intent : Intents, qty : Nat, found : BOOLEAN]]
    /\ cur \in 0..MaxOrders /\ tries \in 0..MaxAttempts - 1 /\ held \in Nat
    /\ up \in BOOLEAN /\ mem \in [size : Nat, expects : BOOLEAN]
    /\ db \in [size : Nat, expects : BOOLEAN, known : BOOLEAN]
    /\ pc \in {"idle", "decide", "send", "record", "book", "failed", "persist"}

\* "Resolves 'asset vanishes from GG' and 'asset sold but still in GG'"
\* (roadmap/phase_6.md): once no order is pending, the rows hold what the
\* orders really bought and did not sell, however their ticks ended.
Settled == pc = "idle" /\ Pending = {} => db.size = held

\* The strategy never decides on a position other than the one there is.
ActsOnHoldings == pc = "decide" => mem.size = held

\* Every pending order is given its fate.
Resolved == \A o \in Orders : (rec[o].status = "pending") ~> (rec[o].status # "pending")
=============================================================================
