----------------------------- MODULE StopLedger -----------------------------
(***************************************************************************)
(* The stop orders of one symbol and the ledger kept about them: the       *)
(* OrderRecord written ahead of each placement, the ticks of the           *)
(* strategies that place, move and cancel stops (core/execution/_orders.py *)
(* and _actions.py), and the phases of the reconciliation that settle      *)
(* records and sweep orders (core/tasks/_reconciliation.py).  A stop fills *)
(* at any moment; ticks and reconciliation share one worker process, which *)
(* may die in either.                                                      *)
(*                                                                         *)
(* Positions are held or not; LivePosition has their sizes, Reconcile the  *)
(* comparison with the balances.  Partial fills are left out.  No two      *)
(* orders of the symbol are within ten seconds and one percent of each     *)
(* other, so a fill is matched to its own record or to none.               *)
(***************************************************************************)
EXTENDS Integers, FiniteSets

CONSTANTS
    Strategies,   \* strategies that hold the symbol
    MaxOrders,    \* bound on the orders at the exchange
    MaxRecords,   \* bound on the order records
    RecoveryAge,  \* recovery_age_seconds, in runs of the reconciliation
    LostAge,      \* lost_age_seconds, likewise
    MaxFaults     \* bound on the faults

ASSUME AgeAssumption == RecoveryAge \in Nat /\ LostAge \in Nat
ASSUME BoundAssumption == MaxOrders \in Nat /\ MaxRecords \in Nat /\ MaxFaults \in Nat
ASSUME OrphanAssumption == "orphan" \notin Strategies

VARIABLES
    market,  \* "spot" for longs, "futures" for shorts
    order,   \* status of each order at the exchange
    record,  \* the OrderRecords with intent stop_loss, and the orphans
    book,    \* per strategy: a position is open, and the id of its stop order
    phase,   \* where the reconciliation is
    faults   \* faults so far

vars == <<market, order, record, book, phase, faults>>

Ids == 1..MaxOrders
NoId == 0
TriggerNow == MaxOrders + 1  \* what a refused placement may return for an id
Records == 1..MaxRecords
Orphan == "orphan"           \* an orphan's record names no strategy

Live(o) == o \in Ids /\ order[o] = "NEW"
Free == {o \in Ids : order[o] = "none"}
Blank == {r \in Records : record[r].status = "none"}
Known(o) == \E r \in Records : record[r].id = o
OpenRecords == {r \in Records : record[r].status \in {"pending", "new"}}

\* What the spot endpoints tell about an order: futures orders do not exist there.
SpotStatus(o) == IF market = "spot" THEN order[o] ELSE "none"
SpotOpen == {o \in Ids : SpotStatus(o) = "NEW"}

\* A placement leaves records enough for the orphans.
Room == Cardinality(Blank) >= 2 + Cardinality({o \in Ids : Live(o) /\ ~Known(o)})

Fault == faults < MaxFaults /\ faults' = faults + 1
NoFault == UNCHANGED faults

Init ==
    /\ market \in {"spot", "futures"}
    /\ order = [o \in Ids |-> "none"]
    /\ record = [r \in Records |-> [status |-> "none", id |-> NoId, sent |-> NoId, by |-> Orphan, age |-> 0]]
    /\ book = [s \in Strategies |-> [open |-> FALSE, stop |-> NoId]]
    /\ phase = "idle" /\ faults = 0

-----------------------------------------------------------------------------
(******************************* placements ********************************)

\* Earlier records of the symbol, whichever strategy's, end with the placement.
Superseded(recs) ==
    [r \in Records |-> IF recs[r].status \in {"pending", "new", "rejected"} /\ recs[r].by # Orphan
                       THEN [recs[r] EXCEPT !.status = "cancelled"] ELSE recs[r]]

Written(recs, r, s, status, id, o) ==
    [Superseded(recs) EXCEPT ![r] = [status |-> status, id |-> id, sent |-> o, by |-> s, age |-> 0]]

\* A placement by s, with the orders and records it starts from: what it
\* leaves, the id it returns, and whether its tick gets as far as its persist.
Accepted(ords, recs, r, o, s) ==
    [order |-> [ords EXCEPT ![o] = "NEW"], record |-> Written(recs, r, s, "new", o, o), id |-> o, done |-> TRUE]
Refused(ords, recs, r, id, s) ==
    [order |-> ords, record |-> Written(recs, r, s, "rejected", NoId, NoId), id |-> id, done |-> TRUE]

\* The faults of a placement
Unheard(ords, recs, r, o, s) ==  \* executed, but every attempt timed out
    [order |-> [ords EXCEPT ![o] = "NEW"], record |-> Written(recs, r, s, "rejected", NoId, o), id |-> NoId, done |-> TRUE]
Garbled(ords, recs, r, o, s) ==  \* executed, with an answer that cannot be read
    [order |-> [ords EXCEPT ![o] = "NEW"], record |-> Written(recs, r, s, "pending", NoId, o), id |-> NoId, done |-> TRUE]
Unlogged(ords, recs, o) ==       \* the record could not be written
    [order |-> [ords EXCEPT ![o] = "NEW"], record |-> Superseded(recs), id |-> o, done |-> TRUE]
Died(p) == [p EXCEPT !.done = FALSE]
Unsent(ords, recs, r, s) ==      \* the worker dies before the POST
    [order |-> ords, record |-> Written(recs, r, s, "pending", NoId, NoId), id |-> NoId, done |-> FALSE]

Answers(ords, recs, r, o, s) ==
    {Accepted(ords, recs, r, o, s)} \cup {Refused(ords, recs, r, id, s) : id \in {NoId, TriggerNow}}
FaultyAnswers(ords, recs, r, o, s) ==
    {Unheard(ords, recs, r, o, s), Garbled(ords, recs, r, o, s), Unlogged(ords, recs, o),
     Died(Accepted(ords, recs, r, o, s)), Died(Garbled(ords, recs, r, o, s)), Unsent(ords, recs, r, s)}

\* What an action makes of the id, kept being the one it has when none comes
\* back; and what a tick does, which sells when the stop would trigger at once.
Answered == Ids \cup {NoId, TriggerNow}
Stored(kept) == [id \in Answered |-> {[open |-> TRUE, stop |-> IF id = NoId THEN kept ELSE id]}]
Forced(kept) ==
    [id \in Answered |->
        IF id = TriggerNow THEN {[open |-> FALSE, stop |-> NoId], [open |-> TRUE, stop |-> kept]}
        ELSE {[open |-> TRUE, stop |-> id]}]

\* s places a stop; pair tells what becomes of it with each id.
Place(ords, recs, s, pair) ==
    \E r \in Blank, o \in Free :
        /\ Room /\ \A q \in Blank, i \in Free : r <= q /\ o <= i
        /\ \E p \in Answers(ords, recs, r, o, s) \cup FaultyAnswers(ords, recs, r, o, s) :
              /\ IF p \in Answers(ords, recs, r, o, s) THEN NoFault ELSE Fault
              /\ order' = p.order /\ record' = p.record
              /\ IF p.done THEN \E b \in pair[p.id] : book' = [book EXCEPT ![s] = b]
                           ELSE UNCHANGED book

\* Cancelling order o by its id closes its record, also when it had gone before.
Unlisted(o) ==
    [r \in Records |-> IF o # NoId /\ record[r].id = o /\ record[r].by # Orphan
                       THEN [record[r] EXCEPT !.status = "cancelled"] ELSE record[r]]
Cancelled(o) == IF Live(o) THEN [order EXCEPT ![o] = "CANCELED"] ELSE order

-----------------------------------------------------------------------------
(********************************** ticks **********************************)

Quiet == phase = "idle" /\ UNCHANGED <<market, phase>>

\* A tick that dies after the buy leaves a stop without a position.
OpenWithStop(s) == Quiet /\ ~book[s].open /\ Place(order, record, s, Stored(NoId))

\* The tick gives a position without a stop order one.
Protect(s) ==
    Quiet /\ book[s].open /\ book[s].stop = NoId /\ Place(order, record, s, Forced(NoId))

\* The stop level has moved; without the cancellation nothing is placed.
MoveStop(s) ==
    /\ Quiet /\ book[s].open /\ book[s].stop \in Ids
    /\ Place(Cancelled(book[s].stop), Unlisted(book[s].stop), s, Forced(book[s].stop))

\* A scale-in or a reduce goes on when the cancellation fails; when nothing new
\* is placed, the scale-in of a long keeps the old id.
ReplaceStop(s) ==
    /\ Quiet /\ book[s].open
    /\ \E kept \in {NoId} \cup (IF market = "spot" THEN {book[s].stop} ELSE {}) :
          \/ /\ book[s].stop \in Ids
             /\ Place(Cancelled(book[s].stop), Unlisted(book[s].stop), s, Stored(kept))
          \/ Place(order, record, s, Stored(kept))

\* A close, or a reduce whose sale fails: the stop is cancelled, or not, and its
\* id forgotten.
CancelStop(s) ==
    /\ Quiet /\ book[s].open /\ book[s].stop # NoId
    /\ \/ book[s].stop \in Ids /\ order' = Cancelled(book[s].stop) /\ record' = Unlisted(book[s].stop) /\ NoFault
       \/ UNCHANGED <<order, record, faults>>
    /\ \E still \in BOOLEAN : book' = [book EXCEPT ![s] = [open |-> still, stop |-> NoId]]

CloseWithoutStop(s) ==
    /\ Quiet /\ book[s].open /\ book[s].stop = NoId
    /\ book' = [book EXCEPT ![s].open = FALSE] /\ UNCHANGED <<order, record, faults>>

NoticeStop_keepsId(s) ==
    /\ Quiet /\ book[s].open /\ book[s].stop \in Ids
    /\ order[book[s].stop] \in {"FILLED", "CANCELED"}
    /\ book' = [book EXCEPT ![s].open = order[book[s].stop] # "FILLED"]
    /\ UNCHANGED <<order, record, faults>>

\* check_exchange_stop asks the endpoint of the position's own market.
NoticeStop(s) ==
    /\ Quiet /\ book[s].open /\ book[s].stop \in Ids
    /\ order[book[s].stop] \in {"FILLED", "CANCELED"}
    /\ book' = [book EXCEPT ![s] = [open |-> order[@.stop] # "FILLED", stop |-> NoId]]
    /\ UNCHANGED <<order, record, faults>>

Tick(s) ==
    OpenWithStop(s) \/ Protect(s) \/ MoveStop(s) \/ ReplaceStop(s) \/ CancelStop(s)
        \/ CloseWithoutStop(s) \/ NoticeStop(s)

-----------------------------------------------------------------------------
(******************************* the exchange ******************************)

\* The stop triggers, or its owner cancels it by hand.
Ends(o) ==
    /\ Live(o)
    /\ \E t \in {"FILLED", "CANCELED"} : order' = [order EXCEPT ![o] = t]
    /\ UNCHANGED <<market, record, book, phase, faults>>

-----------------------------------------------------------------------------
(***************************** reconciliation ******************************)

From(p, q) == phase = p /\ phase' = q /\ UNCHANGED market

\* Beat starts a run every two minutes; only the age of pending records matters.
Run ==
    /\ From("idle", "byId")
    /\ record' = [r \in Records |-> IF record[r].status = "pending" /\ record[r].age < LostAge
                                   THEN [record[r] EXCEPT !.age = @ + 1] ELSE record[r]]
    /\ UNCHANGED <<order, book, faults>>


\* A filled stop closes the position of its record's strategy, if there is one.
CloseRows(filled) ==
    book' = [s \in Strategies |-> IF \E r \in filled : record[r].by = s
                                  THEN [open |-> FALSE, stop |-> NoId] ELSE book[s]]

\* How a record ends whose order has status t
Outcome(r, t) ==
    CASE t = "NEW" -> record[r].status
      [] t = "FILLED" -> "filled"
      [] OTHER -> "cancelled"

Settled(r) == [record[r] EXCEPT !.status = Outcome(r, SpotStatus(record[r].id))]
Settle(S) == [r \in Records |-> IF r \in S THEN Settled(r) ELSE record[r]]

\* A skipped set stands for the reads that fail.
Skips(S, skipped) == skipped \subseteq S /\ IF skipped = {} THEN NoFault ELSE Fault

RecoverById ==
    LET due == {r \in Records : record[r].status = "pending" /\ record[r].id # NoId /\ record[r].age >= RecoveryAge}
    IN  /\ From("byId", "withoutId")
        /\ \E skipped \in SUBSET due :
              /\ Skips(due, skipped)
              /\ record' = Settle(due \ skipped)
              /\ CloseRows({r \in due \ skipped : SpotStatus(record[r].id) = "FILLED"})
        /\ UNCHANGED order

\* Orders that an order record names already do not match.
Matches_recorded(r) == {o \in {record[r].sent} \cap Ids : SpotStatus(o) # "none"}
Matches(r) == {o \in {record[r].sent} \cap Ids : SpotStatus(o) # "none" /\ ~Known(o)}

RecoverWithoutId ==
    LET due == {r \in Records : record[r].status = "pending" /\ record[r].id = NoId /\ record[r].age >= LostAge}
        Found(r) == Matches(r) # {}
        Fate(r) == IF Found(r) THEN Outcome(r, SpotStatus(record[r].sent)) ELSE "cancelled"
    IN  /\ From("withoutId", "sync")
        /\ \E skipped \in SUBSET due :
              /\ Skips(due, skipped)
              /\ record' = [r \in Records |->
                    IF r \in due \ skipped
                    THEN [record[r] EXCEPT !.status = Fate(r), !.id = IF Found(r) THEN record[r].sent ELSE NoId]
                    ELSE record[r]]
              /\ CloseRows({r \in due \ skipped : Fate(r) = "filled"})
        /\ UNCHANGED order

Stale_pending == {r \in Records : record[r].status = "pending" /\ record[r].id # NoId /\ record[r].id \notin SpotOpen}
Stale == {r \in Records : record[r].status = "new" /\ record[r].id # NoId /\ record[r].id \notin SpotOpen}

\* Orders nobody knows get an orphan's record; records of stops that are no
\* longer open are closed without looking at the position.
SyncOpenOrders ==
    LET unknown == {o \in SpotOpen : ~Known(o)}
        slot(o) == CHOOSE r \in Blank : Cardinality({q \in Blank : q < r}) = Cardinality({u \in unknown : u < o})
        told == {r \in Stale : SpotStatus(record[r].id) # "none"}
    IN  /\ From("sync", "check")
        /\ \/ \E skipped \in SUBSET told :
                 /\ Skips(told, skipped)
                 /\ record' = [r \in Records |->
                       IF \E o \in unknown : slot(o) = r
                       THEN LET o == CHOOSE u \in unknown : slot(u) = r
                            IN  [status |-> "new", id |-> o, sent |-> o, by |-> Orphan, age |-> 0]
                       ELSE Settle(told \ skipped)[r]]
           \/ Fault /\ UNCHANGED record  \* no list of the open orders
        /\ UNCHANGED <<order, book>>

\* The record of a filled stop stays open, for the recovery by id; an order
\* that the spot endpoint does not know has expired.
CheckPendingStops ==
    LET due == {r \in OpenRecords : record[r].id # NoId /\ record[r].by # Orphan}
    IN  /\ From("check", "sweep")
        /\ \E skipped \in SUBSET due :
              /\ Skips(due, skipped)
              /\ record' = Settle({r \in due \ skipped : SpotStatus(record[r].id) \in {"CANCELED", "none"}})
        /\ UNCHANGED <<order, book>>

NoPosition == \A s \in Strategies : ~book[s].open

\* Any position of the symbol protects every stop order on it.
Unprotected_orphans == {o \in SpotOpen : NoPosition /\ \E r \in Records : record[r].id = o /\ record[r].by = Orphan}
Unprotected == {o \in SpotOpen : NoPosition}

CancelOrphanStops ==
    /\ From("sweep", "idle")
    /\ \E skipped \in SUBSET Unprotected :
          /\ Skips(Unprotected, skipped)
          /\ order' = [o \in Ids |-> IF o \in Unprotected \ skipped THEN "CANCELED" ELSE order[o]]
    /\ UNCHANGED <<record, book>>

\* The worker is lost in the middle of a run; phases that ended are committed.
RunDies ==
    /\ phase # "idle" /\ phase' = "idle" /\ Fault
    /\ UNCHANGED <<market, order, record, book>>

Reconcile == Run \/ RecoverById \/ RecoverWithoutId \/ SyncOpenOrders \/ CheckPendingStops \/ CancelOrphanStops

Next == (\E s \in Strategies : Tick(s)) \/ (\E o \in Ids : Ends(o)) \/ Reconcile \/ RunDies

\* Beat keeps starting the reconciliation, which runs to its end.
Spec == Init /\ [][Next]_vars /\ WF_vars(Reconcile)

-----------------------------------------------------------------------------
Statuses == {"none", "pending", "new", "rejected", "filled", "cancelled"}

\* Ids and senders of records are orders, an orphan's record has an id, and the
\* id of a position's stop is one that a placement can return.
TypeOK ==
    /\ market \in {"spot", "futures"}
    /\ order \in [Ids -> {"none", "NEW", "FILLED", "CANCELED"}]
    /\ record \in [Records -> [status : Statuses, id : Ids \cup {NoId}, sent : Ids \cup {NoId},
                                by : Strategies \cup {Orphan}, age : 0..LostAge]]
    /\ \A r \in Records : record[r].by = Orphan /\ record[r].status # "none" => record[r].id # NoId
    /\ book \in [Strategies -> [open : BOOLEAN, stop : Ids \cup {NoId, TriggerNow}]]
    /\ \A s \in Strategies : ~book[s].open => book[s].stop = NoId
    /\ phase \in {"idle", "byId", "withoutId", "sync", "check", "sweep"}
    /\ faults \in 0..MaxFaults

\* No order is accounted for twice: the sync of the open orders and the match
\* of records without an id never give one order two records
\* (_reconciliation.py 1400 and 2208), whatever is lost in between.
OneRecordPerOrder ==
    \A r, q \in Records : r # q /\ record[r].id # NoId => record[r].id # record[q].id

\* The ledger catches up: a record that is open although its order is gone, or
\* never was, is settled by some phase of some later run, as long as beat keeps
\* the reconciliation going and faults are finite.
RecordsSettle ==
    \A r \in Records : r \in OpenRecords /\ ~Live(record[r].sent) ~> r \notin OpenRecords

\* A stop order on the spot market that has lost its position, in whatever way,
\* is cancelled in the end (_cancel_orphan_stop_orders), unless it fills first or
\* a new position comes up.
OrphansCancelled ==
    \A o \in Ids : market = "spot" /\ Live(o) /\ NoPosition ~> ~Live(o) \/ ~NoPosition

=============================================================================
