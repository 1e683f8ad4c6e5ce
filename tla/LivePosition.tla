---------------------------- MODULE LivePosition ----------------------------
(***************************************************************************)
(* One live (strategy, symbol) pair: the tick of core/tasks/_tick.py with  *)
(* the executor of core/execution, one step per call to the exchange, over *)
(* a spot account whose stop orders lock the asset, the worker's memory,   *)
(* and the rows the tick persists.                                         *)
(*                                                                         *)
(* The position is long and the strategy is the one of SmartHodler.  Asset *)
(* quantities are integers; an order quantity is a multiple of Lot.        *)
(***************************************************************************)
EXTENDS Integers, FiniteSets, FiniteSetsExt

CONSTANTS
    Ids,            \* names of exchange stop orders
    NoId,           \* no stop order (None)
    Ghost,          \* the string "TRIGGER_NOW" kept as if it were an order id
    Lot,            \* LOT_SIZE step
    BuyFee,         \* commission taken from the bought asset
    OpenSize,       \* quantity of a first entry
    TrancheSize,    \* quantity of a scale-in
    ExchangeStops,  \* exchange_stop_orders_enabled
    Cooldown,       \* cooldown_candles > 0
    Profiles        \* a strategy, what may go wrong and how often (bound)

FaultKinds == {"place", "cancel", "status", "balance", "reject", "trigger",
               "race", "persist", "cleanup", "crash"}

ASSUME IdsAssumption == NoId \notin Ids /\ Ghost \notin Ids /\ NoId # Ghost
ASSUME SizeAssumption ==
    /\ Lot \in Nat \ {0} /\ OpenSize \in Nat \ {0} /\ TrancheSize \in Nat
    /\ BuyFee \in Nat /\ BuyFee < OpenSize /\ BuyFee <= TrancheSize
ASSUME FlagAssumption == ExchangeStops \in BOOLEAN /\ Cooldown \in BOOLEAN
\* scaleIns is 2 for SmartHodler, 0 for MeanReversion
ASSUME ProfileAssumption ==
    Profiles \subseteq [scaleIns : Nat, faults : SUBSET FaultKinds, max : Nat]

VARIABLES
    profile, \* the member of Profiles that is run
    free,    \* free balance of the asset on the exchange
    stops,   \* the exchange's stop orders: [Ids -> [qty, status]]
    up,      \* the worker process holds components for the pair
    mem,     \* the worker's position, stop id and strategy state
    db,      \* the same, as persisted (PositionRecord + StrategyStateRecord)
    pc,      \* where the tick is
    why,     \* what is being executed: "none", "stop", "forced", "signal"
    pre,     \* strategy state before decide()
    budget   \* faults left

vars == <<profile, free, stops, up, mem, db, pc, why, pre, budget>>

StratStates == {"FLAT", "POSITION", "REDUCED", "COOLDOWN"}
InPosition == {"POSITION", "REDUCED"}
Flat == [size |-> 0, stop |-> NoId, strat |-> "FLAT", scaled |-> 0]

Live == {i \in Ids : stops[i].status = "NEW"}
Locked == MapThenSumSet(LAMBDA i : stops[i].qty, Live)
Asset == free + Locked
\* Names of finished orders nobody refers to are used again; Ids is large enough
\* for one to be left (bound).
Fresh == {i \in Ids \ Live : i # mem.stop /\ i # db.stop}

\* _format_quantity: rounded down to the lot step
Floor(q) == (q \div Lot) * Lot
Smaller(a, b) == IF a <= b THEN a ELSE b

Fault(f) == f \in profile.faults /\ budget > 0 /\ budget' = budget - 1
NoFault == UNCHANGED budget

-----------------------------------------------------------------------------
Init ==
    /\ profile \in Profiles
    /\ free = 0 /\ stops = [i \in Ids |-> [qty |-> 0, status |-> "CANCELED"]]
    /\ up = FALSE /\ mem = Flat /\ db = Flat
    /\ pc = "idle" /\ why = "none" /\ pre = "FLAT" /\ budget = profile.max

(*************************** calls to the exchange *************************)

\* DELETE of order i.  Freed by a successful cancel; -2011 (the order is
\* already gone, filled included) also counts as cancelled; any other error,
\* and any request about an id the exchange never issued, does not.
CancelOk(i) ==
    /\ i \in Ids
    /\ NoFault
    /\ IF i \in Live
       THEN /\ stops' = [stops EXCEPT ![i].status = "CANCELED"]
            /\ free' = free + stops[i].qty
       ELSE UNCHANGED <<stops, free>>

CancelFails(i) ==
    /\ IF i = Ghost THEN NoFault ELSE i \in Live /\ Fault("cancel")
    /\ UNCHANGED <<stops, free>>

CancelIgnored(i) == CancelOk(i) \/ CancelFails(i)

\* POST of a stop order for quantity q: accepted when the balance covers it
StopPlaced(q, i) ==
    /\ i = (CHOOSE j \in Fresh : TRUE) /\ Fresh # {}
    /\ 0 < Floor(q) /\ Floor(q) <= free
    /\ NoFault
    /\ stops' = [stops EXCEPT ![i] = [qty |-> Floor(q), status |-> "NEW"]]
    /\ free' = free - Floor(q)

StopNotPlaced(q) ==
    /\ IF Floor(q) = 0 \/ Floor(q) > free THEN NoFault ELSE Fault("place")
    /\ UNCHANGED <<stops, free>>

StopWouldTrigger(q) ==
    /\ 0 < Floor(q) /\ Fault("trigger")
    /\ UNCHANGED <<stops, free>>

-----------------------------------------------------------------------------
(******************************** the tick *********************************)

\* Components are recovered from the rows when the process has none; then
\* check_exchange_stop asks for the stop's status when there is one.
TickStart ==
    LET m == IF up THEN mem ELSE db
    IN  /\ pc = "idle"
        /\ up' = TRUE /\ mem' = m
        /\ pc' = IF ExchangeStops /\ m.size > 0 /\ m.stop # NoId THEN "status" ELSE "decide"
        /\ UNCHANGED <<free, stops, db, why, pre>> /\ NoFault

\* The stop was filled between ticks: the position is closed at its fill price,
\* cooldown starts, and the rest of the tick is skipped.
StatusFilled ==
    /\ pc = "status" /\ mem.stop \in Ids /\ stops[mem.stop].status = "FILLED"
    /\ mem' = [Flat EXCEPT !.strat = "COOLDOWN"] /\ pc' = "persistFill"
    /\ UNCHANGED <<free, stops, up, db, why, pre>> /\ NoFault

StatusNotFilled ==
    /\ pc = "status" /\ mem.stop \in Ids /\ stops[mem.stop].status # "FILLED"
    /\ mem' = IF mem.stop \in Live THEN mem ELSE [mem EXCEPT !.stop = NoId]
    /\ pc' = "decide"
    /\ UNCHANGED <<free, stops, up, db, why, pre>> /\ NoFault

StatusUnknown ==
    /\ pc = "status"
    /\ IF mem.stop = Ghost THEN NoFault ELSE Fault("status")
    /\ pc' = "decide"
    /\ UNCHANGED <<free, stops, up, mem, db, why, pre>>

\* check_stops found a breached level
StopHit ==
    /\ pc = "decide" /\ mem.size > 0
    /\ why' = "stop" /\ pc' = "balance"
    /\ UNCHANGED <<free, stops, up, mem, db, pre>> /\ NoFault

NoStopHit_noReplace(rose) ==
    /\ pc = "decide"
    /\ pc' = IF ExchangeStops /\ mem.size > 0 /\ mem.stop # NoId /\ rose THEN "move" ELSE "strategy"
    /\ UNCHANGED <<free, stops, up, mem, db, why, pre>> /\ NoFault

\* No level breached: the exchange stop is placed when missing and moved when
\* the effective level rose.
NoStopHit(rose) ==
    /\ pc = "decide"
    /\ pc' = IF ~ExchangeStops \/ mem.size = 0 THEN "strategy"
             ELSE IF mem.stop = NoId THEN "place"
             ELSE IF rose THEN "move" ELSE "strategy"
    /\ UNCHANGED <<free, stops, up, mem, db, why, pre>> /\ NoFault

MoveCancel ==
    /\ pc = "move"
    /\ \/ CancelOk(mem.stop) /\ pc' = "place"
       \/ CancelFails(mem.stop) /\ pc' = "strategy"
    /\ UNCHANGED <<up, mem, db, why, pre>>

\* A stop that would trigger at once forces the exit instead.
Place ==
    /\ pc = "place"
    /\ \/ \E i \in Ids : StopPlaced(mem.size, i) /\ mem' = [mem EXCEPT !.stop = i]
                         /\ pc' = "strategy" /\ UNCHANGED why
       \/ StopNotPlaced(mem.size) /\ mem' = [mem EXCEPT !.stop = NoId]
          /\ pc' = "strategy" /\ UNCHANGED why
       \/ StopWouldTrigger(mem.size) /\ why' = "forced" /\ pc' = "balance" /\ UNCHANGED mem
    /\ UNCHANGED <<up, db, pre>>

-----------------------------------------------------------------------------
(************************** strategy and risk ******************************)

\* HOLD, a signal some gate or the risk engine turns into HOLD, or a cooldown
\* that runs out without a BUY: the state is rolled back to what it was.
DecideHold ==
    /\ pc = "strategy" /\ pc' = "persist"
    /\ UNCHANGED <<free, stops, up, mem, db, why, pre>> /\ NoFault

Signalled(to, next) ==
    /\ pc = "strategy"
    /\ pre' = mem.strat /\ mem' = [mem EXCEPT !.strat = to]
    /\ why' = "signal" /\ pc' = next
    /\ UNCHANGED <<free, stops, up, db>> /\ NoFault

DecideSell ==
    /\ mem.strat \in InPosition /\ mem.size > 0
    /\ Signalled("COOLDOWN", "balance")

\* Sizes are halved exactly: the unit of size is chosen so (bound).
DecideReduce ==
    /\ mem.strat = "POSITION" /\ mem.size > 0 /\ mem.size % 2 = 0
    /\ Signalled("REDUCED", IF ExchangeStops /\ mem.stop # NoId THEN "reduceCancel" ELSE "reduce")

DecideBuy_noMax ==
    /\ mem.strat \in {"FLAT", "COOLDOWN", "REDUCED"}
    /\ Signalled("POSITION", IF mem.size = 0 THEN "open" ELSE "scaleIn")

\* BUY: SmartHodler emits it from FLAT (a finished cooldown included) and from
\* REDUCED only; risk makes it an OPEN or a SCALE_IN.
DecideBuy ==
    /\ mem.strat \in {"FLAT", "COOLDOWN", "REDUCED"}
    /\ mem.size > 0 => mem.scaled < profile.scaleIns
    /\ Signalled("POSITION", IF mem.size = 0 THEN "open" ELSE "scaleIn")

RolledBack == [mem EXCEPT !.strat = pre]

\* A BUY that the exchange refused
BuyRefused ==
    /\ pc \in {"open", "scaleIn"} /\ Fault("reject")
    /\ mem' = RolledBack /\ pc' = "persist"
    /\ UNCHANGED <<free, stops, up, db, why, pre>>

OpenFilled ==
    /\ pc = "open"
    /\ free' = free + OpenSize - BuyFee
    /\ mem' = [Flat EXCEPT !.size = OpenSize - BuyFee, !.strat = mem.strat]
    /\ pc' = IF ExchangeStops THEN "guard" ELSE "persist"
    /\ UNCHANGED <<stops, up, db, why, pre>> /\ NoFault

ScaleInFilled_overwrite ==
    /\ pc = "scaleIn"
    /\ free' = free + TrancheSize - BuyFee
    /\ mem' = [mem EXCEPT !.size = TrancheSize - BuyFee, !.scaled = @ + 1]
    /\ pc' = IF ~ExchangeStops THEN "persist"
             ELSE IF mem.stop # NoId THEN "scaleCancel" ELSE "guard"
    /\ UNCHANGED <<stops, up, db, why, pre>> /\ NoFault

ScaleInFilled ==
    /\ pc = "scaleIn"
    /\ free' = free + TrancheSize - BuyFee
    /\ mem' = [mem EXCEPT !.size = @ + TrancheSize - BuyFee, !.scaled = @ + 1]
    /\ pc' = IF ~ExchangeStops THEN "persist"
             ELSE IF mem.stop # NoId THEN "scaleCancel" ELSE "guard"
    /\ UNCHANGED <<stops, up, db, why, pre>> /\ NoFault

\* The old stop is cancelled, its outcome ignored; the id stays until replaced.
ScaleInCancel ==
    /\ pc = "scaleCancel" /\ CancelIgnored(mem.stop) /\ pc' = "guard"
    /\ UNCHANGED <<up, mem, db, why, pre>>

\* The stop placed after an OPEN, a SCALE_IN or a REDUCE.  Any non-empty answer
\* of _place_stop_order is stored as the order id.
Guard ==
    /\ pc = "guard" /\ pc' = "persist"
    /\ \/ \E i \in Ids : StopPlaced(mem.size, i) /\ mem' = [mem EXCEPT !.stop = i]
       \/ StopNotPlaced(mem.size) /\ UNCHANGED mem
       \/ StopWouldTrigger(mem.size) /\ mem' = [mem EXCEPT !.stop = Ghost]
    /\ UNCHANGED <<up, db, why, pre>>

-----------------------------------------------------------------------------
(******************************* REDUCE ************************************)

ReduceCancel_forget ==
    /\ pc = "reduceCancel"
    /\ mem' = [mem EXCEPT !.stop = NoId] /\ pc' = "reduce"
    /\ UNCHANGED <<free, stops, up, db, why, pre>> /\ NoFault

ReduceCancel ==
    /\ pc = "reduceCancel" /\ CancelIgnored(mem.stop)
    /\ mem' = [mem EXCEPT !.stop = NoId] /\ pc' = "reduce"
    /\ UNCHANGED <<up, db, why, pre>>

\* Quantity sold: half of the position, clamped to the free balance, floored.
\* The book is halved whatever was sold.
ReduceQty == Floor(Smaller(free, mem.size \div 2))

ReduceFilled ==
    /\ pc = "reduce" /\ ReduceQty > 0
    /\ free' = free - ReduceQty
    /\ mem' = [mem EXCEPT !.size = @ \div 2]
    /\ pc' = IF ExchangeStops THEN "guard" ELSE "persist"
    /\ UNCHANGED <<stops, up, db, why, pre>> /\ NoFault

\* Nothing to sell, or refused by the exchange: the stop cancelled before is
\* not placed again in this tick.
ReduceFails ==
    /\ pc = "reduce"
    /\ IF ReduceQty = 0 THEN NoFault ELSE Fault("reject")
    /\ mem' = RolledBack /\ pc' = "persist"
    /\ UNCHANGED <<free, stops, up, db, why, pre>>

-----------------------------------------------------------------------------
(******************************** CLOSE ************************************)

CloseUnlock_noCancel ==
    /\ pc = "balance" /\ free = 0 /\ mem.stop # NoId
    /\ mem' = [mem EXCEPT !.stop = NoId] /\ pc' = "sell"
    /\ UNCHANGED <<free, stops, up, db, why, pre>> /\ NoFault

\* The whole balance is locked: the stop is cancelled first, its outcome
\* ignored and its id forgotten, and the balance is read again.
CloseUnlock ==
    /\ pc = "balance" /\ free = 0 /\ mem.stop # NoId
    /\ CancelIgnored(mem.stop)
    /\ mem' = [mem EXCEPT !.stop = NoId] /\ pc' = "sell"
    /\ UNCHANGED <<up, db, why, pre>>

\* Quantity to sell, before formatting: the position clamped to the free
\* balance (when known), or the whole balance when the position alone is under
\* one lot.
CloseQty(known) ==
    IF ~known THEN mem.size
    ELSE IF Floor(Smaller(free, mem.size)) = 0 /\ Floor(free) > 0 THEN free
    ELSE Smaller(free, mem.size)

Selling(known) ==
    /\ pc = "sell" \/ (pc = "balance" /\ (~known \/ free > 0 \/ mem.stop = NoId))
    /\ UNCHANGED <<stops, up, db, pre>>

CloseSold(known) ==
    LET q == Floor(CloseQty(known))
    IN  /\ Selling(known)
        /\ 0 < q /\ q <= free /\ free' = free - q
        /\ pc' = "sold" /\ UNCHANGED <<mem, why>>
        /\ IF known THEN NoFault ELSE Fault("balance")

\* The strategy state after an executed exit.
Exited ==
    [Flat EXCEPT !.strat = CASE why = "forced" -> "COOLDOWN"
                             [] why = "stop" /\ Cooldown -> "COOLDOWN"
                             [] OTHER -> mem.strat]

\* Nothing to sell: the position is closed in the book only (_local_dust_close).
CloseDust ==
    /\ Selling(TRUE) /\ Floor(CloseQty(TRUE)) = 0
    /\ mem' = Exited /\ pc' = "persist"
    /\ UNCHANGED <<free, why>> /\ NoFault

CloseFails_noRollback(known) ==
    LET q == Floor(CloseQty(known))
    IN  /\ Selling(known)
        /\ IF known THEN q > 0 /\ Fault("reject") ELSE (q = 0 \/ q > free) /\ Fault("balance")
        /\ UNCHANGED mem
        /\ pc' = IF why = "forced" THEN "strategy" ELSE "persist"
        /\ UNCHANGED <<free, why>>

\* No order was filled.  A failed stop skips the strategy, a failed forced exit
\* does not, a failed signal is rolled back.
CloseFails(known) ==
    LET q == Floor(CloseQty(known))
    IN  /\ Selling(known)
        /\ IF known THEN q > 0 /\ Fault("reject") ELSE (q = 0 \/ q > free) /\ Fault("balance")
        /\ mem' = IF why = "signal" THEN RolledBack ELSE mem
        /\ pc' = IF why = "forced" THEN "strategy" ELSE "persist"
        /\ UNCHANGED <<free, why>>

\* The sell is confirmed: the stop is cancelled (outcome ignored), then the book
\* closes the whole position.
CloseDone ==
    /\ pc = "sold"
    /\ IF ExchangeStops /\ mem.stop # NoId THEN CancelIgnored(mem.stop)
       ELSE UNCHANGED <<free, stops>> /\ NoFault
    /\ mem' = Exited /\ pc' = "persist"
    /\ UNCHANGED <<up, db, why, pre>>

-----------------------------------------------------------------------------
(****************************** persistence ********************************)

Idle == pc' = "idle" /\ why' = "none" /\ pre' = "FLAT"

PersistOk ==
    /\ pc \in {"persist", "persistFill"} /\ Idle
    /\ db' = mem
    /\ UNCHANGED <<free, stops, up, mem>> /\ NoFault

\* The transaction failed.  After a tick that left no position the emergency
\* cleanup deletes the row and repairs the persisted strategy state; the tick
\* that found its stop filled has no such cleanup.
PersistFails ==
    /\ pc \in {"persist", "persistFill"} /\ Idle
    /\ Fault("persist")
    /\ db' = IF pc = "persist" /\ mem.size = 0
             THEN [Flat EXCEPT !.strat = IF db.strat \in InPosition THEN mem.strat ELSE db.strat]
             ELSE db
    /\ UNCHANGED <<free, stops, up, mem>>

PersistAndCleanupFail ==
    /\ pc = "persist" /\ mem.size = 0 /\ Idle
    /\ Fault("cleanup")
    /\ UNCHANGED <<free, stops, up, mem, db>>

-----------------------------------------------------------------------------
(****************************** environment ********************************)

\* The market reaches a stop order and fills it.  In the middle of a tick this
\* is a race, which a run may exclude.
StopFires(i) ==
    /\ i \in Live
    /\ IF pc = "idle" THEN NoFault ELSE Fault("race")
    /\ stops' = [stops EXCEPT ![i].status = "FILLED"]
    /\ UNCHANGED <<free, up, mem, db, pc, why, pre>>

\* The worker process dies (or is recycled, max_tasks_per_child)
Crash ==
    /\ up /\ Fault("crash")
    /\ up' = FALSE /\ mem' = Flat /\ Idle
    /\ UNCHANGED <<free, stops, db>>

TickStep ==
    \/ StatusFilled \/ StatusNotFilled \/ StatusUnknown
    \/ StopHit \/ (\E r \in BOOLEAN : NoStopHit(r)) \/ MoveCancel \/ Place
    \/ DecideHold \/ DecideSell \/ DecideReduce \/ DecideBuy
    \/ BuyRefused \/ OpenFilled \/ ScaleInFilled \/ ScaleInCancel \/ Guard
    \/ ReduceCancel \/ ReduceFilled \/ ReduceFails
    \/ CloseUnlock \/ CloseDust \/ CloseDone
    \/ \E k \in BOOLEAN : CloseSold(k) \/ CloseFails(k)
    \/ PersistOk \/ PersistFails \/ PersistAndCleanupFail

Next ==
    /\ TickStart \/ TickStep \/ (\E i \in Ids : StopFires(i)) \/ Crash
    /\ UNCHANGED profile

Spec == Init /\ [][Next]_vars
\* The beat fires every 15 minutes and a started tick runs to its end.
FairSpec == Spec /\ WF_vars(TickStart /\ UNCHANGED profile) /\ WF_vars(TickStep /\ UNCHANGED profile)

-----------------------------------------------------------------------------
(******************* what the theorems assume of constants *****************)

\* Sizes are counted in lots, so that no remainder is too small to sell.
NoDust == Lot = 1

\* A strategy that scales in does not meet a stop order that fills, or has
\* filled, unseen.
ScaleInsForeseen ==
    \A p \in Profiles :
        p.faults \cap {"cancel", "crash"} = {} => p.scaleIns = 0 \/ p.faults \cap {"race", "status"} = {}

-----------------------------------------------------------------------------
(******************************* properties ********************************)

Books == [size : Nat, stop : Ids \cup {NoId, Ghost}, strat : StratStates, scaled : 0..profile.scaleIns]

TypeOK ==
    /\ free \in Nat /\ stops \in [Ids -> [qty : Nat, status : {"NEW", "FILLED", "CANCELED"}]]
    /\ up \in BOOLEAN /\ mem \in Books /\ db \in Books
    /\ pc \in {"idle", "status", "decide", "place", "move", "strategy", "balance", "sell",
               "sold", "open", "scaleIn", "scaleCancel", "guard", "reduceCancel", "reduce",
               "persist", "persistFill"}
    /\ why \in {"none", "stop", "forced", "signal"} /\ pre \in StratStates
    /\ profile \in Profiles /\ budget \in 0..profile.max

Resting == pc = "idle" /\ up

\* Neither a failed cancellation nor the death of the worker between a call and
\* the rows is among the faults: both leave orders nobody knows of.
Tracked == profile.faults \cap {"cancel", "crash"} = {}

\* Nothing the account holds is left out of the book: the tick loop manages, and
\* the next close sells, every unit it bought.
NothingUntracked == Tracked /\ Resting => Asset <= mem.size

\* A position the book closes has really left the account, up to dust: in
\* particular "Close position locally without exchange order (true dust only)"
\* (_local_dust_close), but also a clamped sell or a filled stop.
ClosedMeansSold ==
    [][Tracked /\ up /\ up' /\ mem.size > 0 /\ mem'.size = 0 => Asset' < Lot]_vars

\* No live stop order is forgotten: it could fire on a position opened later,
\* and it locks the asset the next close wants to sell.
NoOrphanStop == Tracked /\ Resting => \A i \in Live : mem.stop = i

\* The strategy believes it is in position exactly when the book holds one, in
\* memory and in the rows a restart would recover.
StrategyAgrees ==
    /\ Resting => (mem.size > 0 <=> mem.strat \in InPosition)
    /\ db.size > 0 <=> db.strat \in InPosition

\* Protection on the exchange is restored: a position whose asset is free does
\* not stay without a stop order while ticks run (unless the text "TRIGGER_NOW"
\* was stored as its order id, which no tick replaces).
ProtectionRestored ==
    ("trigger" \notin profile.faults /\ Resting /\ mem.size > 0 /\ free >= mem.size)
        ~> (Live # {} \/ free < mem.size \/ mem.size = 0)
=============================================================================
