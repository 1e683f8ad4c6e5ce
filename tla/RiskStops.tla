----------------------------- MODULE RiskStops -----------------------------
(***************************************************************************)
(* The stop levels of one open position: the break-even ratchet, the hard  *)
(* stop and the ATR trailing stop of core/risk/_stops.py, the way a tick   *)
(* writes them back (core/tasks/_tick.py) and the price of the exchange    *)
(* stop order that mirrors them.                                           *)
(*                                                                         *)
(* Prices are integers.  A stop LEVEL is kept in hundredths of a price, so *)
(* that entry * (1 +- pct/100) is exact and no rounding is involved.       *)
(***************************************************************************)
EXTENDS Integers

CONSTANTS
    Sides,          \* sides traded: a subset of {"long", "short"}
    Prices,         \* the closes and fill prices the market can show
    Atrs,           \* the ATR values, may contain NoAtr (missing or NaN)
    NoAtr,          \* the indicator has no value on this candle
    HardPct,        \* hard_stop_pct, in percent
    BreakevenPct,   \* breakeven_trigger_pct
    LockinPct,      \* lockin_trigger_pct
    LockinStopPct,  \* lockin_stop_pct
    AtrMult,        \* trailing_stop_atr_multiplier
    NoOrder         \* no stop order on the exchange

ASSUME SidesAssumption == Sides \subseteq {"long", "short"}
ASSUME PricesAssumption == Prices \subseteq Nat \ {0}
ASSUME AtrsAssumption == Atrs \ {NoAtr} \subseteq Nat /\ NoAtr \notin Int
ASSUME PctAssumption ==
    /\ HardPct \in 1..99 /\ BreakevenPct \in Nat /\ LockinPct \in Nat
    /\ LockinStopPct \in 0..99 /\ AtrMult \in Nat
ASSUME NoOrderAssumption == NoOrder \notin Int

VARIABLES
    open,      \* is there a position
    side, entry, size,
    scaled,    \* scale_in_count
    hard,      \* hard_stop_price, a level
    trailing,  \* trailing_stop_price, a level; 0 means none
    extreme,   \* highest_close of a long, lowest_close of a short; 0 means none
    last,      \* the close of the last tick that held the position
    exch       \* level of the live exchange stop order, or NoOrder

vars == <<open, side, entry, size, scaled, hard, trailing, extreme, last, exch>>

Level(p) == 100 * p
Max2(a, b) == IF a >= b THEN a ELSE b
Min2(a, b) == IF a <= b THEN a ELSE b

-----------------------------------------------------------------------------
(* Level computations, one operator per method of StopCheckMixin.          *)

InitialHard(s, p) == IF s = "long" THEN p * (100 - HardPct) ELSE p * (100 + HardPct)

\* Raw trailing level from the extreme close; 0 when the ATR is unavailable.
Trail(s, x, atr) ==
    IF atr = NoAtr THEN 0
    ELSE IF s = "long" THEN Level(x) - 100 * AtrMult * atr
                       ELSE Level(x) + 100 * AtrMult * atr

\* profit_pct >= pct, multiplied out
ProfitReached(s, e, c, pct) ==
    IF s = "long" THEN 100 * (c - e) >= pct * e ELSE 100 * (e - c) >= pct * e

\* The level the profit reached at close c entitles the hard stop to.
RatchetTarget(s, e, c, h) ==
    IF ProfitReached(s, e, c, LockinPct)
    THEN IF s = "long" THEN e * (100 + LockinStopPct) ELSE e * (100 - LockinStopPct)
    ELSE IF ProfitReached(s, e, c, BreakevenPct) THEN Level(e) ELSE h

Ratchet_noMonotone(s, e, c, h) == RatchetTarget(s, e, c, h)
Ratchet_breakevenFirst(s, e, c, h) ==
    IF ProfitReached(s, e, c, BreakevenPct)
    THEN IF s = "long" THEN Max2(h, Level(e)) ELSE Min2(h, Level(e)) ELSE h

\* Break-even ratchet: the hard stop moves toward profit only.
Ratchet(s, e, c, h) ==
    IF s = "long" THEN Max2(RatchetTarget(s, e, c, h), h)
                  ELSE Min2(RatchetTarget(s, e, c, h), h)

NewTrailing_unratcheted(s, x, atr, t) == Trail(s, x, atr)
\* Trailing stop, ratcheted against the stored level when there is one.
NewTrailing(s, x, atr, t) ==
    IF t > 0
    THEN IF s = "long" THEN Max2(Trail(s, x, atr), t) ELSE Min2(Trail(s, x, atr), t)
    ELSE Trail(s, x, atr)

\* A short without a lowest close takes the present one.
NewExtreme(s, x, c) == IF s = "long" THEN Max2(x, c) ELSE IF x = 0 THEN c ELSE Min2(x, c)

Breached(s, c, level) ==
    /\ level > 0
    /\ IF s = "long" THEN Level(c) < level ELSE Level(c) > level

\* The price of the exchange stop: max of the two, whatever the side.
Effective(h, t) == Max2(h, t)

\* Units of size: the first entry is 50% of the slot, each tranche 25%.
InitialSize == 4
TrancheSize == 2

\* Weighted-average entry price after a tranche at p, rounded half up.
AverageEntry(p) ==
    (2 * (entry * size + p * TrancheSize) + size + TrancheSize)
        \div (2 * (size + TrancheSize))

-----------------------------------------------------------------------------
Init ==
    /\ open = FALSE /\ side \in Sides
    /\ entry = 0 /\ size = 0 /\ scaled = 0 /\ hard = 0 /\ trailing = 0
    /\ extreme = 0 /\ last = 0 /\ exch = NoOrder

\* OPEN: risk sizes the stops from the close, pm.open_position stores them and
\* the exchange stop is placed at the hard stop (or its placement fails).  The
\* size unit makes every later halving exact while it matters.
Open(s, p, atr, placed) ==
    /\ ~open
    /\ open' = TRUE /\ side' = s /\ entry' = p /\ size' = InitialSize /\ scaled' = 0
    /\ hard' = InitialHard(s, p) /\ trailing' = Trail(s, p, atr)
    /\ extreme' = p /\ last' = p
    /\ exch' = IF placed THEN InitialHard(s, p) ELSE NoOrder

ScaleIn_noMax(p, placed) ==
    /\ open /\ side = "long"
    /\ entry' = AverageEntry(p) /\ size' = size + TrancheSize /\ scaled' = scaled + 1
    /\ exch' = IF placed THEN hard ELSE NoOrder
    /\ UNCHANGED <<open, side, hard, trailing, extreme, last>>

\* SCALE_IN: weighted-average entry; the old stop is cancelled and replaced at
\* the hard stop.  When the replacement fails nothing protects the position on
\* the exchange until a later status query notices.
ScaleIn(p, placed) ==
    /\ open /\ side = "long" /\ scaled < 2
    /\ entry' = AverageEntry(p) /\ size' = size + TrancheSize /\ scaled' = scaled + 1
    /\ exch' = IF placed THEN hard ELSE NoOrder
    /\ UNCHANGED <<open, side, hard, trailing, extreme, last>>

\* REDUCE: half of the position is sold, the stop is cancelled before and placed
\* again for the rest after; the levels do not move.
Reduce(placed) ==
    /\ open /\ size % 2 = 0
    /\ size' = size \div 2
    /\ exch' = IF placed THEN hard ELSE NoOrder
    /\ UNCHANGED <<open, side, entry, scaled, hard, trailing, extreme, last>>

CloseState ==
    /\ open' = FALSE /\ entry' = 0 /\ size' = 0 /\ scaled' = 0
    /\ hard' = 0 /\ trailing' = 0 /\ extreme' = 0 /\ exch' = NoOrder
    /\ UNCHANGED side

\* check_stops finds a breached level (hard stop first, then trailing) and the
\* close executes.
TickExit(c, atr) ==
    /\ open
    /\ \/ Breached(side, c, Ratchet(side, entry, c, hard))
       \/ Breached(side, c, NewTrailing(side, NewExtreme(side, extreme, c), atr, trailing))
    /\ last' = c
    /\ CloseState

\* No level is breached: update_stops stores the new levels, then the exchange
\* stop is placed when missing, or cancelled and placed again when the
\* effective level rose.  cancelOk and placed are the exchange's answers.
TickHold(c, atr, cancelOk, placed) ==
    LET x == NewExtreme(side, extreme, c)
        h == Ratchet(side, entry, c, hard)
        t == NewTrailing(side, x, atr, trailing)
        old == Effective(hard, trailing)
        new == Effective(h, t)
    IN  /\ open
        /\ ~Breached(side, c, h) /\ ~Breached(side, c, t)
        /\ hard' = h /\ trailing' = t /\ extreme' = x /\ last' = c
        /\ exch' = IF exch = NoOrder
                   THEN IF new > 0 /\ placed THEN new ELSE NoOrder
                   ELSE IF new > old /\ cancelOk
                        THEN IF placed THEN new ELSE NoOrder
                        ELSE exch
        /\ UNCHANGED <<open, side, entry, size, scaled>>

\* A close or a reduce whose order failed after the exchange stop was cancelled
\* to unlock the asset; neither stored level changes (update_stops is skipped).
OrderFails ==
    /\ open /\ exch # NoOrder /\ exch' = NoOrder
    /\ UNCHANGED <<open, side, entry, size, scaled, hard, trailing, extreme, last>>

\* The strategy or the time stop sells, or the exchange stop is found filled.
Close == open /\ CloseState /\ UNCHANGED last

\* The worker is replaced between two ticks.  The row keeps every field but the
\* lowest close of a short, which is neither written to it nor read from it.
Restart ==
    /\ open /\ extreme' = IF side = "long" THEN extreme ELSE 0
    /\ UNCHANGED <<open, side, entry, size, scaled, hard, trailing, last, exch>>

Next ==
    \/ \E s \in Sides, p \in Prices, atr \in Atrs, ok \in BOOLEAN : Open(s, p, atr, ok)
    \/ \E p \in Prices, ok \in BOOLEAN : ScaleIn(p, ok)
    \/ \E ok \in BOOLEAN : Reduce(ok)
    \/ \E c \in Prices, atr \in Atrs : TickExit(c, atr)
    \/ \E c \in Prices, atr \in Atrs, k, ok \in BOOLEAN : TickHold(c, atr, k, ok)
    \/ OrderFails
    \/ Restart
    \/ Close

Spec == Init /\ [][Next]_vars

-----------------------------------------------------------------------------
TypeOK ==
    /\ open \in BOOLEAN /\ side \in {"long", "short"}
    /\ entry \in Nat /\ size \in Nat /\ scaled \in 0..2
    /\ hard \in Int /\ trailing \in Int /\ extreme \in Nat /\ last \in Nat
    /\ exch \in Int \cup {NoOrder}

\* Once the best close of a tick reached the lock-in trigger, the hard stop
\* guarantees the lock-in profit, whatever the later closes and restarts were (_apply_breakeven_ratchet
\* and highest_close are updated by different code paths of the same tick).
ProfitLockedIn ==
    open /\ scaled = 0 /\ extreme \notin {0, entry} /\ ProfitReached(side, entry, extreme, LockinPct) =>
        IF side = "long" THEN hard >= entry * (100 + LockinStopPct)
                         ELSE hard <= entry * (100 - LockinStopPct)

\* The exchange order of a long never sits above the level the risk engine
\* would sell at: a stop that fires on the exchange would have fired here.
ExchangeNotAhead ==
    open /\ side = "long" /\ exch # NoOrder => exch <= Effective(hard, trailing)

\* "Only ratchet the stop upward; never lower it" (_check_trailing_long) and
\* the same for the hard stop, across ticks, scale-ins, missing ATR values and
\* restarts.
LongStopsNeverFall ==
    [][open /\ open' /\ side = "long" => hard' >= hard /\ (trailing > 0 => trailing' >= trailing)]_vars

\* "Only ratchet the stop downward; never raise it" (_check_trailing_short),
\* while the trailing stop is in force: a candle without an ATR value drops the
\* level of a short, min(0, level) being 0, and the next one starts afresh.  A restarted worker has
\* forgotten the lowest close, but not the level.
ShortStopsNeverRise ==
    [][open /\ open' /\ side = "short" =>
        hard' <= hard /\ (trailing > 0 => trailing' <= trailing)]_vars

=============================================================================
