---------------------------- MODULE PaperTrading ----------------------------
(***************************************************************************)
(* The decision pipeline of one pair in paper mode: the state machine of   *)
(* its strategy (core/strategies), the gates of the tick, the risk         *)
(* engine's counters (core/risk), the portfolio's ledger (core/portfolio)  *)
(* and what of all this survives a restart.                                *)
(*                                                                         *)
(* What the strategies read from the indicators is Conditions' subject.    *)
(* Notionals are integers; money is in 1/Unit of them, so that fees are    *)
(* exact.  The levels the stops fire at are RiskStops' subject.            *)
(***************************************************************************)
EXTENDS Conditions

CONSTANTS
    Strategies,    \* the strategies considered
    Prices,        \* fill prices
    Unit, Fee,     \* taker_fee = Fee/Unit
    Slot,          \* slot capital, also the initial capital
    Tranches,      \* [0..2 -> percent of the slot]: entry, first, second scale-in
    ScaleCandles,  \* [0..1 -> BUY candles a scale-in needs]
    Cooldown,      \* cooldown_candles
    TimeCooldown,  \* time_stop_cooldown_candles
    Confirm,       \* exit_confirmation_candles
    MaxDaily,      \* max_trades_per_day
    MaxEntries,    \* bound on the entries
    Readings,      \* what a strategy may read in a candle, by strategy
    Smoothed,      \* the ADX the regime is detected from
    SentinelReadings, \* what the macro filter may read of BTC and ETH
    Faults         \* what may go wrong

FaultKinds == {"crash", "persist", "funds"}

ASSUME StrategyAssumption == Strategies \subseteq StrategyNames
ASSUME MoneyAssumption ==
    /\ Prices \subseteq Nat \ {0} /\ Slot \in Nat
    /\ Unit \in Nat /\ Fee \in Nat /\ Fee < Unit
    /\ Tranches \in [0..2 -> 0..100]
ASSUME CounterAssumption ==
    /\ ScaleCandles \in [0..1 -> Nat] /\ Confirm \in Nat \ {0}
    /\ Cooldown \in Nat /\ TimeCooldown \in Nat
    /\ MaxDaily \in Nat \ {0} /\ MaxEntries \in Nat
ASSUME FaultAssumption == Faults \subseteq FaultKinds

VARIABLES
    strategy,  \* name of the strategy
    mem,       \* strategy, counters and portfolio of the worker
    db,        \* the same as persisted
    opens,     \* entries the risk engine has counted today, in memory only
    entered,   \* history: entries executed today by this process
    entries,   \* history: entries executed at all
    pc         \* "idle", or "persist" at the end of a tick

vars == <<strategy, mem, db, opens, entered, entries, pc>>

(* st, cool, beyond: state machine of the strategy; count: consecutive BUY  *)
(* candles of the risk engine; size, basis (size * entry price), scaled:   *)
(* the position; balance, pnl: the ledger; rest, streak: history, candles  *)
(* to go before an entry and consecutive BUY signals.                      *)
Fresh == [st |-> "FLAT", cool |-> 0, beyond |-> 0, count |-> 0, size |-> 0, basis |-> 0,
          scaled |-> 0, balance |-> Unit * Slot, pnl |-> 0, rest |-> 0, streak |-> 0]

Init ==
    /\ strategy \in Strategies
    /\ mem = Fresh /\ db = Fresh
    /\ opens = 0 /\ entered = 0 /\ entries = 0 /\ pc = "idle"

InPosition == {"POSITION", "REDUCED"}
Smart == strategy = "smart_hodler"
Short == strategy = "bear_guard"
\* strategies that also exit on a number of closes in a row
Confirms == strategy # "mean_reversion"
Smaller(a, b) == IF a <= b THEN a ELSE b
\* bound on the counts of BUY candles
StreakBound == ScaleCandles[0] + ScaleCandles[1]

-----------------------------------------------------------------------------
(****************************** the strategies *****************************)

\* The verdicts a candle can lead to, and what the gates can say.
Market == [s \in Strategies |-> {Verdict(s, r) : r \in Readings[s]}]
Gates == [regime : {Regime(adx) : adx \in Smoothed},
          longs : {LongsBlocked(r) : r \in SentinelReadings}, full : BOOLEAN]

\* Mutant: the cooldown ends a candle early.
Cooled_early(m) ==
    IF m.st # "COOLDOWN" THEN m
    ELSE IF m.cool > 2 THEN [m EXCEPT !.cool = @ - 1]
    ELSE [m EXCEPT !.cool = 0, !.st = "FLAT"]

\* The cooldown counts down once per candle (below zero it stays expired).
Cooled(m) ==
    IF m.st # "COOLDOWN" THEN m
    ELSE IF m.cool > 1 THEN [m EXCEPT !.cool = @ - 1]
    ELSE [m EXCEPT !.cool = 0, !.st = "FLAT"]

\* closes in a row on the wrong side of the slow average
Counted(m, k) == [m EXCEPT !.beyond = IF Confirms /\ k.beyond THEN Smaller(@ + 1, Confirm) ELSE 0]

Exits(m, k) == m.st \in InPosition /\ (k.exit \/ (Confirms /\ m.beyond >= Confirm))

Enters(m, k) == k.entry /\ (m.st = "FLAT" \/ (Smart /\ m.st = "REDUCED"))

\* decide(): the next state of the machine and the signal
Decide(k) ==
    LET c == Cooled(mem)
        m == Counted(c, k)
    IN  CASE c.st = "COOLDOWN" \/ ~k.data -> [m |-> c, signal |-> "HOLD"]
          [] c.st # "COOLDOWN" /\ k.data /\ Exits(m, k) ->
                 [m |-> IF Smart THEN [m EXCEPT !.st = "COOLDOWN", !.cool = Cooldown]
                        ELSE [m EXCEPT !.st = "FLAT"],
                  signal |-> "SELL_FULL"]
          [] c.st = "POSITION" /\ k.data /\ ~Exits(m, k) /\ k.fade ->
                 [m |-> [m EXCEPT !.st = "REDUCED"], signal |-> "SELL_HALF"]
          [] k.data /\ ~Exits(m, k) /\ Enters(m, k) ->
                 [m |-> [m EXCEPT !.st = "POSITION"], signal |-> IF Short THEN "SHORT" ELSE "BUY"]
          [] OTHER -> [m |-> m, signal |-> "HOLD"]

\* An entry signal in a regime of other strategies, a BUY while BTC and ETH fall,
\* and a new position when the process holds max_concurrent_positions.
Gated(signal, gates) ==
    \/ signal \in {"BUY", "SHORT"} /\ RegimeBlocks(strategy, gates.regime)
    \/ signal = "BUY" /\ gates.longs
    \/ signal \in {"BUY", "SHORT"} /\ mem.size = 0 /\ gates.full

\* The gates turn the signal into HOLD.  (History: one more candle has passed.)
Signalled(k, gates) ==
    LET d == Decide(k)
        signal == IF Gated(d.signal, gates) THEN "HOLD" ELSE d.signal
    IN  [signal |-> signal,
         m |-> [d.m EXCEPT !.rest = IF @ > 0 THEN @ - 1 ELSE 0,
                           !.streak = IF signal = "BUY" THEN Smaller(@ + 1, StreakBound) ELSE 0]]

Signals == {Signalled(k, g) : k \in Market[strategy], g \in Gates}

-----------------------------------------------------------------------------
(******************************* the ledger ********************************)

\* _size_from_pct, rounded down
Size(tranche, p) == ((Slot * Tranches[tranche]) \div 100) \div p

Cost(q, p) == (Unit + Fee) * q * p

Bought(m, q, p) ==
    [m EXCEPT !.size = @ + q, !.basis = @ + q * p, !.balance = @ - Cost(q, p)]

\* Mutant: the profit of a sale forgets the fee paid on entry.
Sold_noEntryFee(m, q, p) ==
    LET part == (m.basis * q) \div m.size
        made == IF Short THEN Unit * part - Cost(q, p) ELSE (Unit - Fee) * q * p - Unit * part
        credit == IF Short THEN (Unit + Fee) * part + made ELSE (Unit - Fee) * q * p
    IN  [m EXCEPT !.size = @ - q, !.basis = @ - part, !.balance = @ + credit, !.pnl = @ + made,
                  !.scaled = IF q = m.size THEN 0 ELSE @]

\* reduce_position: a short gets back its collateral and what it made of it.
Sold(m, q, p) ==
    LET part == (m.basis * q) \div m.size
        proceeds == (Unit - Fee) * q * p
        made == IF Short THEN (Unit - Fee) * part - Cost(q, p) ELSE proceeds - (Unit + Fee) * part
        credit == IF Short THEN (Unit + Fee) * part + made ELSE proceeds
    IN  [m EXCEPT !.size = @ - q, !.basis = @ - part, !.balance = @ + credit, !.pnl = @ + made,
                  !.scaled = IF q = m.size THEN 0 ELSE @]

-----------------------------------------------------------------------------
(******************************** the tick *********************************)

\* Mutant: it stays in its new state.
RolledBack_not(m) == m

\* A strategy whose decision is not executed goes back to its state.
RolledBack(m) == [m EXCEPT !.st = mem.st]

Cooling(m, candles) ==
    [m EXCEPT !.rest = candles,
              !.st = IF candles > 0 THEN "COOLDOWN" ELSE @,
              !.cool = IF candles > 0 THEN candles ELSE @]

Finish(m) == mem' = m /\ pc' = "persist"

Uncounted == UNCHANGED <<opens, entered, entries>>

\* A stop closes the position before the strategy is asked.
TickStop(p) ==
    /\ pc = "idle" /\ mem.size > 0
    /\ \E candles \in {Cooldown} \cup (IF strategy = "mean_reversion" THEN {TimeCooldown} ELSE {}) :
          Finish(Cooling(Sold([mem EXCEPT !.streak = 0], mem.size, p), candles))
    /\ Uncounted /\ UNCHANGED <<strategy, db>>

\* Mutant: a candle without a BUY signal leaves the count alone.
TickHold_keepsCount(d) ==
    /\ pc = "idle" /\ d.signal = "HOLD"
    /\ Finish(RolledBack(d.m))
    /\ Uncounted /\ UNCHANGED <<strategy, db>>

TickHold(d) ==
    /\ pc = "idle" /\ d.signal = "HOLD"
    /\ Finish([RolledBack(d.m) EXCEPT !.count = IF mem.size > 0 THEN 0 ELSE @])
    /\ Uncounted /\ UNCHANGED <<strategy, db>>

TickSell(d, p) ==
    /\ pc = "idle" /\ d.signal \in {"SELL_FULL", "SELL_HALF"}
    /\ LET m == [d.m EXCEPT !.count = 0] IN
          \/ mem.size = 0 /\ Finish(RolledBack(m))
          \/ mem.size > 0 /\ d.signal = "SELL_HALF" /\ Finish(Sold(m, (mem.size + 1) \div 2, p))
          \/ mem.size > 0 /\ d.signal = "SELL_FULL"
             /\ Finish([Sold(m, mem.size, p) EXCEPT !.rest = IF Smart THEN Cooldown ELSE @])
    /\ Uncounted /\ UNCHANGED <<strategy, db>>

\* An entry of q at p that the risk engine has approved and counted: the
\* executor fills it, refuses it (its filters), or the portfolio lacks the
\* funds, and the exception ends the tick.
Enter(m, q, p) ==
    /\ opens' = opens + 1
    /\ \/ /\ Cost(q, p) <= m.balance /\ entries < MaxEntries
          /\ Finish(Bought(m, q, p))
          /\ entered' = entered + 1 /\ entries' = entries + 1
       \/ Finish([RolledBack(m) EXCEPT !.scaled = mem.scaled]) /\ UNCHANGED <<entered, entries>>
       \/ /\ Cost(q, p) > m.balance /\ "funds" \in Faults
          /\ mem' = [m EXCEPT !.scaled = mem.scaled] /\ pc' = "idle" /\ UNCHANGED <<entered, entries>>

\* Mutant: one trade too many
Limited_oneMore(q) == opens > MaxDaily \/ q = 0

\* Mutant: the limit is asked for the first entry only.
Limited_opensOnly(q) == (opens >= MaxDaily /\ mem.size = 0) \/ q = 0

\* The risk engine's limits: trades per day, and sizes that come out as nothing
Limited(q) == opens >= MaxDaily \/ q = 0

TickOpen(d, p) ==
    /\ pc = "idle" /\ d.signal \in {"BUY", "SHORT"} /\ mem.size = 0
    /\ LET m == [d.m EXCEPT !.count = IF Short THEN @ ELSE 1]
           q == Size(0, p)
       IN  IF Limited(q) THEN Finish(RolledBack(m)) /\ Uncounted ELSE Enter(m, q, p)
    /\ UNCHANGED <<strategy, db>>

\* Which tranche the count of BUY candles allows
Due(count) ==
    /\ Smart /\ mem.scaled < 2 /\ count >= ScaleCandles[mem.scaled]

TickScaleIn(d, p) ==
    /\ pc = "idle" /\ d.signal = "BUY" /\ mem.size > 0
    /\ LET m == [d.m EXCEPT !.count = Smaller(@ + 1, StreakBound)] IN
          IF ~Due(mem.count + 1) \/ Limited(Size(mem.scaled + 1, p))
          THEN Finish(RolledBack(m)) /\ Uncounted
          ELSE Enter([m EXCEPT !.scaled = @ + 1], Size(mem.scaled + 1, p), p)
    /\ UNCHANGED <<strategy, db>>

\* When the transaction fails, a position that is gone is at least removed from
\* the rows, without the money and the cooldown.  (History: the exit did happen.)
Persist ==
    /\ pc = "persist" /\ pc' = "idle"
    /\ \/ db' = mem
       \/ "persist" \in Faults /\ db' = db
       \/ "persist" \in Faults /\ mem.size = 0
          /\ db' = [db EXCEPT !.size = 0, !.basis = 0, !.scaled = 0,
                              !.st = IF @ \in InPosition THEN mem.st ELSE @,
                              !.rest = mem.rest, !.streak = mem.streak]
    /\ Uncounted /\ UNCHANGED <<strategy, mem>>

\* New components are recovered from the rows; the entries of the day are not.
Restart ==
    /\ pc = "idle" \/ "crash" \in Faults
    /\ mem' = db /\ opens' = 0 /\ entered' = 0 /\ pc' = "idle"
    /\ UNCHANGED <<strategy, db, entries>>

NewDay ==
    /\ pc = "idle" /\ opens' = 0 /\ entered' = 0
    /\ UNCHANGED <<strategy, mem, db, entries, pc>>

Next ==
    \/ \E p \in Prices : TickStop(p)
    \/ \E d \in Signals : TickHold(d)
    \/ \E d \in Signals, p \in Prices : TickSell(d, p) \/ TickOpen(d, p) \/ TickScaleIn(d, p)
    \/ Persist \/ Restart \/ NewDay

Spec == Init /\ [][Next]_vars

-----------------------------------------------------------------------------
(****************** what the theorems assume of constants ******************)

\* A stop is followed by a cooldown, and an entry leaves something to halve.
StopsCool == Cooldown > 0 /\ TimeCooldown > 0
Halvable == \A p \in Prices : Size(0, p) # 1

\* No transaction fails: the emergency cleanup after one drops a position without
\* its proceeds and its cooldown.
Lossless == "persist" \notin Faults

\* open_position never raises for lack of funds.
Funded == "funds" \notin Faults

-----------------------------------------------------------------------------
(******************************* properties ********************************)

Books == [st : InPosition \cup {"FLAT", "COOLDOWN"}, cool : Nat, beyond : 0..Confirm, count : Nat,
          size : Nat, basis : Int, scaled : 0..2, balance : Int, pnl : Int, rest : Nat, streak : Nat]

TypeOK ==
    /\ strategy \in Strategies /\ mem \in Books /\ db \in Books
    /\ opens \in 0..MaxDaily /\ entered \in 0..MaxEntries /\ entries \in 0..MaxEntries
    /\ pc \in {"idle", "persist"}

\* The phase of a pair: the state of its strategy when the portfolio agrees
Phase(b) == IF b.st \in InPosition <=> b.size > 0 THEN b.st ELSE "TORN"

Machine == INSTANCE Lifecycle WITH
    Refills <- {"smart_hodler"}, worker <- Phase(mem), row <- Phase(db)

\* The pair moves along the transitions its strategy documents ("FLAT -> BUY ->
\* POSITION ...") and no others, and strategy and portfolio never part (check A
\* of the reconciliation finds nothing to repair): through decisions refused by
\* a gate, a limit or the executor, stops, and restarts to what was last saved.
KeepsLifecycle == Machine!Spec

\* No money appears or vanishes: cash and what the open position cost, fees
\* included, are the capital and the profit reported, through scale-ins, partial
\* and full exits of longs and shorts, and restarts.
MoneyConserved ==
    \A b \in {mem, db} : b.balance + (Unit + Fee) * b.basis = Unit * Slot + b.pnl

\* max_trades_per_day bounds the entries a process executes in a day, scale-ins
\* included.
DailyLimit == entered <= MaxDaily

\* No entry until as many candles as the exit asked for have gone by, whatever
\* is refused, rolled back or restarted in between.
CooldownServed == [][entries' > entries /\ mem.size = 0 => mem'.rest = 0]_vars

\* A scale-in follows as many consecutive BUY candles as its tranche asks for: a
\* candle without one, the first entry of a position, or an exit starts over.
ScaleInEarned ==
    [][entries' > entries /\ mem.size > 0 => mem'.streak >= ScaleCandles[mem.scaled]]_vars
=============================================================================
