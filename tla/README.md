# GoldenGibbon: a verification project

TLA+ models of the trading core of GoldenGibbon, TLC runs that check them on small
instances, and TLAPS proofs of the properties that matter most. Line numbers refer to `src/`.

## 1. The system

GoldenGibbon trades crypto pairs (a strategy on a symbol) with three strategies. Everything that
moves money happens in one Celery worker process (`docker-compose.yml`: `--concurrency=1`), which
runs, one at a time, tasks sent by Celery beat (`core/celery_app.py:58-95`) or by the candle stream
(`core/data/stream_runner.py:83`):

    candles -> indicators -> strategy -> gates -> risk engine -> executor -> portfolio -> rows -> events

| part | state it keeps | operations | interacts through |
|---|---|---|---|
| market data (`core/data`) | candle cache in the database, stream connection | fetch, gap filling, stream close | cache; tasks on the queue |
| dispatcher (`_tick.py`) | tick lock per pair in Redis | fan-out over enabled pairs, lock, count of open positions | queue, components |
| strategy (`core/strategies`) | FLAT / POSITION / REDUCED / COOLDOWN, cooldown and confirmation counters | `decide`, `enter_cooldown` | signal, called by the tick; rolled back by it |
| gates (`core/regime.py`, `core/macro_filter.py`, `session_filter.py`) | verdict cached per candle | regime, macro filter, dead zones | turn a signal into HOLD |
| risk engine (`core/risk`) | count of BUY candles, entries of the day | `evaluate`, `check_stops`, sizing | decisions for the executor |
| kill switch (`core/risk/kill_switch.py`) | latch, peak equity, equity at the start of the day | `check`, `hard_reset`, `restore_from_dict` | the row of the pair, written by tick, account monitor, operators |
| portfolio (`core/portfolio`) | balance, profit, positions, stop levels, stop order id | open, scale in, reduce, close | executor |
| paper executor | none | fills at once | portfolio |
| live executor (`_actions.py`, `_orders.py`, `binance.py`) | order records | market orders, stop orders | Binance over HTTP, with retries |
| tick (`core/tasks/_tick.py`) | components per pair, cached in the process | `run_single_strategy_tick` | all of the above |
| persistence and recovery (`_persistence.py`, `_state.py`) | rows for positions, strategy state, orders, trades | one transaction at the end of a tick; recovery of missing components | PostgreSQL |
| reconciliation (`_reconciliation.py`) | streaks in the rows | compare rows with the exchange, recover fills, settle stop records, cancel orphan stops | rows and exchange; the components of the worker only when it force-closes |
| API, scripts | none | reset of kill switches, trading mode, settings | rows |
| backtest, alerting, events, WebSocket, frontend | caches, connections | | not modelled, see section 8 |

What makes it hard: a tick makes up to eight calls to an exchange whose stop orders execute
on their own; any call may fail, time out or be answered with garbage after it took effect; the
same facts are kept four times (exchange, portfolio, rows, strategy state) and are updated
one after the other; a reconciliation repairs rows that the next tick overwrites from memory; the
process is replaced after a hundred tasks and restarts from the rows; beat, stream and redelivered
tasks compete for a lock that expires; operators and monitors write rows a tick is about to overwrite.

What correctness means, per part:
- market data and dispatch: decisions see a complete window of final candles, each candle is decided upon, limits on positions hold;
- risk engine: a stop level only moves towards profit, and profit locked in is kept;
- kill switch: it blocks when and only when it should, until an operator says otherwise;
- strategy and counters: cooldowns are served, scale-ins earned, limits kept, decisions that are not executed leave no trace;
- portfolio: no money appears or vanishes;
- live execution: book, asset and stop order agree, whatever call fails;
- recovery and reconciliation: rows, orders and account agree again in the end, nothing healthy is touched, nothing is closed without evidence.

`PROJECT.json` lists every component with what is modelled of it, and every hazard with the
properties that are there for it.

## 2. Modules

| module | models | used by |
|---|---|---|
| `Candles` | the candle cache, its gap filling, and what the exchange has at a moment | `Dispatch` |
| `Dispatch` | from the candle's close to the decision: stream, beat, queue, lock, several pairs | `MCDispatch`, `Dispatch_proofs` |
| `SessionFilter` | dead zones: which moments of the week block entries | `Conditions` |
| `Conditions` | what strategies and gates read from the indicators, and their settings | `PaperTrading` |
| `Lifecycle` | the abstract pair: one phase, the documented transitions, a saved phase | refined by `PaperTrading` |
| `PaperTrading` | the decision pipeline of a pair in paper mode with the ledger | `MCPaperTrading`, `PaperTrading_proofs` |
| `RiskStops` | the stop levels of a position, `_stops.py` and the part of the tick that stores and places them | `RiskStops_proofs` |
| `KillSwitch` | the switch of a pair, its row, and all who write it | `KillSwitch_proofs` |
| `LivePosition` | a live long position, call by call: executor, exchange, tick, transaction | `MCLivePosition`, `LivePosition_proofs` |
| `OrderRecovery` | the market orders of a live pair, their records and their recovery | `OrderRecovery_proofs` |
| `StopLedger` | the stop orders of a symbol and their records, through ticks and the phases of the reconciliation | `StopLedger_proofs` |
| `Reconcile` | rows against account for one symbol: checks, forced close, adoption, while pairs tick | `MCReconcile`, `Reconcile_proofs` |

The modules cut the tick by subject, and every one keeps the whole order of the steps that
touch its subject. What is abstracted to a choice in one module is modelled in another one: the
stop price in `LivePosition` is `RiskStops`; which orders are placed in `OrderRecovery` is
`PaperTrading`; what a decision is in `Dispatch` is `PaperTrading`; the size of a position in
`StopLedger` is `LivePosition`. `Dispatch` composes the cache with several pairs, `Reconcile` and
`StopLedger` compose the reconciliation with several strategies of one symbol. Each variable is
commented with the field it stands for, and `PROJECT.json` maps every definition to its lines.

### Candles and Dispatch
`clock` counts slots, `Period` of them per candle. A stored candle is "open" (stored while it
formed) or "final". `Chunks` is the loop of `_fetch_in_chunks`, with chunks that fail and its stop
at an empty one; `Cached` is `ON CONFLICT DO NOTHING`. Beat's tasks, the stream's closes and a
broker's queue lead to `FanOut` and one tick per pair, which takes the lock of the newest candle of
*any* symbol, recovers its components, loads its window, decides and persists. Faults: `fetch`,
`load`, `redis`, `persist`, `crash` (with redelivery), `lag` (a slow worker), `stream` (disconnect,
restart), `config` (operators enable and disable pairs or pull the whole history).

### Conditions, SessionFilter, Lifecycle and PaperTrading
A candle is a reading: closes, averages, ADX, RSI, bands, volume, and the time; any value may be
missing. `Conditions` turns it into a verdict (data there, exit, close beyond the slow average,
fade, entry); `PaperTrading` is the rest of the pipeline. `mem` is one record of all that a worker
knows about its pair: state machine, cooldown, confirmation and BUY-candle counters, position,
ledger; `db` is the same as persisted. `TickStop`, `TickHold`, `TickSell`, `TickOpen`, `TickScaleIn`
are the ticks; `Persist`, `Restart`, `NewDay` the rest. Money is counted in 1/`Unit` of a notional
so that fees are exact; the rounding of the average entry price to eight decimals and of sizes to
1e-8 is abstracted. `rest` and `streak` are history. Faults: `crash`; `persist` breaks
`MoneyConserved` (the emergency cleanup removes a position's row without its proceeds) and
`CooldownServed` (it leaves the row the cooldown it had, so a restart may enter at once); `funds`
breaks `KeepsLifecycle` (with an entry of 75 % after a loss of a third, `open_position` raises,
and the exception skips the rollback of the strategy).

`Lifecycle` is what a pair promises (checked and proved, section 5): strategy and portfolio in one phase, moving along the
transitions `strategy_smart_hodler.md` and its siblings draw. The refinement mapping is
`worker <- Phase(mem)`, `row <- Phase(db)`, where `Phase` is "TORN" when strategy and portfolio part.

### RiskStops
`side, entry, size, scaled, hard, trailing, extreme` are the fields of `Position`, `exch` is the
level of its stop order on the exchange. A tick either breaches (`TickExit`), survives (`TickHold`:
ratchet, trailing, update, exchange stop in the code's order) or fails to exit (`OrderFails`);
entries are `Open` and `ScaleIn`; `Restart` keeps what a row keeps of a position. An ATR may be missing (`NoAtr`) on any candle on which the code
can meet it.

### KillSwitch
`mem` is the switch in the worker, `row` the copy in `StrategyStateRecord`. The tick is
`TickStart` (eviction on a mode change, recovery), `Sync` (lines 311-347), `Run` and `Check`, or instead of
both `StopFilled` (the tick that books a filled exchange stop takes its snapshot and returns),
`Persist`. `checked` is history: whether the last snapshot was followed by the check. `AccountTrigger`, `OperatorReset`, `SwitchMode`, `NewDay` and `Crash` happen outside.
Named faults: `crash`; `recover` (rows unreadable at recovery: the code starts fresh); `sync`
(row unreadable: the code goes on); `persist`; `abort` (an exception ends the tick);
`midReset` (an operator resets in the middle of a tick, and the tick writes over it).

### LivePosition
The exchange side is the asset held, free and locked, and the stop orders with their true
state; the book is position, stop id and strategy state; each exchange call of `_actions.py` is
an action, so that a stop can fill between any two (fault `race`). Faults: `place`, `cancel`,
`status`, `balance`, `reject`, `trigger`, `race`, `persist`, `cleanup`, `crash`. A behaviour has a
`profile`: the scale-ins its strategy may do, the faults it may meet, and how many of them.

### OrderRecovery
`rec` are the order records, `held` what they really bought, `mem` and `db` the position and the
strategy's opinion in the worker and in the rows. `Decide` writes the record ahead; `Post...` are
the outcomes of `with_retry` around the POST; `RecordFill`, `Book`, `Persist` the way of a fill;
`Recover` and `ReconcilePair` the reconciliation. Which faults the design withstands is the
result of this module:

| fault | what happens | outcome |
|---|---|---|
| `garbled` | the answer is not JSON; the order may have executed | withstood |
| `unsent` | no connection, retried | withstood |
| `update` | the update of the order record fails after the fill | withstood |
| `crash` | the worker dies anywhere up to the recorded fill | withstood |
| `stale` | the worker survives and keeps its cached components | breaks `Settled`: run `OrderRecoveryStale` |
| `timeout` | the exchange executes an order whose answer times out; sent again under no client order id, or given up as rejected | breaks `Settled` |
| `slow` | a retry falls out of the matching window of 10 s | breaks `Settled` |
| `unlogged` | the write-ahead itself fails; the order is sent all the same | breaks `Settled` |
| `late` | the worker dies between "filled" and the rows | breaks `Settled` |
| `persist` | the transaction at the end of a tick fails, and then the worker is replaced | breaks `Settled` |
| `early` | a tick starts before the recovery has run | breaks `Settled` |
| `new` | the pair has no strategy state row yet | breaks `Settled` |

The run `OrderRecovery` allows the first four together; each of the others was added to
them alone to obtain the table. `early` is what beat's schedule makes rare, not impossible.

### StopLedger
`order` is the exchange's truth about the stop orders, `record` the `OrderRecord`s with intent
`stop_loss` and those of orphans, `book` whether each strategy holds and which stop id it has. A
tick opens, protects, moves, replaces, cancels or notices a stop; a placement may be refused,
unheard, garbled, unlogged, or be the last thing its worker does. The reconciliation runs through
its phases `byId`, `withoutId`, `sync`, `check`, `sweep`; reads of single orders and of the list of
open orders may fail, and the worker may die between phases. Futures stops (of shorts) are asked
for at spot endpoints by every phase, as the code does.

### Reconcile
`asset`, `net`, `fut`, `order` are the account; `row` and `st` the rows of each strategy of the
symbol; `mem` what the worker caches. A tick is two steps (trade, persist), a run four (pairs,
account, symbol, futures) and its report. The account moves in between: other trades, deposits,
withdrawals, liquidation, open orders. The account, the open orders, the trades or the futures may
not be readable; components may be recovered as fresh ones (`recover`), a transaction and its
cleanup may fail. Fill recovery and the sync of orders, which the run calls first, are
`OrderRecovery` and `StopLedger`. `sights` and `carried` are history: in how many runs in a
row a row was seen as an orphan, and how many earlier sightings its streak still counts because the
runs in between did not clear it (`CarryOver`).

## 3. Runs

| run | question | bounds, and why they are enough |
|---|---|---|
| `RiskStops` | stop levels | five prices around the entry cover below stop, between, break-even and lock-in; ATR 0, 1 or missing |
| `KillSwitch` | latch, limits, resets | three equities: within, daily loss, drawdown; two days; both modes; crashes and aborted ticks |
| `LivePosition` | failures, races, repair of protection | five stop ids, lots of 1, entry 4, tranche 2; three profiles: two scale-ins with refusals and failed transactions (3 faults), none with races (3), all faults together (2: a failure and a failed repair) |
| `OrderRecovery` | recovery of fills; liveness | four orders: entry, scale-in, half, rest; three attempts |
| `Reconcile` | repairs on evidence, and for good | one long strategy, two, or a short; lots of 1, at most 2 held; two sightings; two account moves, or one and a fault; profiles: reads, recoveries and workers fail (all three setups), transactions and their cleanup fail (one strategy) |
| `StopLedger` | records and orders of stops | two strategies, two orders, four records (two may be orphans'), ages 1 and 2 runs, one fault |
| `Dispatch` | data, lock, limits | two pairs of which one may hold; four slots per candle, a lock of two; lookback of ten candles in chunks of four, fetches of two; three candle closes; profiles: quiet, fetches and loads failing (3), crashes without Redis or rows (2), lag with stream and settings (2); one symbol may be listed in the middle of the window |
| `PaperTrading` | decisions, counters, ledger, refinement | readings on both sides of every threshold, or missing; two prices (a profit and a loss), three entries, two per day, cooldown of two candles; restarts at any time |
| `KillSwitchLatch`, `OrderRecoveryStale`, `ReconcileShort`, `FeedFrozen` | four statements of the repository the code does not keep | violated, see section 6 |

Bounds are in the guards: `MaxDay`, `MaxOrders`, `MaxEntries`, `MaxFaults`, `Ids`, `MaxHeld`,
`Last`, `Backlog`. Prices, quantities and thresholds are chosen so that ratios land on both sides
of every comparison. Deadlock is checked everywhere but in `Dispatch` and `FeedFrozen`, where time
ends at candle `Last`.

Every property of a passing run has a mutant: a definition `X_name` next to `X` is `X` with one
plausible bug, and the property fails when it replaces `X`.

What the properties of the passing runs say, by hazard:
- levels: `ProfitLockedIn`, `ExchangeNotAhead`, `LongStopsNeverFall`, `ShortStopsNeverRise`;
- the switch: `WithinLimits` (of snapshots that are checked, section 6), `LatchedBlocks`, `ResetHonoured`, `TriggerSeen`;
- book and exchange: `NothingUntracked`, `NoOrphanStop`, `ClosedMeansSold`, `StrategyAgrees`, `ProtectionRestored`. Those of `LivePosition` that speak of untracked assets and stops (`Tracked`) leave out failed cancellations and crashes, which break them (section 6); the crash itself is `OrderRecovery` and `StopLedger`;
- recovery: `Settled`, `ActsOnHoldings`, `Resolved`; `OneRecordPerOrder`, `RecordsSettle`, `OrphansCancelled`;
- reconciliation: `HealthyLeftAlone`, `ForceCloseJustified`, `OrphanClosed`, `BookSettles`. the sightings of `ForceCloseJustified` are consecutive but for those in `carried`; without that exception it fails (section 6);
- data and dispatch: `DataComplete`, `PositionLimit` (restarts and evictions break it, by design of the count), `FirstCallerWins` (with one decision more at the next close, section 6), `EveryCandleDecided`;
- decisions: `MoneyConserved`, `DailyLimit`, `KeepsLifecycle`, `CooldownServed`, `ScaleInEarned`.

## 4. Fairness

- `KillSwitch`, `OrderRecovery`, `LivePosition`: beat starts ticks for ever and the worker runs what
  it started, so the steps of a tick are weakly fair. A step that a crash or an abort can disable
  again and again is strongly fair only where the code retries for ever: `Sync` (a tick every
  candle) and `Recover` (a reconciliation every two minutes; the exchange answers now and then).
  In `LivePosition` failures are bounded, so a placement tried on every tick succeeds in the end.
  The worker is replaced after so many tasks (`worker_max_tasks_per_child`), hence weak fairness of
  `WorkerLost`.
- `StopLedger`: weak fairness of the run's phases (beat, every two minutes). Nothing of ticks or orders.
- `Reconcile`: weak fairness of the run's phases and of `Persist`, of the ageing of a position past
  its grace period (time passes), and strong fairness of `Recycle`: between two tasks the process is
  replaced again and again (`worker_max_tasks_per_child=100`). `BookSettles` needs it, because a
  cached component that disagrees with the repaired rows is dropped by nothing else
  (`bugs.md:106`). A pair ticks at most once in `CyclesPerTick` runs: 15 minutes against 2. This
  pacing is what lets the streak, which a tick's persist erases, reach `MinCycles`; `OrphanClosed`
  needs `CyclesPerTick >= MinCycles`, which the defaults satisfy and nothing validates.
- `Dispatch`, `PaperTrading`, `RiskStops`: safety only.

Nothing is assumed of crashes, operators, prices or the account.

## 5. What is proved

| module | theorems | argument |
|---|---|---|
| `RiskStops_proofs` | `TypeCorrect`, `ProfitStaysLockedIn`, `ExchangeStopNotAhead`, `LongStopsMonotone`, `ShortStopsMonotone` | The invariant relates the hard stop to entry, extreme and lock-in trigger; ratchet and trailing only take maxima on a long and minima on a short, so each action preserves it. |
| `KillSwitch_proofs` | `TypeCorrect`, `TradesWithinLimits`, `PersistedLatchBlocks`, `ResetsAreHonoured` | History `latched` follows memory and row: once "row", the row is latched until an operator resets, and `Sync` brings it into memory. `TradesWithinLimits` rests on `Limits`, its property at every point of a tick. `PersistedLatchBlocks` and `ResetsAreHonoured` assume that the row can be read (`"sync" \notin Faults`), the latter also that no reset falls into a tick. |
| `PaperTrading_proofs`, on `Conditions` | `HodlerConsistent`, `ReversionConsistent`, `GuardConsistent`, `NamedDayWindow`, `UnnamedEndTakesTheWeek`, `WeeknightWindow` | An entry contradicts the exits of the same reading, condition by condition; `ReversionConsistent` and `GuardConsistent` need thresholds in an order that the configuration does not validate. Dead zones: (day, minute) pairs are ordered as minutes of the week (`WeekOrder`), and each case of the code is one interval, or a complement. |
| `PaperTrading_proofs`, on `PaperTrading` | `TypeCorrect`, `LedgerConserved`, `LimitHolds`, `CooldownIsServed`, `ScaleInIsEarned`, `EntryStands`, `BlindNeverTrades`, `PairKeepsLifecycle` | The invariant holds of the books in memory and in the rows separately, so that failed persists and restarts keep it: money is balanced; candles still to wait are covered by the strategy's cooldown (`Served`); while a position is open the count of BUY candles is covered by consecutive signals (`Earned`); entries executed never exceed entries counted. A sale balances whatever part of the cost the rounded division takes, because the same part leaves the basis. `LedgerConserved` and `CooldownIsServed` assume `Lossless`. `EntryStands` lifts the consistency of a verdict to the second decision on the entry's candle; `BlindNeverTrades` follows from `NoVerdict`. `PairKeepsLifecycle` is the refinement of `Lifecycle`: with `Fit` (strategy and portfolio are in one phase, and a POSITION has more than one unit) every step of the pipeline is a step of `Lifecycle` or a stutter, refused, rolled back, restarted and failed ones included. |
| `LivePosition_proofs` | `TypeCorrect`, `StrategyKnowsTheBook`, `NoStopForgotten`, `NothingLeftOut`, `ClosedIsSold` | Five parts, each inductive with the ones before it. `Shape`: where the tick is tells what the book looks like. `Opinion`: strategy and book part only while an order decides between them, and the state to roll back to fits the book as it is. `Stops`: at most one stop lives, the one of the book. `Amounts`: the account holds no more than the book, a live stop locks all of it, and a filled stop leaves nothing (sums over the live orders collapse to at most one term). Hypotheses: see below the table. |
| `Reconcile_proofs` | `TypeCorrect`, `ForceCloseOnEvidence`, `HealthyIsLeftAlone` | `Evidence`: a streak is never larger than the orphan sightings in a row and those carried over, and state is tied to row and components to position, through ticks that erase the streak, adoption, resizing and failed transactions. `TypeCorrect` and `ForceCloseOnEvidence` hold under every fault. `HealthyIsLeftAlone`: while nobody disturbs, the balance is the sum of the rows, but for the tick that has traded and not persisted yet, and row, state and components of each pair agree (`Agreed`). The sum is a fold over a set of strategies; that changing one row changes it by the difference (`RowChange`) is proved by induction on finite sets. |
| `OrderRecovery_proofs` | `TypeCorrect`, `RowsAreTheTruth`, `DecidesOnTheTruth` | At most the last order is pending, and the rows with what the recovery will make of it are what is held (`Sound`); while a tick runs, the worker's components mirror the rows until the fill is booked. The last two assume `Faults \subseteq Withstood`, the first four rows of the table above; each of the others is known to break them. |
| `StopLedger_proofs` | `TypeCorrect`, `OrdersCountOnce` | `Honest`: the id of a record is the order it was sent for, which exists, and no two placements sent the same; so a placement's order is new to the ledger, the sync takes only what no record names, and the match of a record without an id only what the sync has not taken. |
| `Dispatch_proofs` | `TypeCorrect`, `DataSuffices`, `NoneSkipped`, `FirstCallerDecides`, `PositionsLimited` | `DataSuffices`: the loop of chunks, followed request by request, covers the window or reports its gap, because the first chunk finds a candle. `NoneSkipped`: slot by slot, the beat's fetch stores a candle before the beat's dispatch, the queue then holds a task of every pair, and no lock held at that time stands for an older candle. `FirstCallerDecides`: the beat's tick is the only one while its candle is the current one; after that, one tick at the next boundary, whose lock the others find. `PositionsLimited`: a pair that holds has components (`mem`), and a tick that opens has counted all open ones; the property itself leaves out restarts and changes of settings. |

All of them hold for every value of the constants that satisfies the modules' `ASSUME`s and the
hypotheses the theorem states. Those that the code or its default settings justify are definitions
of the modelled module, and its MC module states them (`TheoremsApply`), so that TLC confirms that
the checked instance has them:
- `LivePosition`: `NoDust` (sizes are whole lots: a close clamped to less than a lot closes the position in the book only, section 6); `Cooldown` (`cooldown_candles` is not 0: a stop would leave the strategy in POSITION); `ScaleInsForeseen` (a profile with scale-ins meets neither `race` nor `status`: a stop that fills under a scale-in loses the tranche, section 6);
- `Dispatch`: `Timetable` and `Apart` (fetch a minute past the boundary, tick two minutes past it, lock of 120 s); `AllTraded` (every pair is in the registry, and its symbol listed when the window begins unless the profile has faults); `ListedInReach` (the first chunk of a load, 1000 candles, spans the lookback of 672, or the symbol was listed before the chunk ends);
- `PaperTrading`, for money and cooldowns: `Lossless` (no persist fails). For the refinement only: `StopsCool` (cooldowns are not 0); `Halvable` (an entry is not a single unit of 1e-8: a SELL_HALF would close it and leave the strategy REDUCED; the exchange's smallest notional excludes it); `Funded` (`open_position` does not raise, the fault `funds` of section 2).

`Reconcile` assumes that the strategies of a symbol are finitely many. Induction over numbers and
sets is done with the library's theorems on well-founded relations and finite sets, over the set of
the values shown so far; the folds and recursive functions of the modules (`Chunks`, `Listing`, `Total`)
are reasoned about through their defining equations.

Every invariant, action property and refinement of the passing runs is proved. Out of the prover's
reach and only model-checked is liveness: `ProtectionRestored`, `Resolved`, `TriggerSeen`,
`RecordsSettle`, `OrphansCancelled`, `OrphanClosed`, `BookSettles`.

## 6. Findings

1. **A trigger taken for a reset** (`KillSwitchLatch`, `_tick.py:326`): a failed transaction un-latches the switch.
2. **A recovered position erased** (`OrderRecoveryStale`, `_persistence.py:136`): the worker's cached portfolio wins over the repaired rows.
3. **A healthy short force-closed** (`ReconcileShort`, `_reconciliation.py:469`): shorts are counted against the spot balance, which is zero.
4. **Candles frozen while they form** (`FeedFrozen`, `loader.py:264`): the fetch a minute past the boundary stores the new candle with the values of its first minute, and `ON CONFLICT DO NOTHING` keeps them.

Four more are named exceptions. Each of these properties says what the repository promises but for
the exception (of the last one: the fault `persist`, which its run leaves out and its theorem assumes
away); without it TLC finds the property violated:

5. **A snapshot without its check** (`WithinLimits`, `_tick.py:419-445`): the tick that books a filled exchange stop takes its snapshot, persists and returns before `kill_switch.check` (`:689`), which is to be called "after every portfolio snapshot" (`kill_switch.py:92`). The loss may have put the pair beyond a limit, and it is not latched before a later tick's check.
6. **Cycles that are not consecutive** (`ForceCloseJustified`, `_reconciliation.py:296`): "consecutive" cycles are promised at `_reconciliation.py:465, 500`, `config.py:82`, `bugs.md:434`. The streak is cleared when the sizes agree, by an open order and by a tick's persist, not by runs that resize or adopt the row, find a balance nobody booked or cannot read the account, nor with a row that is deleted: sighting, account error, sighting closes.
7. **A second caller wins** (`FirstCallerWins`, `_tick.py:51-55`): "only the first caller wins". The close of the next candle announced by the stream finds the lock expired and the old candle still the newest stored, and decides on it a second time.
8. **A cooldown forgotten** (`CooldownServed`, `_persistence.py:233`): the emergency cleanup after a failed transaction marks the row as cooling down and leaves the number of candles it had; a worker restarted from it may enter too early.

Other disagreements met while reading, not stated as runs:

Live execution
- a close clamped to the free remainder under one lot, while a stop locks the rest, closes the whole position in the book (`_actions.py:244`; "true dust only", `:347`);
- a scale-in whose old stop has just filled, or filled without its status being readable, cannot place the new stop (it exceeds the balance) and keeps the id of the filled one (`_actions.py:208-218`); the next tick takes that fill for the whole position (`:35`) and the tranche just bought is in no book. `NothingUntracked` fails when a profile with scale-ins may meet `race` or `status`: the run gives such faults to the profile without scale-ins;
- the stop is cancelled before the sell (`_actions.py:251` against `:312` and BUG-010), so a failed sell leaves no protection until the next tick;
- `TRIGGER_NOW` is stored as a stop order id (`_actions.py:161, 217, 454`) though `phase_3.md:196` allows an id or None;
- -2011 on a cancellation counts as cancelled (`_orders.py:845`), `phase_3.md:297` says filled; the record of a filled stop is then marked cancelled;
- a failed transaction after an exchange-stop fill has no cleanup (`_tick.py:429`, compare 710);
- a limit order that fills while its polling times out is reported CANCELLED (`_orders.py:558`);
- the size gate of `execute()` (`binance.py:272`) rejects a CLOSE, too; HTTP 429 is recorded as a rejection;
- futures stops carry no reduceOnly.

Reconciliation
- fill matching uses 10 s (`_reconciliation.py:1690`), `phase_6.md` and the docstring 30 s;
- a filled stop whose record says "new" is not recovered: the recovery asks for "pending" records ("fill recovery in 6.5 will pick it up", about line 1519);
- `_cancel_stale_stop_records` supersedes "new" records of all strategies of the symbol, its docstring says pending or rejected;
- a stop whose answer was garbled gets an orphan's record by the sync before its own is matched: its own ends "lost" and its fill closes no position;
- futures stop records are settled at the spot endpoint, as cancelled while they live, and futures orphans are never cancelled;
- with more than one state record an untracked balance raises: `_OR` is used before its local import (lines 772 and 788);
- an adopted position without a state record is deleted by the next run's check of the pairs; a row resized to 0 is never an orphan, and closing it sells the whole balance;
- a run whose exchange part failed is published as `RECONCILIATION_OK` when no pair mismatched;
- repairs that are strings make the journal fail (`_reconciliation.py:2643`): no `ReconciliationRunRecord` is written (`:2631`, `phase_6.md:163`).

Strategies and gates
- `mean_reversion` never decides under the default configuration: it reads `ema_50` of the hourly data (`mean_reversion.py:90`) and `ema_hourly` is 21 (theorem `BlindNeverTrades`; `roadmap/phase_9.md:4, 167` looks for the cause elsewhere). Likewise any averages but 50, 200 and 21 silence `smart_hodler` and `bear_guard`, exits included;
- `mean_reversion.py:132` reads `hourly_rsi_threshold`, the configuration has `rsi_hourly_floor` (`config.py:196`); `adx_regime_shift` is not configurable, `adx_threshold` is, up to 100, so an entry's candle may be an exit's;
- a dead zone without an end day blocks the whole week but the gap, the docstring (`session_filter.py:116`) says same or next day (theorem `UnnamedEndTakesTheWeek`); an unknown day name makes it a weeknight window;
- the seeded `strategy_regime_map` (migration `a2b3c4d5e678`, line 110) lacks `bear_guard`, which is then not gated, unlike in `config.py:523`;
- an error of the macro filter is cached for the candle and opens the gate for all pairs;
- `smart_hodler` gives no BUY in POSITION, so a scale-in needs its BUY candles while REDUCED (`strategy_smart_hodler.md:74`);
- a cooldown that ends on a candle without an executed decision is written back as COOLDOWN, and ends again on the next; with `cooldown_candles` = 0 a stop leaves the strategy in POSITION without a position;
- a candle is decided twice (7), so what counts candles (cooldown, confirmation, BUY candles) counts decisions, and one candle can satisfy two confirmations.

Dispatch, switch and state
- a latched switch ends the tick before the stops are looked at (`_tick.py:350` against `kill_switch.py:17`): an open position keeps only the stop order it has on the exchange;
- no stored candle, or no Redis, means no lock; a task redelivered within 120 s is skipped by the lock of the dead one;
- a symbol listed recently is loaded again on every tick; an empty chunk ends a load; nothing checks how old the newest candle is;
- `max_concurrent_positions` is exceeded after a restart or an eviction; `max_trades_per_day` counts in memory and starts over;
- a recovery that raises is logged, and the next persist deletes the position's row (`_state.py`);
- a missing ATR drops a short's trailing level to 0 (`_stops.py:336, 416`) until the next candle recomputes it;
- `lowest_close` of a short is neither written to its row nor read back (`db/utils.py:146, 172`): after a restart it starts over at the next close, and only the stored level keeps the trailing stop where it was;
- in live mode a restart drops the peak equity (BUG-014);
- several workers would each have their own cache of components (the dispatcher's docstring at `_tick.py:788` expects several).

## 7. How to run

`tlc -config <run>.cfg <module>` for each run of `PROJECT.json` (two workers: seconds, except
`PaperTrading`, `StopLedger` and `Reconcile`, two to three minutes each); `tlapm <module>_proofs.tla` for the proofs.

## 8. What is not modelled, and the plan

Not modelled: the numerics of the indicators (their values are read), backtests (offline and
deterministic), alerting, events and WebSocket push (nothing reads them back), migrations,
frontend, stop proximity (read-only). Of components modelled in part: margin shorts as exchange
calls, limit orders with polling, the balance top-up, the startup reconciliation, corrections of
balances and exit prices by the reconciliation, partial fills of stops, caps on trade size and
symbol exposure (they shrink or refuse an entry, and a refused entry is there).

Plan, in order:
1. Proofs: which steps the liveness properties rest on, as far as they are safety (that a repair makes progress).
2. Margin shorts, call by call, next to `LivePosition`.
3. Limit orders with polling and time-outs, and the startup reconciliation, in `OrderRecovery`.
