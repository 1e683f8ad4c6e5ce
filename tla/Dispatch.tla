------------------------------ MODULE Dispatch ------------------------------
(***************************************************************************)
(* From the candle to the decision: the market data stream                 *)
(* (core/data/stream_runner.py), the beat's schedule and the broker's      *)
(* queue (core/celery_app.py), the fetch of the candles (core/tasks), and  *)
(* the dispatch of the pairs' ticks with their Redis lock                  *)
(* (core/tasks/_tick.py), over the cache of Candles.                       *)
(*                                                                         *)
(* A tick's decision is abstracted to whether its pair holds a position.   *)
(* One worker process serves the queue, as in production.                  *)
(***************************************************************************)
EXTENDS Candles, Sequences

CONSTANTS
    Strategies,    \* strategies of the registry
    Registry,      \* sequence of the pairs, in the registry's order
    MaxPositions,  \* max_concurrent_positions
    TTL,           \* _TICK_LOCK_TTL, in slots
    FetchAt,       \* slot of a period the beat fetches the candles at
    TickAt,        \* slot of a period the beat dispatches the ticks at
    Profiles,      \* [listed, faults, max] considered: first candles, what may go wrong, how often
    Backlog,       \* bound on the tasks waiting when time moves on
    NoCandle       \* no candle at all

FaultKinds == {"fetch", "load", "redis", "persist", "crash", "lag", "stream", "config"}

ASSUME PairAssumption == IsFiniteSet(Strategies) /\ IsFiniteSet(Symbols)
ASSUME DispatchAssumption ==
    /\ MaxPositions \in Nat \ {0} /\ TTL \in Nat /\ Backlog \in Nat
    /\ FetchAt \in 0..(Period - 1) /\ TickAt \in 0..(Period - 1)
    /\ NoCandle \notin Candle
    /\ Registry \in Seq(Strategies \X Symbols)
ASSUME ProfileAssumption ==
    \A f \in Profiles : f.listed \in [Symbols -> Candle] /\ f.faults \subseteq FaultKinds /\ f.max \in Nat

Pairs == Strategies \X Symbols
SymbolOf(p) == p[2]

VARIABLES
    faults,   \* what may go wrong
    left,     \* how often it still may
    queue,    \* the broker's queue
    lock,     \* [Pairs -> the pair's last lock key and its expiry]
    mem,      \* [Pairs -> components of the worker: "none", "flat" or "open"]
    book,     \* pairs with a position row
    enabled,  \* pairs enabled in the settings
    connected,  \* whether the stream runner is connected to the exchange
    heard,    \* closes the stream runner has acted upon
    decided   \* history: [Pairs -> last candle decided upon, how often, and gaps in its data]

vars == <<clock, listed, cache, faults, left, queue, lock, mem, book, enabled, connected, heard, decided>>

Fetch == [kind |-> "fetch"]
Dispatcher == [kind |-> "dispatch"]
Ticks(p) == [kind |-> "tick", pair |-> p]

Init ==
    /\ clock = Lookback * Period + FetchAt
    /\ \E f \in Profiles : listed = f.listed /\ faults = f.faults /\ left = f.max
    /\ cache = [s \in Symbols |-> [c \in Candle |-> "none"]]
    /\ queue = <<Fetch>>
    /\ lock = [p \in Pairs |-> [key |-> NoCandle, until |-> 0]]
    /\ mem = [p \in Pairs |-> "none"] /\ book = {} /\ enabled = Pairs
    /\ connected = TRUE /\ heard = {}
    /\ decided = [p \in Pairs |-> [candle |-> NoCandle, times |-> 0, gaps |-> 0, clean |-> TRUE]]

\* One more fault of a kind that may happen
Fault(kind) == kind \in faults /\ left > 0 /\ left' = left - 1
NoFault == left' = left

-----------------------------------------------------------------------------
(*************************** schedule and stream ***************************)

\* The beat's tasks of a slot
Due(slot) ==
    (IF slot % Period = FetchAt THEN <<Fetch>> ELSE <<>>)
        \o (IF slot % Period = TickAt THEN <<Dispatcher>> ELSE <<>>)

\* A worker that keeps up has emptied the queue before the next slot.
Advance ==
    /\ clock + 1 \in Slots
    /\ \/ queue = <<>> /\ NoFault
       \/ queue # <<>> /\ Len(queue) <= Backlog /\ Fault("lag")
    /\ clock' = clock + 1
    /\ queue' = queue \o Due(clock + 1)
    /\ UNCHANGED <<listed, cache, faults, lock, mem, book, enabled, connected, heard, decided>>

\* on_close: the closes of the boundary; one acted upon before is dropped.
StreamClose(s) ==
    /\ connected /\ clock % Period = 0 /\ Current > listed[s] /\ <<s, Current - 1>> \notin heard
    /\ heard' = heard \cup {<<s, Current - 1>>} /\ queue' = Append(queue, Dispatcher)
    /\ UNCHANGED <<clock, listed, cache, faults, left, lock, mem, book, enabled, connected, decided>>

\* The connection drops; closes sent until the next one are lost.
Disconnect ==
    /\ connected /\ Fault("stream") /\ connected' = FALSE
    /\ UNCHANGED <<clock, listed, cache, faults, queue, lock, mem, book, enabled, heard, decided>>

\* run: it reconnects after a back-off.
Reconnect ==
    /\ ~connected /\ connected' = TRUE
    /\ UNCHANGED <<clock, listed, cache, faults, left, queue, lock, mem, book, enabled, heard, decided>>

\* The stream runner is restarted: what it has heard is gone.
StreamRestart ==
    /\ Fault("stream") /\ connected' = TRUE /\ heard' = {}
    /\ UNCHANGED <<clock, listed, cache, faults, queue, lock, mem, book, enabled, decided>>

-----------------------------------------------------------------------------
(********************************* tasks ***********************************)

IsNext(kind) == queue # <<>> /\ Head(queue).kind = kind

\* fetch_candles: errors are isolated per symbol.
FetchCandles ==
    /\ IsNext("fetch") /\ queue' = Tail(queue)
    /\ \/ NoFault /\ cache' = [s \in Symbols |-> Cached(s, Trailing(s))]
       \/ Fault("fetch") /\ \E fetched \in SUBSET Symbols :
              cache' = [s \in Symbols |-> IF s \in fetched THEN Cached(s, Trailing(s)) ELSE cache[s]]
    /\ UNCHANGED <<clock, listed, faults, lock, mem, book, enabled, connected, heard, decided>>

\* _get_enabled_strategy_pairs: the enabled ones of the registry, in its order
Listing ==
    LET upTo[n \in 0..Len(Registry)] ==
            IF n = 0 THEN <<>>
            ELSE IF Registry[n] \in enabled THEN Append(upTo[n - 1], Registry[n]) ELSE upTo[n - 1]
    IN  upTo[Len(Registry)]

\* run_strategy_tick fans out over the enabled pairs, in the registry's order,
\* and evicts the components of pairs no longer enabled; with none enabled it
\* returns before that.
FanOut ==
    /\ IsNext("dispatch")
    /\ queue' = Tail(queue) \o [i \in DOMAIN Listing |-> Ticks(Listing[i])]
    /\ mem' = [p \in Pairs |-> IF p \in enabled \/ Listing = <<>> THEN mem[p] ELSE "none"]
    /\ UNCHANGED <<clock, listed, cache, faults, left, lock, book, enabled, connected, heard, decided>>

\* _peek_latest_candle_time: the newest stored candle of any symbol
Key == LET all == UNION {Stored(s) : s \in Symbols} IN IF all = {} THEN NoCandle ELSE Latest(all)

\* Mutant: the lock of a candle is shared by all pairs.
Held_anyPair(p) == Key # NoCandle /\ \E q \in Pairs : lock[q].key = Key /\ clock < lock[q].until

\* Mutant: the lock is not asked for.
Held_never(p) == FALSE

\* SET NX fails: some tick of the pair took the lock for this candle.
Held(p) == Key # NoCandle /\ lock[p].key = Key /\ clock < lock[p].until

\* _acquire_tick_lock
Acquire(p) ==
    /\ ~Held(p)
    /\ lock' = IF Key = NoCandle THEN lock ELSE [lock EXCEPT ![p] = [key |-> Key, until |-> clock + TTL]]

TickSkipped ==
    /\ IsNext("tick") /\ Held(Head(queue).pair) /\ queue' = Tail(queue)
    /\ UNCHANGED <<clock, listed, cache, faults, left, lock, mem, book, enabled, connected, heard, decided>>

\* components of p, recovered from the rows when the process has none
Component(p) == IF mem[p] = "none" THEN IF p \in book THEN "open" ELSE "flat" ELSE mem[p]

\* Mutant: only the positions of the same symbol count.
OpenPositions_ownSymbol(p) == Cardinality({q \in Pairs : mem[q] = "open" /\ SymbolOf(q) = SymbolOf(p)})

\* _count_global_open_positions: the cached components of this process
OpenPositions(p) == Cardinality({q \in Pairs \ {p} : mem[q] = "open"} \cup {q \in {p} : Component(q) = "open"})

\* What the decision leaves the pair with; a flat pair may enter below the limit.
Outcomes(p) == IF Component(p) = "open" \/ OpenPositions(p) < MaxPositions THEN {"flat", "open"} ELSE {"flat"}

\* (history) decisions on c in a row, counted up to 3
Count(p, c) == IF decided[p].candle = c /\ decided[p].times < 3 THEN decided[p].times + 1
               ELSE IF decided[p].candle = c THEN 3 ELSE 1

\* run_single_strategy_tick, once it has passed the lock: components, data (chunks
\* of the load may fail), decision, rows (the transaction may fail).
Work(p, failing, persists) ==
    LET s == SymbolOf(p)
        rows == Loaded(s, failing)
        have == {c \in Window : rows[c] # "none"}
    IN  /\ IsNext("tick") /\ Head(queue).pair = p /\ queue' = Tail(queue)
        /\ cache' = [cache EXCEPT ![s] = rows]
        /\ \/ \* "no_candles"
              /\ have = {} /\ mem' = [mem EXCEPT ![p] = Component(p)] /\ UNCHANGED <<book, decided>>
           \/ /\ have # {}
              /\ decided' = [decided EXCEPT ![p] =
                     [candle |-> Latest(have), times |-> Count(p, Latest(have)),
                      gaps |-> Cardinality(Missing(rows, s)), clean |-> failing = {}]]
              /\ \E now \in Outcomes(p) :
                    /\ mem' = [mem EXCEPT ![p] = now]
                    /\ book' = IF ~persists THEN book ELSE IF now = "open" THEN book \cup {p} ELSE book \ {p}
        /\ UNCHANGED <<clock, listed, faults, enabled, connected, heard>>

Tick(p) == Acquire(p) /\ Work(p, {}, TRUE) /\ NoFault

\* The first chunk fails, or all of them.
TickLoadFails(p) ==
    /\ Fault("load") /\ Incomplete(SymbolOf(p)) /\ Acquire(p)
    /\ \E failing \in {{WindowStart}, Slots} : Work(p, failing, TRUE)

TickPersistFails(p) == Fault("persist") /\ Acquire(p) /\ Work(p, {}, FALSE)

\* Without Redis the tick goes on without a lock.
TickUnlocked(p) == Fault("redis") /\ UNCHANGED lock /\ Work(p, {}, TRUE)

\* The worker dies during the tick, which the broker delivers again.
TickCrash(p) ==
    /\ Fault("crash") /\ IsNext("tick") /\ Head(queue).pair = p
    /\ Acquire(p)
    /\ mem' = [q \in Pairs |-> "none"]
    /\ UNCHANGED <<clock, listed, cache, faults, queue, book, enabled, connected, heard, decided>>

\* The worker process is replaced between two tasks.
Recycle ==
    /\ Fault("crash") /\ \E p \in Pairs : mem[p] # "none"
    /\ mem' = [p \in Pairs |-> "none"]
    /\ UNCHANGED <<clock, listed, cache, faults, queue, lock, book, enabled, connected, heard, decided>>

\* An operator enables or disables a strategy on a symbol.
Configure(p) ==
    /\ Fault("config")
    /\ enabled' = IF p \in enabled THEN enabled \ {p} ELSE enabled \cup {p}
    /\ UNCHANGED <<clock, listed, cache, faults, queue, lock, mem, book, connected, heard, decided>>

\* load_all_symbols, by the operators' script: the whole history, gaps included
PullHistory ==
    /\ Fault("config") /\ cache' = [s \in Symbols |-> Historical(s, {})]
    /\ UNCHANGED <<clock, listed, faults, queue, lock, mem, book, enabled, connected, heard, decided>>

Next ==
    \/ Advance \/ Disconnect \/ Reconnect \/ StreamRestart \/ PullHistory \/ FetchCandles \/ FanOut \/ TickSkipped \/ Recycle
    \/ \E s \in Symbols : StreamClose(s)
    \/ \E p \in Pairs : \/ Tick(p) \/ TickLoadFails(p) \/ TickPersistFails(p) \/ TickUnlocked(p)
                       \/ TickCrash(p) \/ Configure(p)

Spec == Init /\ [][Next]_vars

-----------------------------------------------------------------------------
(******************* what the theorems assume of constants *****************)

\* Fetch, then ticks, and a lock that the tick at the boundary leaves is gone by
\* the time of the beat's (a minute, two minutes and 120 s past the boundary).
Timetable == FetchAt < TickAt /\ TTL <= TickAt

\* The beat's fetch is later than the boundary, and locks last at all.
Apart == FetchAt > 0 /\ TTL > 0

\* Every pair is in the registry, and the exchange lists what is traded.
AllTraded ==
    /\ \A p \in Pairs : \E j \in DOMAIN Registry : Registry[j] = p
    /\ \A f \in Profiles : f.faults = {} => \A s \in Symbols : f.listed[s] <= Lookback

\* The first chunk of a load finds a candle (1000 per request; the lookback is
\* 672 candles): one that finds none would end it.
ListedInReach == \A f \in Profiles : \A s \in Symbols : f.listed[s] <= Chunk \/ Lookback <= Chunk

-----------------------------------------------------------------------------
(******************************* properties ********************************)

TypeOK ==
    /\ clock \in Slots /\ listed \in [Symbols -> Candle] /\ faults \subseteq FaultKinds
    /\ left \in Nat
    /\ cache \in [Symbols -> [Candle -> {"none", "open", "final"}]]
    /\ queue \in Seq({Fetch, Dispatcher} \cup {Ticks(p) : p \in Pairs})
    /\ lock \in [Pairs -> [key : Candle \cup {NoCandle}, until : Nat]]
    /\ mem \in [Pairs -> {"none", "flat", "open"}]
    /\ book \subseteq Pairs /\ enabled \subseteq Pairs /\ connected \in BOOLEAN /\ heard \subseteq Symbols \X Candle
    /\ decided \in [Pairs -> [candle : Candle \cup {NoCandle}, times : 0..3, gaps : 0..(Lookback + 1),
                              clean : BOOLEAN]]

\* A pair whose load did not fail never decides on a window that lacks more than
\* a tenth of the candles the exchange has, after fetches that failed for longer
\* than their five candles reach back, for symbols listed recently, and however
\* the lookback is cut into chunks.  (The window may hold one candle more than
\* expected, at its two ends.)
DataComplete ==
    \A p \in Pairs : decided[p].clean => 10 * (decided[p].gaps - 1) <= Lookback

\* The pairs of one process never hold more than max_concurrent_positions, in
\* whichever order and however often their ticks run, components that are created
\* late and rows that fail to persist included; a replaced process or a disabled
\* pair are what the count does not see.
PositionLimit ==
    faults \cap {"crash", "config"} = {} =>
        Cardinality({p \in Pairs : Component(p) = "open"}) <= MaxPositions

\* "When both Celery Beat and the WebSocket stream trigger run_strategy_tick for
\* the same candle, only the first caller wins" (_acquire_tick_lock): without
\* faults a pair decides once on a candle while it is the current one.  The
\* exception, and the lock does not keep its promise there: at the boundary that
\* closes the candle it is still the newest stored and its lock has expired, so
\* that the first of the closes announced decides on it a second time.  The others
\* find the lock of that one.
FirstCallerWins ==
    faults = {} /\ (\A s \in Symbols : listed[s] = 0) =>
        \A p \in Pairs : decided[p].times <= IF decided[p].candle = Current THEN 1 ELSE 2

\* Without faults every enabled pair has decided on the current candle when the
\* beat's ticks are through: the lock of another pair, of the close's tick or of
\* an older candle never swallows one, and the fetch came first.
EveryCandleDecided ==
    faults = {} /\ clock % Period > TickAt => \A p \in enabled : decided[p].candle = Current

\* The beat fetches a minute past the boundary because "Binance needs a moment to
\* finalise the candle": what a pair decides upon are the final values of every
\* candle that has closed.
FinalData ==
    [][\A p \in Pairs : decided'[p] # decided[p] =>
          \A c \in Window : Closed(c) => cache'[SymbolOf(p)][c] # "open"]_vars
=============================================================================
