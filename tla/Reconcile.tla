----------------------------- MODULE Reconcile -----------------------------
(***************************************************************************)
(* run_reconciliation of core/tasks/_reconciliation.py against the ticks   *)
(* it repairs after: the rows of the strategies of one symbol, what the    *)
(* worker has cached of them, and what the exchange account really holds.  *)
(*                                                                         *)
(* A tick is two steps (trade, persist), a reconciliation four (the pairs, *)
(* the account, the symbol, the futures); the account moves in between.    *)
(* Fill recovery and the open-order sync, which run_reconciliation calls   *)
(* before it reads the account, are modules OrderRecovery and StopLedger.  *)
(***************************************************************************)
EXTENDS Integers, FiniteSets, FiniteSetsExt

CONSTANTS
    Strategies,     \* strategies that may trade the symbol
    Profiles,       \* [enabled, faults]: the pairs considered, and what may go wrong
    Shorts,         \* those that trade futures, on the short side
    Default,        \* "smart_hodler", the owner of an asset nobody recorded
    None,           \* no row, no components
    Sizes,          \* quantities of an entry
    MinCycles,      \* force_close_min_cycles
    CyclesPerTick,  \* reconciliations between two ticks of a pair
    Budgets,        \* bounds: how many <<moves, faults>> go together
    MaxHeld         \* bound on a holding

FaultKinds == {"recover", "persist", "cleanup", "crash", "account",
               "orders", "trades", "futures"}

Amounts == (-2 * MaxHeld)..(2 * MaxHeld)   \* sizes a repair may write (bound)
Positions == [size : Int, old : BOOLEAN]
States == [in : BOOLEAN, streak : 0..MinCycles, latched : BOOLEAN]
Caches == [pos : Positions \cup {None}, in : BOOLEAN]
Journals == [exchange : {"none", "ok", "mismatch", "error"}, mismatch : BOOLEAN, repaired : BOOLEAN,
             said : {"nothing", "ok", "mismatch"}]

ASSUME NoneAssumption == None \notin Positions /\ None \notin States /\ None \notin Caches
ASSUME StrategyAssumption ==
    /\ IsFiniteSet(Strategies) /\ Profiles \subseteq [enabled : (SUBSET Strategies) \ {{}}, faults : SUBSET FaultKinds]
    /\ Shorts \subseteq Strategies /\ Default \in Strategies \ Shorts
    /\ None \notin Strategies
ASSUME NumberAssumption ==
    /\ Sizes \subseteq Nat \ {0} /\ MinCycles \in Nat \ {0} /\ CyclesPerTick \in Nat
    /\ Budgets \subseteq Nat \X Nat /\ Budgets # {} /\ MaxHeld \in Nat

VARIABLES
    enabled,  \* the pairs the configuration runs
    kinds,    \* what may go wrong
    asset,    \* spot balance of the base asset, free and locked
    net,      \* bought minus sold in the account's recent trades
    fut,      \* signed amount of the futures position
    order,    \* the symbol has an open order that buys
    row,      \* PositionRecord of each strategy: [size, old] or None
    st,       \* StrategyStateRecord: [in, streak, latched] or None
    mem,      \* cached components: [pos, in] or None
    since,    \* reconciliations since the pair's last tick
    pc, who,  \* what the worker does, and for which strategy
    seen,     \* the balance the reconciliation read
    sights,   \* history: reconciliations in a row that saw the row as an orphan
    carried,  \* history: earlier sightings that the streak still counts
    journal,  \* what the run reported: [exchange, mismatch, repaired, said]
    moves, faults  \* how many so far

env == <<enabled, kinds, moves>>
held == <<asset, net, fut, order>>
history == <<sights, carried>>
book == <<row, st, history>>
run == <<pc, who, seen, journal>>
vars == <<env, held, book, mem, since, run, faults>>

Within(m, f) == \E b \in Budgets : m <= b[1] /\ f <= b[2]
Fault(f) == f \in kinds /\ Within(moves, faults + 1) /\ faults' = faults + 1
NoFault == UNCHANGED faults

Long(s) == s \notin Shorts
Booked == {s \in Strategies : row[s] # None}
Recorded == {s \in Strategies : st[s] # None}
Total(r, B) == MapThenSumSet(LAMBDA s : r[s].size, B)
Local == Total(row, Booked)
Least(a, b) == IF a <= b THEN a ELSE b
Magnitude(n) == IF n < 0 THEN -n ELSE n

Idle == pc = "idle"
Report == [exchange |-> "none", mismatch |-> FALSE, repaired |-> FALSE,
           said |-> "nothing"]

Init ==
    /\ \E p \in Profiles : enabled = p.enabled /\ kinds = p.faults
    /\ asset = 0 /\ net = 0 /\ fut = 0 /\ order = FALSE
    /\ row = [s \in Strategies |-> None] /\ st = [s \in Strategies |-> None]
    /\ mem = [s \in Strategies |-> None]
    /\ since = [s \in Strategies |-> CyclesPerTick]
    /\ pc = "idle" /\ who = None /\ seen = 0
    /\ sights = [s \in Strategies |-> 0] /\ carried = [s \in Strategies |-> 0] /\ journal = Report
    /\ moves = 0 /\ faults = 0

-----------------------------------------------------------------------------
(******************************** the tick *********************************)

\* The cached components, or what _recover_state restores from the rows.  A
\* recovery that raises is logged and leaves fresh components.
Fresh == [pos |-> None, in |-> FALSE]
Restored(s) == [pos |-> row[s], in |-> st[s] # None /\ st[s].in]
Components(s, m) ==
    IF mem[s] # None THEN m = mem[s] /\ NoFault
    ELSE \/ m = Restored(s) /\ NoFault
         \/ m = Fresh /\ Fault("recover")

Latched(s) == st[s] # None /\ st[s].latched

\* The pair of strategy s starts a tick with components m and leaves it, up to
\* the persist step, with position p.
Ticks(s, m, p) ==
    /\ Idle /\ s \in enabled /\ since[s] >= CyclesPerTick
    /\ Components(s, m)
    /\ mem' = [mem EXCEPT ![s] = p]
    /\ pc' = "persist" /\ who' = s
    /\ since' = [since EXCEPT ![s] = 0]
    /\ UNCHANGED <<env, book, order, seen, journal>>

\* No order is filled: HOLD, a latched kill switch, or a refused order
Hold(s, m) == Ticks(s, m, m) /\ UNCHANGED <<asset, net, fut>>

Open(s, m, q) ==
    /\ ~Latched(s) /\ m.pos = None /\ ~m.in
    /\ Ticks(s, m, [pos |-> [size |-> q, old |-> FALSE], in |-> TRUE])
    /\ IF Long(s)
       THEN asset + q <= MaxHeld /\ asset' = asset + q /\ net' = net + q /\ UNCHANGED fut
       ELSE fut - q >= -MaxHeld /\ fut' = fut - q /\ UNCHANGED <<asset, net>>

Sold_unclamped(size) == size
Sold_whole(size) == asset

\* A spot sale is clamped to the balance; when that is under one lot it takes
\* the whole balance; with no balance the position is closed in the book only.
Sold(size) == IF Least(size, asset) > 0 THEN Least(size, asset) ELSE asset

Close(s, m) ==
    /\ ~Latched(s) /\ m.pos # None
    /\ Ticks(s, m, Fresh)
    /\ IF Long(s)
       THEN /\ asset' = asset - Sold(m.pos.size) /\ net' = net - Sold(m.pos.size)
            /\ UNCHANGED fut
       ELSE /\ m.pos.size > 0 /\ fut + m.pos.size <= MaxHeld
            /\ fut' = fut + m.pos.size /\ UNCHANGED <<asset, net>>

Tick(s) == \E m \in {mem[s], Restored(s), Fresh} \ {None} :
              Hold(s, m) \/ Close(s, m) \/ \E q \in Sizes : Open(s, m, q)

\* (history) The sightings of the rows S are over, yet their streaks stay as they
\* are.  (Counts stop at MinCycles: nothing tells larger ones apart.)
Counted(s) == Least(carried[s] + sights[s], MinCycles)
CarryOver(S) ==
    /\ sights' = [s \in Strategies |-> IF s \in S THEN 0 ELSE sights[s]]
    /\ carried' = [s \in Strategies |-> IF s \in S THEN Counted(s) ELSE carried[s]]

\* The rows become what the worker believes; state_data is built anew, so the
\* streak is gone.  A kill switch found in the row was taken over before.
Persist ==
    LET s == who IN
    /\ pc = "persist" /\ pc' = "idle" /\ who' = None
    /\ row' = [row EXCEPT ![s] = mem[s].pos]
    /\ st' = [st EXCEPT ![s] = [in |-> mem[s].in, streak |-> 0, latched |-> Latched(s)]]
    /\ sights' = [sights EXCEPT ![s] = IF mem[s].pos = None \/ row[s] = None THEN 0 ELSE @]
    /\ carried' = [carried EXCEPT ![s] = 0]
    /\ NoFault /\ UNCHANGED <<env, held, mem, since, seen, journal>>

\* The transaction fails; without a position the emergency cleanup deletes the
\* row and repairs the state, unless it fails too.
PersistFails ==
    LET s == who IN
    /\ pc = "persist" /\ pc' = "idle" /\ who' = None
    /\ \/ /\ mem[s].pos = None /\ Fault("persist")
          /\ row' = [row EXCEPT ![s] = None] /\ CarryOver({s})
          /\ st' = IF st[s] # None /\ st[s].in THEN [st EXCEPT ![s].in = mem[s].in] ELSE st
       \/ Fault(IF mem[s].pos = None THEN "cleanup" ELSE "persist") /\ UNCHANGED book
    /\ UNCHANGED <<env, held, mem, since, seen, journal>>

\* The worker process is recycled between tasks, or dies before it persists.
Forget == mem' = [s \in Strategies |-> None]
Recycle ==
    /\ Idle /\ Forget /\ NoFault
    /\ UNCHANGED <<env, held, book, since, run>>
Crash ==
    /\ pc = "persist" /\ Fault("crash") /\ Forget
    /\ pc' = "idle" /\ who' = None
    /\ UNCHANGED <<env, held, book, since, seen, journal>>

-----------------------------------------------------------------------------
(****************************** the account ********************************)

Untouched == UNCHANGED <<enabled, kinds, book, mem, since, run, faults>>
Move == Within(moves + 1, faults) /\ moves' = moves + 1 /\ Untouched

\* Someone else trades or moves the asset: an exchange stop, the operator.  A
\* deposit or a withdrawal leaves no trade.
Bought == Move /\ asset < MaxHeld /\ asset' = asset + 1 /\ net' = net + 1 /\ UNCHANGED <<fut, order>>
SoldElsewhere == Move /\ asset > 0 /\ asset' = asset - 1 /\ net' = net - 1 /\ UNCHANGED <<fut, order>>
Deposited == Move /\ asset < MaxHeld /\ asset' = asset + 1 /\ UNCHANGED <<net, fut, order>>
Withdrawn == Move /\ asset > 0 /\ asset' = 0 /\ UNCHANGED <<net, fut, order>>
FuturesClosed == Move /\ fut # 0 /\ fut' = 0 /\ UNCHANGED <<asset, net, order>>
OrderPlaced == Move /\ ~order /\ order' = TRUE /\ UNCHANGED <<asset, net, fut>>
OrderEnds ==
    /\ order /\ order' = FALSE /\ UNCHANGED <<moves, fut>> /\ Untouched
    /\ \/ asset < MaxHeld /\ asset' = asset + 1 /\ net' = net + 1
       \/ UNCHANGED <<asset, net>>

AccountMoves == \/ Bought \/ SoldElsewhere \/ Deposited \/ Withdrawn
                \/ FuturesClosed \/ OrderPlaced \/ OrderEnds

\* A position outlives force_close_grace_minutes.
Aged(p) == IF p = None THEN None ELSE [p EXCEPT !.old = TRUE]
Age(s) ==
    /\ \/ row[s] # None /\ ~row[s].old
       \/ mem[s] # None /\ mem[s].pos # None /\ ~mem[s].pos.old
    /\ row' = [row EXCEPT ![s] = Aged(@)]
    /\ mem' = [mem EXCEPT ![s] = IF @ = None THEN None ELSE [@ EXCEPT !.pos = Aged(mem[s].pos)]]
    /\ UNCHANGED <<env, held, st, history, since, run, faults>>

OperatorResets(s) ==
    /\ Idle /\ Latched(s) /\ st' = [st EXCEPT ![s].latched = FALSE]
    /\ UNCHANGED <<env, held, row, history, mem, since, run, faults>>

-----------------------------------------------------------------------------
(**************************** reconciliation *******************************)

Unmoved == UNCHANGED <<env, held>>

\* Check A of every enabled pair: a row without an open state is deleted, an
\* open state without a row is reset.
RowOrphan(s) == row[s] # None /\ ~(st[s] # None /\ st[s].in)
StateOrphan(s) == row[s] = None /\ st[s] # None /\ st[s].in
CheckPairs ==
    LET drop == {s \in enabled : RowOrphan(s)}
        reset == {s \in enabled : StateOrphan(s)}
    IN  /\ Idle /\ pc' = "account"
        /\ row' = [s \in Strategies |-> IF s \in drop THEN None ELSE row[s]]
        /\ st' = [s \in Strategies |-> IF s \in reset THEN [st[s] EXCEPT !.in = FALSE] ELSE st[s]]
        /\ CarryOver(drop)
        /\ journal' = [Report EXCEPT !.mismatch = drop \cup reset # {}]
        /\ UNCHANGED <<mem, since, who, seen>> /\ NoFault /\ Unmoved

\* Checks B and C of a pair, and the USDT total of check D, only warn.
Warned == BOOLEAN

\* Published as RECONCILIATION_OK when nothing was counted as a mismatch.
Finished(j) ==
    /\ \E warned \in Warned :
          journal' = [j EXCEPT !.said = IF j.mismatch \/ warned THEN "mismatch" ELSE "ok"]
    /\ pc' = "report"
    /\ since' = [s \in Strategies |-> Least(since[s] + 1, CyclesPerTick)]

\* An error of the exchange part ends it; what the session did is rolled back.
Errored == Finished([journal EXCEPT !.exchange = "error"])

ReadAccount ==
    /\ pc = "account" /\ pc' = "symbol" /\ seen' = asset
    /\ UNCHANGED <<book, mem, since, who, journal>> /\ NoFault /\ Unmoved
AccountFails ==
    /\ pc = "account" /\ Errored /\ Fault("account")
    /\ CarryOver(Strategies)
    /\ UNCHANGED <<row, st, mem, who, seen>> /\ Unmoved

Checked(mismatch, repaired) ==
    /\ pc' = "futures"
    /\ journal' = [journal EXCEPT !.exchange = IF mismatch THEN "mismatch" ELSE "ok",
                                  !.mismatch = @ \/ mismatch, !.repaired = repaired]
    /\ UNCHANGED <<since, who, seen>> /\ Unmoved

SignOfLife ==
    /\ st' = [s \in Strategies |-> IF st[s] = None THEN None ELSE [st[s] EXCEPT !.streak = 0]]
    /\ sights' = [s \in Strategies |-> 0] /\ carried' = [s \in Strategies |-> 0]

SizesAgree_keepStreak ==
    /\ pc = "symbol" /\ Local = seen
    /\ sights' = [s \in Strategies |-> 0] /\ carried' = [s \in Strategies |-> 0]
    /\ Checked(FALSE, FALSE) /\ UNCHANGED <<row, st, mem>> /\ NoFault

SizesAgree ==
    /\ pc = "symbol" /\ Local = seen
    /\ IF Booked = {} THEN CarryOver(Strategies) /\ UNCHANGED st ELSE SignOfLife
    /\ Checked(FALSE, FALSE) /\ UNCHANGED <<row, mem>> /\ NoFault

\* Positions are booked and the balance is zero.
Orphaned == pc = "symbol" /\ Booked # {} /\ seen = 0 /\ Local # seen
Involved == {s \in Recorded : st[s].in}
Bumped_lost == st
Bumped == [s \in Strategies |-> IF s \in Involved THEN [st[s] EXCEPT !.streak = Least(@ + 1, MinCycles)] ELSE st[s]]
Sighted == [s \in Strategies |-> IF s \in Booked THEN Least(sights[s] + 1, MinCycles) ELSE sights[s]]

\* Guard A: an open order, or a failure to ask, resets the streak.
DeferForOrder ==
    /\ Orphaned /\ IF order THEN NoFault ELSE Fault("orders")
    /\ SignOfLife
    /\ Checked(TRUE, FALSE) /\ UNCHANGED <<row, mem>>

\* Guard B, the youngest position's age, and guard C, the largest streak.
Convicted == /\ \A s \in Booked : row[s].old
             /\ Involved # {} => \E s \in Involved : Bumped[s].streak >= MinCycles
DeferForEvidence ==
    /\ Orphaned /\ ~order /\ ~Convicted
    /\ st' = Bumped /\ sights' = Sighted
    /\ Checked(TRUE, FALSE) /\ UNCHANGED <<row, mem, carried>> /\ NoFault

\* Every row of the symbol is closed and its components are evicted from this
\* process.
ForceClose ==
    /\ Orphaned /\ ~order /\ Convicted
    /\ row' = [s \in Strategies |-> None]
    /\ st' = [s \in Strategies |->
                IF s \in Booked /\ st[s] # None /\ st[s].in
                THEN [in |-> FALSE, streak |-> 0, latched |-> st[s].latched] ELSE Bumped[s]]
    /\ mem' = [s \in Strategies |-> IF s \in Booked THEN None ELSE mem[s]]
    /\ sights' = [s \in Strategies |-> 0]
    /\ carried' = [s \in Strategies |-> IF s \in Involved THEN 0 ELSE Counted(s)]
    /\ Checked(TRUE, TRUE) /\ NoFault

\* The account holds an asset nobody booked.  With one state record its
\* strategy adopts it, if the recent trades explain the balance; with none the
\* default does.  With more, the owner would be inferred from recent orders, but
\* the name used for that is imported only further down: the check raises.
Untracked == pc = "symbol" /\ Booked = {} /\ seen > 0
Owner == IF Recorded = {} THEN Default ELSE CHOOSE s \in Recorded : TRUE
Explained == net = seen

Adopt_noState ==
    /\ Untracked /\ Explained /\ Cardinality(Recorded) <= 1
    /\ \E old \in BOOLEAN : row' = [row EXCEPT ![Owner] = [size |-> seen, old |-> old]]
    /\ CarryOver(Strategies)
    /\ Checked(TRUE, TRUE) /\ UNCHANGED <<st, mem>> /\ NoFault

Adopt ==
    /\ Untracked /\ Explained /\ Cardinality(Recorded) <= 1
    /\ \E old \in BOOLEAN : row' = [row EXCEPT ![Owner] = [size |-> seen, old |-> old]]
    /\ st' = IF st[Owner] = None THEN st ELSE [st EXCEPT ![Owner].in = TRUE]
    /\ CarryOver(Strategies)
    /\ Checked(TRUE, TRUE) /\ UNCHANGED mem /\ NoFault
OwnerUnknown ==
    /\ Untracked /\ Explained /\ Cardinality(Recorded) > 1
    /\ Errored /\ CarryOver(Strategies)
    /\ UNCHANGED <<row, st, mem, who, seen>> /\ NoFault /\ Unmoved
Unexplained ==
    /\ Untracked /\ IF Explained THEN Fault("trades") ELSE NoFault
    /\ Checked(TRUE, FALSE) /\ CarryOver(Strategies) /\ UNCHANGED <<row, st, mem>>

\* Both hold something: the largest row takes the whole difference.  The streaks
\* are not cleared.
Resize(s) ==
    /\ pc = "symbol" /\ Booked # {} /\ seen > 0 /\ Local # seen
    /\ s \in Booked /\ \A r \in Booked : row[r].size <= row[s].size
    /\ \E n \in Amounts : /\ n = row[s].size + seen - Local
                          /\ row' = [row EXCEPT ![s].size = n]
    /\ Checked(TRUE, TRUE) /\ CarryOver(Strategies) /\ UNCHANGED <<st, mem>> /\ NoFault

\* Check F: a short whose size is not the futures position's latches the kill
\* switch of its pair.  Nothing is concluded when the futures cannot be read.
CheckFutures ==
    LET wrong == {s \in Booked \cap Shorts : row[s].size # Magnitude(fut)}
        unread == {s \in Booked \cap Shorts : row[s].size # 0}
    IN  /\ pc = "futures"
        /\ \/ /\ NoFault
              /\ st' = [s \in Strategies |-> IF s \in wrong /\ st[s] # None
                                             THEN [st[s] EXCEPT !.latched = TRUE] ELSE st[s]]
              /\ Finished([journal EXCEPT
                    !.exchange = IF wrong # {} THEN "mismatch" ELSE @,
                    !.mismatch = @ \/ wrong # {},
                    !.repaired = @ \/ wrong \cap Recorded # {}])
           \/ /\ unread # {} /\ Fault("futures") /\ UNCHANGED st
              /\ Finished([journal EXCEPT !.exchange = "mismatch", !.mismatch = TRUE])
        /\ UNCHANGED <<row, history, mem, who, seen>> /\ Unmoved

RunEnds ==
    /\ pc = "report" /\ pc' = "idle" /\ journal' = Report /\ seen' = 0
    /\ UNCHANGED <<book, mem, since, who>> /\ NoFault /\ Unmoved

CheckSymbol == \/ SizesAgree \/ DeferForOrder \/ DeferForEvidence \/ ForceClose
               \/ Adopt \/ OwnerUnknown \/ Unexplained \/ \E s \in Strategies : Resize(s)
Reconciling == CheckPairs \/ ReadAccount \/ AccountFails \/ CheckSymbol \/ CheckFutures \/ RunEnds

Next == \/ \E s \in Strategies : Tick(s) \/ Age(s) \/ OperatorResets(s)
        \/ Persist \/ PersistFails \/ Recycle \/ Crash
        \/ AccountMoves \/ Reconciling

Spec == Init /\ [][Next]_vars
FairSpec ==
    /\ Spec /\ WF_vars(Persist) /\ WF_vars(Reconciling) /\ SF_vars(Recycle)
    /\ \A s \in Strategies : WF_vars(Age(s))

-----------------------------------------------------------------------------
(******************************* properties ********************************)

\* Types of the account, the rows, the worker's cache and the report.
TypeOK ==
    /\ [enabled |-> enabled, faults |-> kinds] \in Profiles
    /\ asset \in 0..MaxHeld /\ net \in Int /\ fut \in (-MaxHeld)..MaxHeld /\ order \in BOOLEAN
    /\ row \in [Strategies -> Positions \cup {None}]
    /\ st \in [Strategies -> States \cup {None}]
    /\ mem \in [Strategies -> Caches \cup {None}]
    /\ since \in [Strategies -> 0..CyclesPerTick]
    /\ pc \in {"idle", "persist", "account", "symbol", "futures", "report"}
    /\ who \in Strategies \cup {None} /\ (who # None <=> pc = "persist")
    /\ seen \in 0..MaxHeld /\ sights \in [Strategies -> 0..MinCycles] /\ carried \in [Strategies -> 0..MinCycles]
    /\ journal \in Journals
    /\ Within(moves, faults) /\ moves \in Nat /\ faults \in Nat

\* A reconciliation deletes rows of the exchange check only on evidence: the
\* balance was zero, no order was open, every row was past the grace period, and
\* one of them has appeared orphaned in MinCycles reconciliations (unless no state
\* record could carry the count).  "Consecutive reconciliation cycles" is what
\* config.py:82 promises; the exception is what the streak carries over, for it is
\* cleared by sizes that agree, an open order and a persist only, and not by a run
\* that resizes or adopts the row or cannot read the account, nor by the emergency
\* cleanup that deletes the row.
ForceCloseJustified ==
    [][pc = "symbol" /\ (\E s \in Booked : row'[s] = None) =>
          /\ seen = 0 /\ ~order /\ \A s \in Booked : row[s].old
          /\ Involved = {} \/ \E s \in Booked : sights[s] + carried[s] + 1 >= MinCycles]_vars

\* When nobody but the ticks moves the account and nothing fails, the
\* reconciliation finds nothing to repair on the exchange: whatever the
\* order of two strategies' ticks, its runs and the worker's restarts.
HealthyLeftAlone ==
    enabled \cap Shorts = {} /\ moves = 0 /\ faults = 0 =>
        journal.exchange \in {"none", "ok"} /\ ~journal.repaired

\* The same, as to repairs, with a strategy that trades futures.
HealthyShortKept == moves = 0 /\ faults = 0 => ~journal.repaired

\* A position whose asset is gone for good does not stay in the book (one
\* resized to zero does: it is no mismatch).
OrphanClosed ==
    <>[](asset = 0 /\ ~order) =>
        []<>(\A s \in Strategies : row[s] = None \/ row[s].size = 0)

\* A single strategy that has a state record ends up with the book at what the
\* account holds, adoption and cached components included, once the balance
\* stands still and the trades explain it.
BookSettles ==
    \A a \in 1..MaxHeld :
        <>[]( /\ Cardinality(enabled) = 1 /\ enabled \cap Shorts = {} /\ Recorded = enabled
              /\ asset = a /\ net = a )
        => <>[](Local = a)
=============================================================================
