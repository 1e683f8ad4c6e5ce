----------------------------- MODULE KillSwitch -----------------------------
(***************************************************************************)
(* The kill switch of one (strategy, symbol) pair (core/risk/              *)
(* kill_switch.py) as the tick of core/tasks/_tick.py uses it: the switch  *)
(* in the worker's memory, its copy in the pair's StrategyStateRecord, the *)
(* account monitor and the operators who write that copy, restarts, and    *)
(* changes between paper and live trading.                                 *)
(*                                                                         *)
(* One worker process runs every task (docker-compose.yml: --concurrency=1)*)
(* so the monitor never runs in the middle of a tick; operators may.       *)
(***************************************************************************)
EXTENDS Integers

CONSTANTS
    Equities,      \* values the pair's equity takes at a snapshot
    MaxDrawdown,   \* kill_switch_max_drawdown, in percent
    MaxDailyLoss,  \* max_daily_loss_pct, in percent
    MaxDay,        \* bound on the days
    Faults         \* what may go wrong

FaultKinds == {"crash", "recover", "sync", "persist", "abort", "midReset"}

ASSUME EquityAssumption == Equities \subseteq Nat \ {0}
ASSUME ThresholdAssumption ==
    MaxDrawdown \in 1..100 /\ MaxDailyLoss \in 1..100 /\ MaxDay \in Nat \ {0}
ASSUME FaultAssumption == Faults \subseteq FaultKinds

Modes == {"paper", "live"}
NoDay == 0       \* _current_day = None

VARIABLES
    mode,      \* the trading mode in the settings
    today,     \* date of the candle
    up,        \* the worker holds components for the pair
    mem,       \* the switch of those components, their mode and position
    row,       \* the switch as persisted, and the persisted position
    saved,     \* the row exists
    equity,    \* equity of the last snapshot
    checked,   \* history: the switch was shown that snapshot
    pc,        \* where the tick is
    breached,  \* the candle breaches the stop levels of the position
    latched    \* history: "memory" once triggered, "row" once that is persisted,
               \* "no" again after a reset

vars == <<mode, today, up, mem, row, saved, equity, checked, pc, breached, latched>>

Fresh == [trig |-> FALSE, peak |-> 0, base |-> 0, day |-> NoDay, mode |-> "paper", holding |-> FALSE]

Init ==
    /\ mode \in Modes /\ today = 1 /\ up = FALSE /\ mem = Fresh /\ row = Fresh /\ saved = FALSE
    /\ equity = 0 /\ checked = TRUE /\ pc = "idle" /\ breached = FALSE /\ latched = "no"

-----------------------------------------------------------------------------
(***************************** the switch **********************************)

HardReset_none(s) == [s EXCEPT !.trig = FALSE, !.peak = -1, !.base = 0, !.day = NoDay]

HardReset(s) == [s EXCEPT !.trig = FALSE, !.peak = 0, !.base = 0, !.day = NoDay]

\* restore_from_dict: nothing is taken from the row of another mode
Restored(s) ==
    IF row.mode # s.mode THEN s
    ELSE [s EXCEPT !.trig = row.trig, !.peak = row.peak, !.base = row.base, !.day = row.day]

\* Components built from the row: in live mode the saved peak is dropped
\* (BUG-014) and the first check starts from the equity it sees.
Recovered(m) ==
    LET s == [Restored([Fresh EXCEPT !.mode = m]) EXCEPT !.holding = row.holding]
    IN  IF m = "live" THEN [s EXCEPT !.peak = 0] ELSE s

\* (from - e) / from >= pct
Lost(from, e, pct) == from > 0 /\ (from - e) * 100 >= pct * from

Checked_dayFirst(s, e) ==
    LET p == IF e > s.peak THEN e ELSE s.peak
    IN  IF s.trig THEN s
        ELSE IF s.peak = 0 \/ s.day # today THEN [s EXCEPT !.peak = p, !.base = e, !.day = today]
        ELSE [s EXCEPT !.peak = p, !.trig = Lost(p, e, MaxDrawdown) \/ Lost(s.base, e, MaxDailyLoss)]

\* check(): the first call only takes the equity as peak and day start
Checked(s, e) ==
    LET p == IF e > s.peak THEN e ELSE s.peak
        b == IF s.day = today THEN s.base ELSE e
    IN  IF s.trig THEN s
        ELSE IF s.peak = 0 THEN [s EXCEPT !.peak = e, !.base = e, !.day = today]
        ELSE [s EXCEPT !.peak = p, !.base = b, !.day = today,
                       !.trig = Lost(p, e, MaxDrawdown) \/ Lost(b, e, MaxDailyLoss)]

-----------------------------------------------------------------------------
(******************************** the tick *********************************)

\* Components of another mode are evicted; missing ones are recovered from the
\* row, or start fresh when that fails.
TickStart ==
    /\ pc = "idle" /\ pc' = "sync" /\ up' = TRUE
    /\ breached' \in BOOLEAN
    /\ IF up /\ mem.mode = mode THEN UNCHANGED <<mem, equity, checked>>
       ELSE /\ \/ saved /\ mem' = Recovered(mode)
               \/ (~saved \/ "recover" \in Faults) /\ mem' = [Fresh EXCEPT !.mode = mode]
            /\ equity' = 0 /\ checked' = TRUE
    /\ UNCHANGED <<mode, today, row, saved, latched>>

Synced_noExternal(s) == IF s.trig /\ saved /\ ~row.trig THEN HardReset(s) ELSE s

Synced_noReset(s) == IF ~s.trig /\ saved /\ row.trig THEN Restored(s) ELSE s

\* The row is read for changes made outside: a latch gone from the row resets
\* the switch, a latch only the row has is restored.
Synced(s) ==
    IF s.trig /\ saved /\ ~row.trig THEN HardReset(s)
    ELSE IF ~s.trig /\ saved /\ row.trig THEN Restored(s)
    ELSE s

Sync ==
    /\ pc = "sync"
    /\ \/ mem' = Synced(mem)
       \/ "sync" \in Faults /\ mem' = mem
    /\ pc' = IF mem'.trig THEN "blocked" ELSE "run"
    /\ UNCHANGED <<mode, today, up, row, saved, equity, checked, breached, latched>>

\* Step 1b, live: the exchange has filled the position's stop between two ticks.
\* The tick books it, takes a snapshot, persists and returns: the switch is not
\* shown this equity.
StopFilled(e) ==
    /\ pc = "run" /\ pc' = "persist"
    /\ mem.mode = "live" /\ mem.holding /\ mem' = [mem EXCEPT !.holding = FALSE]
    /\ equity' = e /\ checked' = FALSE
    /\ UNCHANGED <<mode, today, up, row, saved, breached, latched>>

\* Steps 2 to 5: a breached position is closed; otherwise the strategy may
\* open or close, or leave things as they are.
Run ==
    /\ pc = "run" /\ pc' = "check"
    /\ IF mem.holding /\ breached THEN mem' = [mem EXCEPT !.holding = FALSE]
       ELSE \E h \in BOOLEAN : mem' = [mem EXCEPT !.holding = h]
    /\ UNCHANGED <<mode, today, up, row, saved, equity, checked, breached, latched>>

\* Steps 6 and 6b: snapshot, then the switch
Check(e) ==
    /\ pc = "check" /\ pc' = "persist"
    /\ equity' = e /\ checked' = TRUE
    /\ mem' = Checked(mem, e)
    /\ latched' = IF mem'.trig THEN "memory" ELSE latched
    /\ UNCHANGED <<mode, today, up, row, saved, breached>>

\* The end of a tick, of a blocked one included (it takes its snapshot here): the
\* row takes the switch and the position, unless the transaction fails.
\* (History: a latch of one mode is gone with the row of that mode.)
Persist ==
    /\ pc \in {"blocked", "persist"} /\ pc' = "idle"
    /\ \/ row' = mem /\ saved' = TRUE
          /\ latched' = IF mem.trig /\ latched # "no" THEN "row"
                        ELSE IF row.mode # mem.mode THEN "no" ELSE latched
       \/ "persist" \in Faults /\ UNCHANGED <<row, saved, latched>>
    /\ breached' = FALSE
    /\ IF pc = "blocked" THEN equity' \in Equities /\ checked' = FALSE ELSE UNCHANGED <<equity, checked>>
    /\ UNCHANGED <<mode, today, up, mem>>

\* An exception on the way ends the tick: nothing is persisted.
Abort ==
    /\ pc \in {"sync", "run", "check"} /\ "abort" \in Faults
    /\ pc' = "idle" /\ breached' = FALSE
    /\ UNCHANGED <<mode, today, up, mem, row, saved, equity, checked, latched>>

Crash ==
    /\ up /\ "crash" \in Faults
    /\ up' = FALSE /\ mem' = Fresh /\ pc' = "idle" /\ breached' = FALSE /\ equity' = 0 /\ checked' = TRUE
    /\ UNCHANGED <<mode, today, row, saved, latched>>

-----------------------------------------------------------------------------
(************************* outside of the tick *****************************)

\* sync_exchange_balances finds the account in drawdown: rows not latched yet
\* are, in live mode.
AccountTrigger ==
    /\ mode = "live" /\ pc = "idle" /\ saved /\ ~row.trig
    /\ row' = [row EXCEPT !.trig = TRUE, !.mode = "live"]
    /\ latched' = "row"
    /\ UNCHANGED <<mode, today, up, mem, saved, equity, checked, pc, breached>>

\* The API's reset keeps the row's mode, the script makes it live.
OperatorReset ==
    /\ saved /\ row.trig /\ (pc = "idle" \/ "midReset" \in Faults)
    /\ \E m \in {row.mode, "live"} : row' = [HardReset(row) EXCEPT !.mode = m]
    /\ latched' = "no"
    /\ UNCHANGED <<mode, today, up, mem, saved, equity, checked, pc, breached>>

SwitchMode ==
    /\ pc = "idle" /\ mode' \in Modes \ {mode}
    /\ UNCHANGED <<today, up, mem, row, saved, equity, checked, pc, breached, latched>>

NewDay ==
    /\ today < MaxDay /\ today' = today + 1
    /\ UNCHANGED <<mode, up, mem, row, saved, equity, checked, pc, breached, latched>>

TickStep == Sync \/ Run \/ (\E e \in Equities : StopFilled(e) \/ Check(e)) \/ Persist

Next ==
    \/ TickStart \/ TickStep \/ Abort \/ Crash
    \/ AccountTrigger \/ OperatorReset \/ SwitchMode \/ NewDay

Spec == Init /\ [][Next]_vars
\* The beat keeps starting ticks, a started tick goes on, and not every tick
\* dies before it has read the row.
FairSpec == Spec /\ WF_vars(TickStart) /\ WF_vars(TickStep) /\ SF_vars(Sync)

-----------------------------------------------------------------------------
(******************************* properties ********************************)

Switches == [trig : BOOLEAN, peak : Equities \cup {0}, base : Equities \cup {0},
             day : 0..MaxDay, mode : Modes, holding : BOOLEAN]

TypeOK ==
    /\ mode \in Modes /\ today \in 1..MaxDay /\ up \in BOOLEAN /\ saved \in BOOLEAN
    /\ mem \in Switches /\ row \in Switches /\ equity \in Equities \cup {0} /\ checked \in BOOLEAN
    /\ pc \in {"idle", "sync", "run", "check", "blocked", "persist"}
    /\ breached \in BOOLEAN /\ latched \in {"no", "memory", "row"}

\* A pair that goes on trading has its last equity within both limits: the drop
\* from the highest equity since the switch was set up, and the drop since the
\* first snapshot of the day (KillSwitch.check).  The exception is the snapshot
\* of the tick that books a filled exchange stop: check() is to be called "after
\* every portfolio snapshot", and after this one it is not, so that the pair may
\* be beyond its limits and trade until a later tick's check.
WithinLimits ==
    pc = "idle" /\ up /\ checked /\ ~mem.trig /\ equity > 0 /\ mem.peak > 0 =>
        /\ equity <= mem.peak
        /\ ~Lost(mem.peak, equity, MaxDrawdown)
        /\ ~Lost(mem.base, equity, MaxDailyLoss)

\* A persisted trigger is never lost: no tick that starts after it trades,
\* through restarts, evictions and aborted ticks, until an operator resets it.
LatchedBlocks == [][pc' = "run" => latched' # "row" \/ row.mode # mem'.mode]_vars

\* "Once triggered the kill-switch stays latched until explicitly reset": the
\* same of every trigger, persisted or not.
StaysLatched == [][pc' = "run" => latched' = "no" \/ row.mode # mem'.mode]_vars

\* A reset is honoured by the next tick (reset_kill_switch, "the running Celery
\* worker detects the DB change on the next tick"): only a latched switch blocks.
ResetHonoured == [][pc = "sync" /\ pc' = "blocked" => latched # "no"]_vars

\* The account monitor's trigger reaches the worker.
TriggerSeen ==
    (row.trig /\ row.mode = mode) ~> (mem.trig \/ ~row.trig \/ row.mode # mode)
=============================================================================
