-------------------------- MODULE KillSwitch_proofs --------------------------
(***************************************************************************)
(* Type correctness of the kill switch, that an unlatched pair is within   *)
(* its limits, that a persisted trigger blocks every later tick, and that  *)
(* a reset between ticks is honoured.                                      *)
(***************************************************************************)
EXTENDS KillSwitch, TLAPS

-----------------------------------------------------------------------------
(* What the operations on a switch return                                  *)

LEMMA HardResetType == ASSUME NEW s \in Switches PROVE HardReset(s) \in Switches
<1>1. NoDay \in 0..MaxDay /\ 0 \in Equities \cup {0}
  BY ThresholdAssumption DEF NoDay
<1> QED
  BY <1>1 DEF HardReset, Switches

LEMMA RestoredType ==
  ASSUME TypeOK, NEW s \in Switches PROVE Restored(s) \in Switches
  BY DEF Restored, TypeOK, Switches

LEMMA FreshType == Fresh \in Switches
  BY ThresholdAssumption DEF Fresh, Switches, NoDay, Modes

LEMMA RecoveredType ==
  ASSUME TypeOK, NEW m \in Modes
  PROVE  /\ Recovered(m) \in Switches
         /\ [Fresh EXCEPT !.mode = m] \in Switches
         /\ Recovered(m).mode = m
<1>1. [Fresh EXCEPT !.mode = m] \in Switches /\ [Fresh EXCEPT !.mode = m].mode = m
  BY FreshType DEF Switches
<1>2. Restored([Fresh EXCEPT !.mode = m]) \in Switches
  BY <1>1, RestoredType
<1>3. Restored([Fresh EXCEPT !.mode = m]).mode = m
  BY <1>1, <1>2 DEF Restored, Switches, TypeOK
<1>4. row.holding \in BOOLEAN
  BY DEF TypeOK, Switches
<1> QED
  BY <1>1, <1>2, <1>3, <1>4 DEF Recovered, Switches

LEMMA SyncedType ==
  ASSUME TypeOK, NEW s \in Switches PROVE Synced(s) \in Switches
  BY HardResetType, RestoredType DEF Synced

LEMMA CheckedType ==
  ASSUME TypeOK, NEW s \in Switches, NEW e \in Equities PROVE Checked(s, e) \in Switches
<1>1. (IF e > s.peak THEN e ELSE s.peak) \in Equities \cup {0}
  BY DEF Switches
<1>2. (IF s.day = today THEN s.base ELSE e) \in Equities \cup {0}
  BY DEF Switches
<1>3. today \in 0..MaxDay
  BY ThresholdAssumption DEF TypeOK
<1>4. \A x, y, p : Lost(x, y, p) \in BOOLEAN
  BY DEF Lost
<1> QED
  BY <1>1, <1>2, <1>3, <1>4 DEF Checked, Switches

-----------------------------------------------------------------------------
(* Type correctness                                                        *)

LEMMA TypeInductive == TypeOK /\ [Next]_vars => TypeOK'
<1> SUFFICES ASSUME TypeOK, [Next]_vars PROVE TypeOK'
  OBVIOUS
<1>1. CASE TickStart
  <2>1. mem' \in Switches
    BY <1>1, RecoveredType DEF TickStart, TypeOK
  <2>2. equity' \in Equities \cup {0} /\ breached' \in BOOLEAN /\ checked' \in BOOLEAN
    BY <1>1 DEF TickStart, TypeOK
  <2> QED
    BY <1>1, <2>1, <2>2 DEF TickStart, TypeOK
<1>2. CASE Sync
  <2>1. mem' \in Switches
    BY <1>2, SyncedType DEF Sync, TypeOK
  <2> QED
    BY <1>2, <2>1 DEF Sync, TypeOK
<1>3. CASE Run
  <2>1. mem' \in Switches
    BY <1>3 DEF Run, TypeOK, Switches
  <2> QED
    BY <1>3, <2>1 DEF Run, TypeOK
<1>4. ASSUME NEW e \in Equities, Check(e) PROVE TypeOK'
  <2>1. mem' \in Switches
    BY <1>4, CheckedType DEF Check, TypeOK
  <2> QED
    BY <1>4, <2>1 DEF Check, TypeOK
<1>5. CASE Persist
  BY <1>5 DEF Persist, TypeOK
<1>13. ASSUME NEW e \in Equities, StopFilled(e) PROVE TypeOK'
  <2>1. mem' \in Switches
    BY <1>13 DEF StopFilled, TypeOK, Switches
  <2> QED
    BY <1>13, <2>1 DEF StopFilled, TypeOK
<1>6. CASE Abort
  BY <1>6 DEF Abort, TypeOK
<1>7. CASE Crash
  BY <1>7, FreshType DEF Crash, TypeOK
<1>8. CASE AccountTrigger
  <2>1. row' \in Switches
    BY <1>8 DEF AccountTrigger, TypeOK, Switches, Modes
  <2> QED
    BY <1>8, <2>1 DEF AccountTrigger, TypeOK
<1>9. CASE OperatorReset
  <2>1. PICK m \in {row.mode, "live"} : row' = [HardReset(row) EXCEPT !.mode = m]
    BY <1>9 DEF OperatorReset
  <2>2. m \in Modes
    BY DEF TypeOK, Switches, Modes
  <2>3. row' \in Switches
    BY <2>1, <2>2, HardResetType DEF TypeOK, Switches
  <2> QED
    BY <1>9, <2>3 DEF OperatorReset, TypeOK
<1>10. CASE SwitchMode
  BY <1>10 DEF SwitchMode, TypeOK
<1>11. CASE NewDay
  BY <1>11, ThresholdAssumption DEF NewDay, TypeOK
<1>12. CASE UNCHANGED vars
  BY <1>12 DEF vars, TypeOK
<1> QED
  BY <1>1, <1>2, <1>3, <1>4, <1>5, <1>6, <1>7, <1>8, <1>9, <1>10, <1>11, <1>12, <1>13 DEF Next, TickStep

\* The switch, its persisted copy and the history keep their types for every
\* set of equities, thresholds and failures.
THEOREM TypeCorrect == Spec => []TypeOK
<1>1. 1 \in 1..MaxDay
  BY ThresholdAssumption
<1>2. Init => TypeOK
  BY <1>1, FreshType DEF Init, TypeOK
<1> QED
  BY <1>2, TypeInductive, PTL DEF Spec

-----------------------------------------------------------------------------
(* Limits                                                                  *)

\* WithinLimits at every point of the tick: an aborted one ends anywhere.
Limits ==
    up /\ checked /\ ~mem.trig /\ equity > 0 /\ mem.peak > 0 =>
        /\ equity <= mem.peak
        /\ ~Lost(mem.peak, equity, MaxDrawdown)
        /\ ~Lost(mem.base, equity, MaxDailyLoss)

LEMMA NothingLost ==
  ASSUME NEW e \in Nat \ {0}, NEW pct \in 1..100 PROVE ~Lost(e, e, pct)
<1>1. pct * e > 0
  OBVIOUS
<1> QED
  BY <1>1 DEF Lost

\* A check leaves an unlatched switch within its limits.
LEMMA CheckedLimits ==
  ASSUME TypeOK, NEW s \in Switches, NEW e \in Equities, ~Checked(s, e).trig
  PROVE  LET c == Checked(s, e)
         IN  e <= c.peak /\ ~Lost(c.peak, e, MaxDrawdown) /\ ~Lost(c.base, e, MaxDailyLoss)
<1> DEFINE p == IF e > s.peak THEN e ELSE s.peak
           b == IF s.day = today THEN s.base ELSE e
<1>1. s.peak \in Equities \cup {0}
  BY DEF Switches
<1>2. \A x \in Equities : x \in Nat /\ x # 0
  BY EquityAssumption
<1>3. e \in Nat \ {0} /\ e <= p
  BY <1>1, <1>2
<1>4. ~s.trig
  BY DEF Checked
<1>5. CASE s.peak = 0
  <2>1. Checked(s, e).peak = e /\ Checked(s, e).base = e
    BY <1>4, <1>5 DEF Checked, Switches
  <2> QED
    BY <1>3, <2>1, NothingLost, ThresholdAssumption
<1>6. CASE s.peak # 0
  <2>1. /\ Checked(s, e).peak = p /\ Checked(s, e).base = b
        /\ Checked(s, e).trig = (Lost(p, e, MaxDrawdown) \/ Lost(b, e, MaxDailyLoss))
    BY <1>4, <1>6 DEF Checked, Switches
  <2> QED
    BY <1>3, <2>1
<1> QED
  BY <1>5, <1>6

LEMMA LimitsInductive == TypeOK /\ Limits /\ [Next]_vars => Limits'
<1> SUFFICES ASSUME TypeOK, Limits, [Next]_vars PROVE Limits'
  OBVIOUS
<1>1. CASE TickStart
  <2>1. CASE up /\ mem.mode = mode
    BY <1>1, <2>1 DEF TickStart, Limits, Lost
  <2>2. CASE ~(up /\ mem.mode = mode)
    <3>1. equity' = 0
      BY <1>1, <2>2 DEF TickStart
    <3>2. ~(equity' > 0)
      BY <3>1
    <3> QED
      BY <3>2 DEF Limits
  <2> QED
    BY <2>1, <2>2
<1>2. CASE Sync
  <2>1. equity' = equity /\ checked' = checked /\ up' = up /\ mem \in Switches
    BY <1>2 DEF Sync, TypeOK
  <2>2. CASE mem' = mem
    BY <2>1, <2>2 DEF Limits, Lost
  <2>3. CASE mem' = HardReset(mem)
    BY <2>1, <2>3 DEF Limits, HardReset, Switches
  <2>4. CASE mem' = Restored(mem) /\ row.trig
    <3>1. mem' = mem \/ mem'.trig
      BY <2>1, <2>4 DEF Restored, Switches
    <3> QED
      BY <2>1, <2>2, <3>1 DEF Limits
  <2> QED
    BY <1>2, <2>2, <2>3, <2>4 DEF Sync, Synced
<1>3. CASE Run
  <2>1. /\ mem'.trig = mem.trig /\ mem'.peak = mem.peak /\ mem'.base = mem.base
        /\ equity' = equity /\ checked' = checked /\ up' = up
    BY <1>3 DEF Run, TypeOK, Switches
  <2> QED
    BY <2>1 DEF Limits, Lost
<1>4. ASSUME NEW e \in Equities, Check(e) PROVE Limits'
  <2>1. mem' = Checked(mem, e) /\ equity' = e /\ mem \in Switches
    BY <1>4 DEF Check, TypeOK
  <2>2. ~mem'.trig =>
          e <= mem'.peak /\ ~Lost(mem'.peak, e, MaxDrawdown) /\ ~Lost(mem'.base, e, MaxDailyLoss)
    BY <2>1, CheckedLimits
  <2> QED
    BY <2>1, <2>2 DEF Limits, Lost
<1>5. CASE Crash
  <2>1. ~up'
    BY <1>5 DEF Crash
  <2> QED
    BY <2>1 DEF Limits
<1>6. CASE UNCHANGED <<up, mem, equity, checked>>
  BY <1>6 DEF Limits, Lost
<1>7. CASE ~checked'
  BY <1>7 DEF Limits
<1> QED
  BY <1>1, <1>2, <1>3, <1>4, <1>5, <1>6, <1>7
     DEF StopFilled, Next, TickStep, Persist, Abort, AccountTrigger, OperatorReset, SwitchMode, NewDay, vars

\* A pair that is not latched and whose last snapshot was checked is within the
\* drawdown and the daily-loss limit, whatever fails (KillSwitch.check); only
\* the snapshots of a booked exchange stop and of a blocked tick are not checked.
THEOREM TradesWithinLimits == Spec => []WithinLimits
<1>1. Init => Limits
  BY DEF Init, Limits
<1>2. Limits => WithinLimits
  BY DEF Limits, WithinLimits
<1> QED
  BY <1>1, <1>2, TypeCorrect, LimitsInductive, PTL DEF Spec

-----------------------------------------------------------------------------
(* The latch                                                               *)

\* What the history "row" means at each point of a tick
LatchInv ==
    /\ latched = "row" => saved /\ row.trig
    /\ pc \in {"run", "check"} => latched # "row" \/ row.mode # mem.mode
    /\ pc = "persist" => latched # "row" \/ row.mode # mem.mode \/ mem.trig
    /\ pc = "blocked" => mem.trig

\* Reading the row leaves an unlatched switch only when the row is not latched
\* in that mode.
LEMMA SyncedLatch ==
  ASSUME TypeOK, NEW s \in Switches, saved, row.trig, row.mode = s.mode
  PROVE  Synced(s).trig
  BY DEF Synced, Restored, TypeOK, Switches

LEMMA SyncedMode ==
  ASSUME TypeOK, NEW s \in Switches PROVE Synced(s).mode = s.mode
  BY DEF Synced, Restored, HardReset, TypeOK, Switches

LEMMA CheckedMode ==
  ASSUME NEW s \in Switches, NEW e \in Equities PROVE Checked(s, e).mode = s.mode
  BY DEF Checked, Switches

LEMMA LatchInductive ==
  ASSUME "sync" \notin Faults
  PROVE  TypeOK /\ LatchInv /\ [Next]_vars => LatchInv'
<1> SUFFICES ASSUME TypeOK, LatchInv, [Next]_vars PROVE LatchInv'
  OBVIOUS
<1> USE DEF LatchInv
<1>1. CASE TickStart
  BY <1>1 DEF TickStart
<1>2. CASE Sync
  <2>1. mem' = Synced(mem) /\ mem \in Switches
    BY <1>2 DEF Sync, TypeOK
  <2>2. pc' = "run" => latched # "row" \/ row.mode # mem'.mode
    BY <1>2, <2>1, SyncedLatch, SyncedMode DEF Sync
  <2> QED
    BY <1>2, <2>2 DEF Sync
<1>3. CASE Run
  <2>1. mem'.mode = mem.mode
    BY <1>3 DEF Run, TypeOK, Switches
  <2> QED
    BY <1>3, <2>1 DEF Run
<1>4. ASSUME NEW e \in Equities, Check(e) PROVE LatchInv'
  <2>1. mem'.mode = mem.mode
    BY <1>4, CheckedMode DEF Check, TypeOK
  <2> QED
    BY <1>4, <2>1 DEF Check
<1>13. ASSUME NEW e \in Equities, StopFilled(e) PROVE LatchInv'
  <2>1. mem'.mode = mem.mode /\ mem'.trig = mem.trig
    BY <1>13 DEF StopFilled, TypeOK, Switches
  <2> QED
    BY <1>13, <2>1 DEF StopFilled
<1>5. CASE Persist
  BY <1>5 DEF Persist
<1>6. CASE Abort
  BY <1>6 DEF Abort
<1>7. CASE Crash
  BY <1>7 DEF Crash
<1>8. CASE AccountTrigger
  <2>1. row'.trig
    BY <1>8 DEF AccountTrigger, TypeOK, Switches
  <2> QED
    BY <1>8, <2>1 DEF AccountTrigger
<1>9. CASE OperatorReset
  BY <1>9 DEF OperatorReset
<1>10. CASE SwitchMode
  BY <1>10 DEF SwitchMode
<1>11. CASE NewDay
  BY <1>11 DEF NewDay
<1>12. CASE UNCHANGED vars
  BY <1>12 DEF vars
<1> QED
  BY <1>1, <1>2, <1>3, <1>4, <1>5, <1>6, <1>7, <1>8, <1>9, <1>10, <1>11, <1>12, <1>13 DEF Next, TickStep

\* A persisted trigger blocks every tick that starts after it until it is reset,
\* as long as the tick can read the row: through crashes, failed recoveries,
\* failed transactions, aborted ticks and resets in the middle of a tick.
THEOREM PersistedLatchBlocks ==
  ASSUME "sync" \notin Faults
  PROVE  Spec => LatchedBlocks
<1>1. Init => LatchInv
  BY DEF Init, LatchInv
<1>2. TypeOK /\ LatchInv /\ [Next]_vars => [pc' = "run" => latched' # "row" \/ row.mode # mem'.mode]_vars
  <2> SUFFICES ASSUME TypeOK, LatchInv, [Next]_vars, pc' = "run"
               PROVE  (latched' # "row" \/ row.mode # mem'.mode) \/ UNCHANGED vars
    OBVIOUS
  <2>1. LatchInv'
    BY LatchInductive
  <2>2. latched' # "row" \/ row'.mode # mem'.mode
    BY <2>1 DEF LatchInv
  <2>3. row' = row \/ latched' # "row" \/ UNCHANGED vars
    BY DEF LatchInv, Next, TickStep, TickStart, Sync, Run, StopFilled, Check, Persist, Abort, Crash, AccountTrigger,
           OperatorReset, SwitchMode, NewDay
  <2> QED
    BY <2>2, <2>3
<1> QED
  BY <1>1, <1>2, TypeCorrect, LatchInductive, PTL DEF Spec, LatchedBlocks

-----------------------------------------------------------------------------
(* Resets                                                                  *)

\* A latch the history does not know of is only in memory, and the row says so.
ResetInv ==
    /\ row.trig => latched # "no"
    /\ mem.trig => latched # "no" \/ (saved /\ ~row.trig)
    /\ pc \in {"run", "check"} => ~mem.trig
    /\ pc \in {"blocked", "persist"} => (mem.trig => latched # "no")

LEMMA ResetInductive ==
  ASSUME "sync" \notin Faults, "midReset" \notin Faults
  PROVE  TypeOK /\ ResetInv /\ [Next]_vars => ResetInv'
<1> SUFFICES ASSUME TypeOK, ResetInv, [Next]_vars PROVE ResetInv'
  OBVIOUS
<1> USE DEF ResetInv
<1>1. CASE TickStart
  <2>1. CASE mem' = mem
    BY <1>1, <2>1 DEF TickStart
  <2>2. CASE mem' = [Fresh EXCEPT !.mode = mode]
    BY <1>1, <2>2 DEF TickStart, Fresh
  <2>3. CASE mem' = Recovered(mode)
    <3>1. mem'.trig => row.trig
      BY <2>3 DEF Recovered, Restored, Fresh, TypeOK, Switches
    <3> QED
      BY <1>1, <3>1 DEF TickStart
  <2> QED
    BY <1>1, <2>1, <2>2, <2>3 DEF TickStart
<1>2. CASE Sync
  <2>1. mem' = Synced(mem) /\ mem \in Switches
    BY <1>2 DEF Sync, TypeOK
  <2>2. mem'.trig => latched # "no"
    BY <2>1 DEF Synced, HardReset, Restored, Switches
  <2> QED
    BY <1>2, <2>2 DEF Sync
<1>3. CASE Run
  <2>1. mem'.trig = mem.trig
    BY <1>3 DEF Run, TypeOK, Switches
  <2> QED
    BY <1>3, <2>1 DEF Run
<1>4. ASSUME NEW e \in Equities, Check(e) PROVE ResetInv'
  BY <1>4 DEF Check
<1>13. ASSUME NEW e \in Equities, StopFilled(e) PROVE ResetInv'
  <2>1. mem'.mode = mem.mode /\ mem'.trig = mem.trig
    BY <1>13 DEF StopFilled, TypeOK, Switches
  <2> QED
    BY <1>13, <2>1 DEF StopFilled
<1>5. CASE Persist
  BY <1>5 DEF Persist
<1>6. CASE Abort
  BY <1>6 DEF Abort
<1>7. CASE Crash
  BY <1>7 DEF Crash, Fresh
<1>8. CASE AccountTrigger
  BY <1>8 DEF AccountTrigger
<1>9. CASE OperatorReset
  <2>1. ~row'.trig /\ saved' /\ mem' = mem
    BY <1>9 DEF OperatorReset, HardReset, TypeOK, Switches
  <2> QED
    BY <1>9, <2>1 DEF OperatorReset
<1>10. CASE SwitchMode
  BY <1>10 DEF SwitchMode
<1>11. CASE NewDay
  BY <1>11 DEF NewDay
<1>12. CASE UNCHANGED vars
  BY <1>12 DEF vars
<1> QED
  BY <1>1, <1>2, <1>3, <1>4, <1>5, <1>6, <1>7, <1>8, <1>9, <1>10, <1>11, <1>12, <1>13 DEF Next, TickStep

\* A reset made between two ticks takes effect in the next one, as long as the
\* tick can read the row.
THEOREM ResetsAreHonoured ==
  ASSUME "sync" \notin Faults, "midReset" \notin Faults
  PROVE  Spec => ResetHonoured
<1>1. Init => ResetInv
  BY DEF Init, ResetInv, Fresh
<1>2. TypeOK /\ ResetInv /\ [Next]_vars => [pc = "sync" /\ pc' = "blocked" => latched # "no"]_vars
  <2> SUFFICES ASSUME TypeOK, ResetInv, [Next]_vars, pc = "sync", pc' = "blocked"
               PROVE  latched # "no"
    OBVIOUS
  <2>1. Sync
    BY DEF Next, TickStep, TickStart, Sync, Run, StopFilled, Check, Persist, Abort, Crash, AccountTrigger,
           OperatorReset, SwitchMode, NewDay, vars
  <2>2. mem' = Synced(mem) /\ mem'.trig /\ mem \in Switches
    BY <2>1 DEF Sync, TypeOK
  <2> QED
    BY <2>2 DEF ResetInv, Synced, HardReset, Restored, Switches
<1> QED
  BY <1>1, <1>2, TypeCorrect, ResetInductive, PTL DEF Spec, ResetHonoured
=============================================================================
