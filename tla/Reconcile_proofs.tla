-------------------------- MODULE Reconcile_proofs --------------------------
(***************************************************************************)
(* Type correctness of the reconciliation, that it force-closes rows on    *)
(* evidence only, and that it finds a healthy account healthy.             *)
(*                                                                         *)
(* A streak is evidence when it never exceeds the orphan sightings in a    *)
(* row and those it has carried over.  It is kept in the state record and  *)
(* the sightings belong to the row, so the invariant has to tie the two:   *)
(* an open state has a row, and open components have a position, which is  *)
(* what makes the persist step keep them together.                         *)
(*                                                                         *)
(* A healthy account is one whose balance is the sum of the rows, but for  *)
(* the tick that has traded and not persisted yet.  The sum is a fold over *)
(* a set: what a step does to it is shown by induction on finite sets.     *)
(***************************************************************************)
EXTENDS Reconcile, FiniteSetTheorems, TLAPS

-----------------------------------------------------------------------------
(* Type correctness                                                        *)

USE NumberAssumption DEF Positions, States, Caches, Journals, history

LEMMA FaultWithin ==
  ASSUME TypeOK, NEW f, Fault(f) \/ NoFault, moves' = moves
  PROVE  Within(moves, faults)' /\ moves' \in Nat /\ faults' \in Nat
  BY DEF Fault, NoFault, Within, TypeOK

Sightings == [Strategies -> 0..MinCycles]
HistoryOK == sights \in Sightings /\ carried \in Sightings

\* What is carried over counts as much as what was seen.
LEMMA CarryOverFacts ==
  ASSUME TypeOK, NEW S, CarryOver(S)
  PROVE  /\ HistoryOK'
         /\ \A s \in Strategies : \A n \in 0..MinCycles :
                sights[s] + carried[s] >= n => sights'[s] + carried'[s] >= n
<1>1. \A s \in Strategies : sights[s] \in 0..MinCycles /\ carried[s] \in 0..MinCycles
  BY DEF TypeOK
<1>2. \A s \in Strategies :
        /\ Counted(s) \in 0..MinCycles
        /\ \A n \in 0..MinCycles : sights[s] + carried[s] >= n => Counted(s) >= n
  BY <1>1 DEF Counted, Least
<1>3. 0 \in 0..MinCycles
  OBVIOUS
<1>4. /\ sights' = [s \in Strategies |-> IF s \in S THEN 0 ELSE sights[s]]
      /\ carried' = [s \in Strategies |-> IF s \in S THEN Counted(s) ELSE carried[s]]
  BY DEF CarryOver
<1>5. HistoryOK'
  BY <1>1, <1>2, <1>3, <1>4 DEF HistoryOK, Sightings
<1>6. ASSUME NEW s \in Strategies, NEW n \in 0..MinCycles, sights[s] + carried[s] >= n
      PROVE  sights'[s] + carried'[s] >= n
  <2>1. CASE s \in S
    <3>1. sights'[s] = 0 /\ carried'[s] = Counted(s)
      BY <1>4, <2>1
    <3> QED
      BY <1>2, <1>6, <3>1
  <2>2. CASE s \notin S
    <3>1. sights'[s] = sights[s] /\ carried'[s] = carried[s]
      BY <1>4, <2>2
    <3> QED
      BY <1>6, <3>1
  <2> QED
    BY <2>1, <2>2
<1> QED
  BY <1>5, <1>6

LEMMA SoldRange ==
  ASSUME asset \in 0..MaxHeld, NEW n \in Int
  PROVE  Sold(n) \in 0..asset
  BY DEF Sold, Least

LEMMA ComponentsType ==
  ASSUME TypeOK, NEW s \in Strategies, NEW m \in {mem[s], Restored(s), Fresh} \ {None}
  PROVE  m \in Caches
<1>1. mem[s] # None => mem[s] \in Caches
  BY DEF TypeOK
<1>2. row[s] \in Positions \cup {None} /\ st[s] \in States \cup {None}
  BY DEF TypeOK
<1>3. Restored(s) \in Caches
  BY <1>2 DEF Restored
<1>4. Fresh \in Caches
  BY DEF Fresh
<1> QED
  BY <1>1, <1>3, <1>4

LEMMA ComponentsFault ==
  ASSUME NEW s, NEW m, Components(s, m)
  PROVE  Fault("recover") \/ NoFault
  BY DEF Components

LEMMA TicksType ==
  ASSUME TypeOK, NEW s \in Strategies, NEW m, NEW p \in Caches, Ticks(s, m, p),
         asset' \in 0..MaxHeld, net' \in Int, fut' \in (-MaxHeld)..MaxHeld
  PROVE  TypeOK'
<1>1. Within(moves, faults)' /\ moves' \in Nat /\ faults' \in Nat
  BY ComponentsFault, FaultWithin DEF Ticks, env
<1> QED
  BY <1>1, StrategyAssumption DEF Ticks, TypeOK, env, book, Idle

LEMMA TickType == ASSUME TypeOK, NEW s \in Strategies, Tick(s) PROVE TypeOK'
<1>1. PICK m \in {mem[s], Restored(s), Fresh} \ {None} :
        Hold(s, m) \/ Close(s, m) \/ \E q \in Sizes : Open(s, m, q)
  BY DEF Tick
<1>2. m \in Caches
  BY ComponentsType
<1>3. CASE Hold(s, m)
  BY <1>2, <1>3, TicksType DEF Hold, TypeOK
<1>4. CASE Close(s, m)
  <2>1. Fresh \in Caches
    BY DEF Fresh
  <2>2. m.pos # None => Sold(m.pos.size) \in 0..asset
    BY <1>2, SoldRange DEF TypeOK
  <2>3. /\ asset' \in 0..MaxHeld /\ net' \in Int
        /\ fut' \in (-MaxHeld)..MaxHeld
    BY <1>2, <1>4, <2>2 DEF Close, TypeOK
  <2> QED
    BY <1>4, <2>1, <2>3, TicksType DEF Close
<1>5. ASSUME NEW q \in Sizes, Open(s, m, q) PROVE TypeOK'
  <2>1. [pos |-> [size |-> q, old |-> FALSE], in |-> TRUE] \in Caches
    OBVIOUS
  <2>2. /\ asset' \in 0..MaxHeld /\ net' \in Int
        /\ fut' \in (-MaxHeld)..MaxHeld
    BY <1>5 DEF Open, TypeOK
  <2> QED
    BY <1>5, <2>1, <2>2, TicksType DEF Open
<1> QED
  BY <1>1, <1>3, <1>4, <1>5

LEMMA PersistType == ASSUME TypeOK, pc = "persist", mem[who] # None, Persist \/ PersistFails PROVE TypeOK'
<1>1. who \in Strategies /\ mem[who] \in Caches
  BY DEF TypeOK
<1>2. CASE Persist
  <2>1. Within(moves, faults)' /\ moves' \in Nat /\ faults' \in Nat
    BY <1>2, FaultWithin DEF Persist, env
  <2>2. Latched(who) \in BOOLEAN
    BY <1>1 DEF Latched, TypeOK
  <2>3. row' \in [Strategies -> Positions \cup {None}]
    BY <1>1, <1>2 DEF Persist, TypeOK
  <2>4. st' \in [Strategies -> States \cup {None}]
    BY <1>1, <1>2, <2>2 DEF Persist, TypeOK
  <2>5. HistoryOK'
    BY <1>1, <1>2 DEF Persist, TypeOK, HistoryOK, Sightings
  <2> QED
    BY <1>1, <1>2, <2>1, <2>3, <2>4, <2>5, StrategyAssumption
    DEF Persist, TypeOK, env, held, HistoryOK, Sightings
<1>3. CASE PersistFails
  <2>1. Within(moves, faults)' /\ moves' \in Nat /\ faults' \in Nat
    BY <1>3, FaultWithin DEF PersistFails, env
  <2>2. /\ row' \in [Strategies -> Positions \cup {None}]
        /\ st' \in [Strategies -> States \cup {None}]
        /\ HistoryOK'
    <3>1. CASE UNCHANGED book
      BY <3>1 DEF TypeOK, book, HistoryOK, Sightings
    <3>2. ASSUME ~UNCHANGED book
          PROVE  /\ row' = [row EXCEPT ![who] = None]
                 /\ CarryOver({who})
                 /\ st' = IF st[who] # None /\ st[who].in
                          THEN [st EXCEPT ![who].in = mem[who].in] ELSE st
      BY <1>3, <3>2 DEF PersistFails
    <3>3. ASSUME st[who] # None PROVE [st[who] EXCEPT !.in = mem[who].in] \in States
      BY <1>1, <3>3 DEF TypeOK, Caches, States
    <3>4. ASSUME ~UNCHANGED book PROVE st' \in [Strategies -> States \cup {None}]
      BY <1>1, <3>2, <3>3, <3>4 DEF TypeOK
    <3>5. ASSUME ~UNCHANGED book PROVE row' \in [Strategies -> Positions \cup {None}] /\ HistoryOK'
      BY <1>1, <3>2, <3>5, CarryOverFacts DEF TypeOK
    <3> QED
      BY <3>1, <3>4, <3>5
  <2>3. /\ mem' \in [Strategies -> Caches \cup {None}]
        /\ since' \in [Strategies -> 0..CyclesPerTick]
    BY <1>3 DEF PersistFails, TypeOK
  <2>4. /\ pc' \in {"idle", "persist", "account", "symbol", "futures", "report"}
        /\ who' \in Strategies \cup {None} /\ (who' # None <=> pc' = "persist")
    BY <1>3 DEF PersistFails
  <2>5. /\ [enabled |-> enabled', faults |-> kinds'] \in Profiles
        /\ asset' \in 0..MaxHeld /\ net' \in Int
        /\ fut' \in (-MaxHeld)..MaxHeld /\ order' \in BOOLEAN
        /\ seen' \in 0..MaxHeld /\ journal' \in Journals
    BY <1>3 DEF PersistFails, TypeOK, env, held
  <2> QED
    BY <2>1, <2>2, <2>3, <2>4, <2>5 DEF TypeOK, HistoryOK, Sightings
<1> QED
  BY <1>2, <1>3

LEMMA MoveType == ASSUME TypeOK, AccountMoves PROVE TypeOK'
<1> USE DEF Untouched, TypeOK, book, run
<1>1. ASSUME Move PROVE Within(moves, faults)' /\ moves' \in Nat /\ faults' \in Nat
  BY <1>1 DEF Move, Within
<1>2. CASE Bought
  BY <1>1, <1>2 DEF Bought, Move
<1>3. CASE SoldElsewhere
  BY <1>1, <1>3 DEF SoldElsewhere, Move
<1>4. CASE Deposited
  BY <1>1, <1>4 DEF Deposited, Move
<1>5. CASE Withdrawn
  BY <1>1, <1>5 DEF Withdrawn, Move
<1>6. CASE FuturesClosed
  BY <1>1, <1>6 DEF FuturesClosed, Move
<1>7. CASE OrderPlaced
  BY <1>1, <1>7 DEF OrderPlaced, Move
<1>8. CASE OrderEnds
  <2>1. Within(moves, faults)' /\ moves' \in Nat /\ faults' \in Nat
    BY <1>8 DEF OrderEnds, Within
  <2>2. /\ order' = FALSE /\ fut' = fut /\ enabled' = enabled /\ kinds' = kinds /\ row' = row /\ st' = st
        /\ sights' = sights /\ carried' = carried
        /\ mem' = mem /\ since' = since /\ pc' = pc /\ who' = who
        /\ seen' = seen /\ journal' = journal
    BY <1>8 DEF OrderEnds
  <2>3. asset' \in 0..MaxHeld /\ net' \in Int
    BY <1>8 DEF OrderEnds
  <2> QED
    BY <2>1, <2>2, <2>3
<1> QED
  BY <1>2, <1>3, <1>4, <1>5, <1>6, <1>7, <1>8 DEF AccountMoves

LEMMA AgedType ==
  ASSUME NEW p \in Positions \cup {None}
  PROVE  /\ Aged(p) \in Positions \cup {None}
         /\ Aged(p) = None <=> p = None
  BY NoneAssumption DEF Aged

LEMMA AgeType == ASSUME TypeOK, NEW s \in Strategies, Age(s) PROVE TypeOK'
<1>1. row' \in [Strategies -> Positions \cup {None}]
  BY AgedType DEF Age, TypeOK
<1>2. mem' \in [Strategies -> Caches \cup {None}]
  <2>1. mem[s] # None => [mem[s] EXCEPT !.pos = Aged(mem[s].pos)] \in Caches
    BY AgedType DEF TypeOK
  <2>2. mem' = [mem EXCEPT ![s] = IF mem[s] = None THEN None ELSE [mem[s] EXCEPT !.pos = Aged(mem[s].pos)]]
    BY DEF Age
  <2>3. (IF mem[s] = None THEN None ELSE [mem[s] EXCEPT !.pos = Aged(mem[s].pos)]) \in Caches \cup {None}
    BY <2>1
  <2> QED
    BY <2>2, <2>3 DEF TypeOK
<1>3. Within(moves, faults)' /\ moves' \in Nat /\ faults' \in Nat
  BY DEF Age, env, Within, TypeOK
<1> QED
  BY <1>1, <1>2, <1>3 DEF Age, TypeOK, env, held, run

LEMMA WorkerType ==
  ASSUME TypeOK, Recycle \/ Crash \/ \E s \in Strategies : OperatorResets(s)
  PROVE  TypeOK'
<1>1. CASE Recycle
  <2>1. Within(moves, faults)' /\ moves' \in Nat /\ faults' \in Nat
    BY <1>1, FaultWithin DEF Recycle, env
  <2> QED
    BY <1>1, <2>1 DEF Recycle, Forget, TypeOK, env, held, book, run
<1>2. CASE Crash
  <2>1. Within(moves, faults)' /\ moves' \in Nat /\ faults' \in Nat
    BY <1>2, FaultWithin DEF Crash, env
  <2>2. mem' \in [Strategies -> Caches \cup {None}]
    BY <1>2 DEF Crash, Forget
  <2> QED
    BY <1>2, <2>1, <2>2, StrategyAssumption DEF Crash, TypeOK, env, held, book
<1>3. ASSUME NEW s \in Strategies, OperatorResets(s) PROVE TypeOK'
  <2>1. st' \in [Strategies -> States \cup {None}]
    <3>1. st[s] \in States /\ st' = [st EXCEPT ![s].latched = FALSE]
      BY <1>3 DEF OperatorResets, Latched, TypeOK
    <3>2. [st[s] EXCEPT !.latched = FALSE] \in States
      BY <3>1
    <3> QED
      BY <3>1, <3>2 DEF TypeOK
  <2>2. Within(moves, faults)' /\ moves' \in Nat /\ faults' \in Nat
    BY <1>3 DEF OperatorResets, env, Within, TypeOK
  <2> QED
    BY <1>3, <2>1, <2>2 DEF OperatorResets, TypeOK, env, held, run
<1> QED
  BY <1>1, <1>2, <1>3

LEMMA CheckPairsType == ASSUME TypeOK, CheckPairs PROVE TypeOK'
<1> DEFINE drop == {s \in enabled : RowOrphan(s)}
           reset == {s \in enabled : StateOrphan(s)}
<1>1. row' \in [Strategies -> Positions \cup {None}] /\ HistoryOK'
  BY CarryOverFacts DEF CheckPairs, TypeOK
<1>2. st' \in [Strategies -> States \cup {None}]
  <2>1. \A s \in reset : s \in Strategies => [st[s] EXCEPT !.in = FALSE] \in States
    BY DEF StateOrphan, TypeOK
  <2> QED
    BY <2>1 DEF CheckPairs, TypeOK
<1>3. Within(moves, faults)' /\ moves' \in Nat /\ faults' \in Nat
  BY FaultWithin DEF CheckPairs, Unmoved, env
<1>4. journal' = [Report EXCEPT !.mismatch = drop \cup reset # {}]
  BY DEF CheckPairs
<1>5. who' = who /\ pc' = "account" /\ pc = "idle"
  BY DEF CheckPairs, Idle
<1> HIDE DEF drop, reset
<1>6. journal' \in Journals
  BY <1>4 DEF Report
<1> QED
  BY <1>1, <1>2, <1>3, <1>5, <1>6 DEF CheckPairs, TypeOK, Unmoved, env, held, HistoryOK, Sightings

LEMMA FinishedType ==
  ASSUME TypeOK, NEW j, Finished(j), pc # "persist", who' = who,
         j \in Journals
  PROVE  /\ since' \in [Strategies -> 0..CyclesPerTick]
         /\ pc' = "report" /\ who' = None
         /\ journal' \in Journals
<1>1. \A s \in Strategies : Least(since[s] + 1, CyclesPerTick) \in 0..CyclesPerTick
  BY DEF TypeOK, Least
<1>2. PICK w \in BOOLEAN :
        journal' = [j EXCEPT !.said = IF j.mismatch \/ w THEN "mismatch" ELSE "ok"]
  BY DEF Finished, Warned
<1>3. (IF j.mismatch \/ w THEN "mismatch" ELSE "ok") \in {"mismatch", "ok"}
  OBVIOUS
<1>4. journal' \in Journals
  BY <1>2, <1>3
<1>5. pc' = "report" /\ since' = [s \in Strategies |-> Least(since[s] + 1, CyclesPerTick)]
  BY DEF Finished
<1> QED
  BY <1>1, <1>4, <1>5 DEF TypeOK

LEMMA CheckedType ==
  ASSUME TypeOK, pc = "symbol", NEW b \in BOOLEAN, NEW r \in BOOLEAN, Checked(b, r),
         row' \in [Strategies -> Positions \cup {None}],
         st' \in [Strategies -> States \cup {None}],
         mem' \in [Strategies -> Caches \cup {None}],
         HistoryOK',
         NEW f, Fault(f) \/ NoFault
  PROVE  TypeOK'
<1>1. Within(moves, faults)' /\ moves' \in Nat /\ faults' \in Nat
  BY FaultWithin DEF Checked, Unmoved, env
<1>2. journal' \in Journals
  <2>1. (IF b THEN "mismatch" ELSE "ok") \in {"mismatch", "ok"} /\ (journal.mismatch \/ b) \in BOOLEAN
    BY DEF TypeOK
  <2> QED
    BY <2>1 DEF Checked, TypeOK
<1> QED
  BY <1>1, <1>2 DEF Checked, TypeOK, Unmoved, env, held, HistoryOK, Sightings

LEMMA BumpedType ==
  ASSUME TypeOK
  PROVE  /\ Bumped \in [Strategies -> States \cup {None}]
         /\ Sighted \in Sightings
         /\ \A s \in Involved : Bumped[s] # None /\ Bumped[s] \in States
<1>1. ASSUME NEW s \in Involved
      PROVE  [st[s] EXCEPT !.streak = Least(@ + 1, MinCycles)] \in States
  BY DEF Involved, Recorded, TypeOK, Least
<1>2. \A s \in Strategies : Least(sights[s] + 1, MinCycles) \in 0..MinCycles
  BY DEF TypeOK, Least
<1> QED
  BY <1>1, <1>2, NoneAssumption DEF Bumped, Sighted, Sightings, TypeOK, Involved, Recorded

LEMMA SignOfLifeType ==
  ASSUME TypeOK, SignOfLife
  PROVE  st' \in [Strategies -> States \cup {None}] /\ HistoryOK'
<1>1. \A s \in Strategies : st[s] # None => [st[s] EXCEPT !.streak = 0] \in States
  BY DEF TypeOK
<1> QED
  BY <1>1 DEF SignOfLife, HistoryOK, Sightings

LEMMA CheckSymbolType == ASSUME TypeOK, CheckSymbol PROVE TypeOK'
<1>1. CASE SizesAgree
  <2>1. st' \in [Strategies -> States \cup {None}] /\ HistoryOK'
    BY <1>1, SignOfLifeType, CarryOverFacts DEF SizesAgree, TypeOK
  <2> QED
    BY <1>1, <2>1, CheckedType DEF SizesAgree, TypeOK
<1>2. CASE DeferForOrder
  <2>1. Fault("orders") \/ NoFault
    BY <1>2 DEF DeferForOrder
  <2> QED
    BY <1>2, <2>1, SignOfLifeType, CheckedType DEF DeferForOrder, Orphaned, TypeOK
<1>3. CASE DeferForEvidence
  <2>1. HistoryOK'
    BY <1>3, BumpedType DEF DeferForEvidence, HistoryOK, Sightings, TypeOK
  <2> QED
    BY <1>3, <2>1, BumpedType, CheckedType DEF DeferForEvidence, Orphaned, TypeOK
<1>4. CASE ForceClose
  <2>1. st' \in [Strategies -> States \cup {None}]
    <3>1. ASSUME NEW s \in Strategies, st[s] # None
          PROVE  [in |-> FALSE, streak |-> 0, latched |-> st[s].latched] \in States
      <4>1. st[s] \in States
        BY <3>1 DEF TypeOK
      <4>2. st[s].latched \in BOOLEAN /\ 0 \in 0..MinCycles
        BY <4>1
      <4> QED
        BY <4>2
    <3> QED
      BY <1>4, <3>1, BumpedType DEF ForceClose
  <2>2. /\ row' \in [Strategies -> Positions \cup {None}]
        /\ mem' \in [Strategies -> Caches \cup {None}]
        /\ HistoryOK'
    <3>1. \A s \in Strategies : (IF s \in Booked THEN None ELSE mem[s]) \in Caches \cup {None}
      BY DEF TypeOK
    <3>2. 0 \in 0..MinCycles /\ \A s \in Strategies : Counted(s) \in 0..MinCycles
      BY DEF Counted, Least, TypeOK
    <3>3. /\ row' = [s \in Strategies |-> None] /\ sights' = [s \in Strategies |-> 0]
          /\ carried' = [s \in Strategies |-> IF s \in Involved THEN 0 ELSE Counted(s)]
          /\ mem' = [s \in Strategies |-> IF s \in Booked THEN None ELSE mem[s]]
      BY <1>4 DEF ForceClose
    <3> QED
      BY <3>1, <3>2, <3>3 DEF HistoryOK, Sightings
  <2> QED
    BY <1>4, <2>1, <2>2, CheckedType DEF ForceClose, Orphaned
<1>5. CASE Adopt
  <2>1. seen \in Int /\ pc = "symbol"
    BY <1>5 DEF Adopt, Untracked, TypeOK
  <2>2. PICK old \in BOOLEAN : row' = [row EXCEPT ![Owner] = [size |-> seen, old |-> old]]
    BY <1>5 DEF Adopt
  <2>3. row' \in [Strategies -> Positions \cup {None}]
    BY <2>1, <2>2 DEF TypeOK
  <2>4. st' \in [Strategies -> States \cup {None}]
    <3>1. Owner \in Strategies => (st[Owner] # None => [st[Owner] EXCEPT !.in = TRUE] \in States)
      BY DEF TypeOK
    <3> QED
      BY <1>5, <3>1 DEF Adopt, TypeOK
  <2>5. HistoryOK' /\ mem' = mem
    BY <1>5, CarryOverFacts DEF Adopt
  <2> QED
    BY <1>5, <2>1, <2>3, <2>4, <2>5, CheckedType DEF Adopt, TypeOK
<1>6. CASE OwnerUnknown
  <2>1. Within(moves, faults)' /\ moves' \in Nat /\ faults' \in Nat
    BY <1>6, FaultWithin DEF OwnerUnknown, Unmoved, env
  <2>2. [journal EXCEPT !.exchange = "error"] \in Journals
    BY DEF TypeOK
  <2>3. HistoryOK'
    BY <1>6, CarryOverFacts DEF OwnerUnknown
  <2> QED
    BY <1>6, <2>1, <2>2, <2>3, FinishedType
    DEF OwnerUnknown, Untracked, Errored, TypeOK, Unmoved, env, held, HistoryOK, Sightings
<1>7. CASE Unexplained
  <2>1. Fault("trades") \/ NoFault
    BY <1>7 DEF Unexplained
  <2> QED
    BY <1>7, <2>1, CarryOverFacts, CheckedType DEF Unexplained, Untracked, TypeOK
<1>8. ASSUME NEW s \in Strategies, Resize(s) PROVE TypeOK'
  <2>1. PICK n \in Amounts : row' = [row EXCEPT ![s].size = n]
    BY <1>8 DEF Resize
  <2>2. row[s] \in Positions /\ n \in Int
    BY <1>8 DEF Resize, Booked, TypeOK, Amounts
  <2>3. row' \in [Strategies -> Positions \cup {None}]
    BY <2>1, <2>2 DEF TypeOK
  <2> QED
    BY <1>8, <2>3, CarryOverFacts, CheckedType DEF Resize, TypeOK
<1> QED
  BY <1>1, <1>2, <1>3, <1>4, <1>5, <1>6, <1>7, <1>8 DEF CheckSymbol

LEMMA CheckFuturesType == ASSUME TypeOK, CheckFutures PROVE TypeOK'
<1> DEFINE wrong == {s \in Booked \cap Shorts : row[s].size # Magnitude(fut)}
           unread == {s \in Booked \cap Shorts : row[s].size # 0}
           read == [journal EXCEPT !.exchange = IF wrong # {} THEN "mismatch" ELSE @,
                                   !.mismatch = @ \/ wrong # {},
                                   !.repaired = @ \/ wrong \cap Recorded # {}]
           failed == [journal EXCEPT !.exchange = "mismatch", !.mismatch = TRUE]
<1>1. /\ pc = "futures" /\ row' = row /\ sights' = sights /\ carried' = carried /\ mem' = mem /\ who' = who /\ seen' = seen
      /\ UNCHANGED <<env, held>>
      /\ \/ /\ NoFault /\ Finished(read)
            /\ st' = [s \in Strategies |-> IF s \in wrong /\ st[s] # None
                                            THEN [st[s] EXCEPT !.latched = TRUE] ELSE st[s]]
         \/ unread # {} /\ Fault("futures") /\ UNCHANGED st /\ Finished(failed)
  BY DEF CheckFutures, Unmoved
<1>2. read \in Journals /\ failed \in Journals
  <2>1. journal \in Journals
    BY DEF TypeOK
  <2>2. (wrong # {}) \in BOOLEAN /\ (wrong \cap Recorded # {}) \in BOOLEAN
    OBVIOUS
  <2> HIDE DEF wrong
  <2> QED
    BY <2>1, <2>2
<1> HIDE DEF wrong, unread, read, failed
<1>3. /\ since' \in [Strategies -> 0..CyclesPerTick] /\ pc' = "report" /\ who' = None
      /\ journal' \in Journals
  BY <1>1, <1>2, FinishedType
<1>4. st' \in [Strategies -> States \cup {None}]
  <2>1. \A s \in Strategies : st[s] # None => [st[s] EXCEPT !.latched = TRUE] \in States
    BY DEF TypeOK
  <2> QED
    BY <1>1, <2>1 DEF TypeOK
<1>5. Within(moves, faults)' /\ moves' \in Nat /\ faults' \in Nat
  BY <1>1, FaultWithin DEF env
<1> QED
  BY <1>1, <1>3, <1>4, <1>5 DEF TypeOK, env, held

LEMMA ReconcilingType == ASSUME TypeOK, Reconciling PROVE TypeOK'
<1>1. CASE ReadAccount
  <2>1. Within(moves, faults)' /\ moves' \in Nat /\ faults' \in Nat
    BY <1>1, FaultWithin DEF ReadAccount, Unmoved, env
  <2> QED
    BY <1>1, <2>1 DEF ReadAccount, TypeOK, Unmoved, env, held, book
<1>2. CASE AccountFails
  <2>1. Within(moves, faults)' /\ moves' \in Nat /\ faults' \in Nat
    BY <1>2, FaultWithin DEF AccountFails, Unmoved, env
  <2>2. [journal EXCEPT !.exchange = "error"] \in Journals
    BY DEF TypeOK
  <2>3. HistoryOK'
    BY <1>2, CarryOverFacts DEF AccountFails
  <2> QED
    BY <1>2, <2>1, <2>2, <2>3, FinishedType
    DEF AccountFails, Errored, TypeOK, Unmoved, env, held, HistoryOK, Sightings
<1>3. CASE RunEnds
  <2>1. Within(moves, faults)' /\ moves' \in Nat /\ faults' \in Nat
    BY <1>3, FaultWithin DEF RunEnds, Unmoved, env
  <2>2. Report \in Journals
    BY DEF Report
  <2> QED
    BY <1>3, <2>1, <2>2 DEF RunEnds, TypeOK, Unmoved, env, held, book
<1> QED
  BY <1>1, <1>2, <1>3, CheckPairsType, CheckSymbolType, CheckFuturesType DEF Reconciling

-----------------------------------------------------------------------------
(* The evidence of a force-close                                           *)

\* Streaks count sightings, and open states and components have positions.
Evidence ==
    /\ \A s \in Strategies : st[s] # None =>
          /\ st[s].in => row[s] # None
          /\ sights[s] + carried[s] >= st[s].streak
    /\ \A s \in Strategies : mem[s] # None => (mem[s].in => mem[s].pos # None)
    /\ pc = "persist" => mem[who] # None

IInv == TypeOK /\ Evidence

\* The components a tick leaves are there to be persisted.
Ready == pc = "persist" => mem[who] # None

LEMMA InitHolds == Init => IInv
<1>1. \E b \in Budgets : 0 <= b[1] /\ 0 <= b[2]
  OBVIOUS
<1> SUFFICES ASSUME Init PROVE IInv
  OBVIOUS
<1>2. TypeOK
  <2>1. Within(moves, faults) /\ moves \in Nat /\ faults \in Nat
    BY <1>1 DEF Init, Within
  <2>2. journal \in Journals
    BY DEF Init, Report
  <2>3. asset \in 0..MaxHeld /\ fut \in (-MaxHeld)..MaxHeld /\ seen \in 0..MaxHeld
    BY DEF Init
  <2>4. since \in [Strategies -> 0..CyclesPerTick] /\ HistoryOK
    BY DEF Init, HistoryOK, Sightings
  <2>5. /\ row \in [Strategies -> Positions \cup {None}]
        /\ st \in [Strategies -> States \cup {None}]
        /\ mem \in [Strategies -> Caches \cup {None}]
    BY DEF Init
  <2>6. net \in Int /\ pc = "idle" /\ who = None
    BY DEF Init
  <2>8. [enabled |-> enabled, faults |-> kinds] \in Profiles
    <3>1. PICK p \in Profiles : enabled = p.enabled /\ kinds = p.faults
      BY DEF Init
    <3>2. p = [enabled |-> p.enabled, faults |-> p.faults]
      BY StrategyAssumption
    <3> QED
      BY <3>1, <3>2
  <2>7. order \in BOOLEAN
    BY DEF Init
  <2> QED
    BY <2>1, <2>2, <2>3, <2>4, <2>5, <2>6, <2>7, <2>8 DEF TypeOK, HistoryOK, Sightings
<1>3. Evidence
  BY DEF Init, Evidence
<1> QED
  BY <1>2, <1>3 DEF IInv

LEMMA TypeInductive == ASSUME TypeOK, Ready, [Next]_vars PROVE TypeOK'
<1>1. CASE \E s \in Strategies : Tick(s) \/ Age(s) \/ OperatorResets(s)
  BY <1>1, TickType, AgeType, WorkerType
<1>2. CASE Persist \/ PersistFails
  <2>1. pc = "persist" /\ mem[who] # None
    BY <1>2 DEF Persist, PersistFails, Ready
  <2> QED
    BY <1>2, <2>1, PersistType
<1>3. CASE Recycle \/ Crash
  BY <1>3, WorkerType
<1>4. CASE AccountMoves
  BY <1>4, MoveType
<1>5. CASE Reconciling
  BY <1>5, ReconcilingType
<1>6. CASE UNCHANGED vars
  BY <1>6 DEF vars, env, held, book, run, TypeOK, Within
<1> QED
  BY <1>1, <1>2, <1>3, <1>4, <1>5, <1>6 DEF Next

LEMMA ReadyInductive == ASSUME TypeOK, Ready, [Next]_vars PROVE Ready'
<1>1. ASSUME NEW s \in Strategies, Tick(s) PROVE Ready'
  <2>1. PICK m \in {mem[s], Restored(s), Fresh} \ {None} :
          Hold(s, m) \/ Close(s, m) \/ \E q \in Sizes : Open(s, m, q)
    BY <1>1 DEF Tick
  <2>2. PICK p \in Caches : Ticks(s, m, p)
    <3>1. Fresh \in Caches /\ m \in Caches
      BY ComponentsType DEF Fresh
    <3>2. \A q \in Sizes : [pos |-> [size |-> q, old |-> FALSE], in |-> TRUE] \in Caches
      OBVIOUS
    <3> QED
      BY <2>1, <3>1, <3>2 DEF Hold, Close, Open
  <2>3. mem' = [mem EXCEPT ![s] = p] /\ who' = s /\ p # None
    BY <2>2, NoneAssumption DEF Ticks
  <2> QED
    BY <2>3 DEF Ready, TypeOK
<1>2. ASSUME NEW s \in Strategies, Age(s) PROVE Ready'
  <2>1. /\ pc' = pc /\ who' = who
        /\ mem' = [mem EXCEPT ![s] = IF @ = None THEN None ELSE [@ EXCEPT !.pos = Aged(mem[s].pos)]]
    BY <1>2 DEF Age, run
  <2>2. mem[s] # None => [mem[s] EXCEPT !.pos = Aged(mem[s].pos)] # None
    BY AgedType, NoneAssumption DEF TypeOK
  <2> QED
    BY <2>1, <2>2 DEF Ready, TypeOK
<1>3. CASE Persist \/ PersistFails \/ Recycle \/ Crash
  BY <1>3 DEF Persist, PersistFails, Recycle, Crash, Idle, run, Ready
<1>4. CASE AccountMoves \/ (\E s \in Strategies : OperatorResets(s)) \/ UNCHANGED vars
  BY <1>4 DEF AccountMoves, Move, Bought, SoldElsewhere, Deposited, Withdrawn, FuturesClosed,
              OrderPlaced, OrderEnds, Untouched, OperatorResets, vars, run, Ready
<1>5. CASE Reconciling
  BY <1>5 DEF Reconciling, CheckPairs, ReadAccount, AccountFails, CheckSymbol, SizesAgree,
              DeferForOrder, DeferForEvidence, ForceClose, Adopt, OwnerUnknown, Unexplained,
              Resize, CheckFutures, RunEnds, Checked, Errored, Finished, Ready
<1> QED
  BY <1>1, <1>2, <1>3, <1>4, <1>5 DEF Next

LEMMA TickEvidence ==
  ASSUME IInv, NEW s \in Strategies, Tick(s) PROVE Evidence'
<1> USE DEF IInv
<1>1. PICK m \in {mem[s], Restored(s), Fresh} \ {None} :
        Hold(s, m) \/ Close(s, m) \/ \E q \in Sizes : Open(s, m, q)
  BY DEF Tick
<1>2. m \in Caches
  BY <1>1, ComponentsType
<1>3. m.in => m.pos # None
  <2>1. mem[s] # None => (mem[s].in => mem[s].pos # None)
    BY DEF Evidence
  <2>2. Restored(s).in => Restored(s).pos # None
    <3>1. st[s] # None /\ st[s].in => row[s] # None
      BY DEF Evidence
    <3>2. Restored(s).in = (st[s] # None /\ st[s].in) /\ Restored(s).pos = row[s]
      BY DEF Restored
    <3> QED
      BY <3>1, <3>2
  <2>3. ~Fresh.in
    BY DEF Fresh
  <2> QED
    BY <1>1, <2>1, <2>2, <2>3
<1>4. PICK p \in Caches : Ticks(s, m, p) /\ (p.in => p.pos # None)
  <2>1. CASE Hold(s, m)
    BY <1>2, <1>3, <2>1 DEF Hold
  <2>2. CASE Close(s, m)
    <3>1. Fresh \in Caches /\ ~Fresh.in
      BY DEF Fresh
    <3> QED
      BY <2>2, <3>1 DEF Close
  <2>3. ASSUME NEW q \in Sizes, Open(s, m, q)
        PROVE  \E p \in Caches : Ticks(s, m, p) /\ (p.in => p.pos # None)
    <3>1. [size |-> q, old |-> FALSE] \in Positions
      OBVIOUS
    <3> DEFINE p == [pos |-> [size |-> q, old |-> FALSE], in |-> TRUE]
    <3>2. p \in Caches /\ p.pos # None
      BY <3>1, NoneAssumption
    <3> QED
      BY <2>3, <3>2 DEF Open
  <2> QED
    BY <1>1, <2>1, <2>2, <2>3
<1>5. /\ mem' = [mem EXCEPT ![s] = p] /\ who' = s
      /\ row' = row /\ st' = st /\ sights' = sights /\ carried' = carried
  BY <1>4 DEF Ticks, book
<1>6. p # None
  BY <1>4, NoneAssumption
<1> QED
  BY <1>4, <1>5, <1>6 DEF Evidence, TypeOK

LEMMA PersistEvidence == ASSUME IInv, Persist \/ PersistFails PROVE Evidence'
<1> USE DEF IInv
<1>1. who \in Strategies /\ mem[who] # None /\ mem[who] \in Caches
  BY DEF Persist, PersistFails, Evidence, TypeOK
<1>2. mem[who].in => mem[who].pos # None
  BY <1>1 DEF Evidence
<1>3. CASE Persist
  <2>1. /\ pc' = "idle" /\ mem' = mem
        /\ row' = [row EXCEPT ![who] = mem[who].pos]
        /\ st' = [st EXCEPT ![who] = [in |-> mem[who].in, streak |-> 0, latched |-> Latched(who)]]
        /\ sights' = [sights EXCEPT ![who] = IF mem[who].pos = None \/ row[who] = None
                                             THEN 0 ELSE sights[who]]
        /\ carried' = [carried EXCEPT ![who] = 0]
    BY <1>3 DEF Persist
  <2>2. st'[who].in = mem[who].in /\ st'[who].streak = 0 /\ row'[who] = mem[who].pos
    BY <1>1, <2>1 DEF TypeOK
  <2>3. sights'[who] + carried'[who] >= 0
    BY <1>1, <2>1 DEF TypeOK
  <2>4. ASSUME NEW s \in Strategies, s # who
        PROVE  st'[s] = st[s] /\ row'[s] = row[s] /\ sights'[s] = sights[s] /\ carried'[s] = carried[s]
    BY <2>1, <2>4 DEF TypeOK
  <2> QED
    BY <1>2, <2>1, <2>2, <2>3, <2>4 DEF Evidence
<1>4. CASE PersistFails /\ UNCHANGED book
  <2>1. mem' = mem /\ pc' = "idle"
    BY <1>4 DEF PersistFails
  <2> QED
    BY <1>4, <2>1 DEF book, Evidence
<1>5. CASE PersistFails /\ ~UNCHANGED book
  <2>1. /\ pc' = "idle" /\ mem' = mem /\ mem[who].pos = None
        /\ row' = [row EXCEPT ![who] = None] /\ CarryOver({who})
        /\ st' = IF st[who] # None /\ st[who].in THEN [st EXCEPT ![who].in = mem[who].in] ELSE st
    BY <1>5 DEF PersistFails
  <2>2. ASSUME NEW s \in Strategies, st'[s] # None
        PROVE  /\ st[s] # None /\ st'[s].streak = st[s].streak
               /\ st'[s].in => row'[s] # None
    <3>1. CASE s = who /\ st[who] # None /\ st[who].in
      <4>1. st[who] \in States
        BY <1>1, <3>1 DEF TypeOK
      <4>2. st'[who] = [st[who] EXCEPT !.in = mem[who].in]
        BY <1>1, <2>1, <3>1 DEF TypeOK
      <4>3. st'[who].in = mem[who].in /\ st'[who].streak = st[who].streak
        BY <4>1, <4>2
      <4> QED
        BY <1>2, <2>1, <3>1, <4>3
    <3>2. CASE ~(s = who /\ st[who] # None /\ st[who].in)
      <4>1. st'[s] = st[s]
        BY <1>1, <2>1, <3>2 DEF TypeOK
      <4>2. s = who => ~st[s].in
        BY <2>2, <3>2, <4>1
      <4>3. s # who => row'[s] = row[s]
        BY <2>1 DEF TypeOK
      <4> QED
        BY <2>2, <4>1, <4>2, <4>3 DEF Evidence
    <3> QED
      BY <3>1, <3>2
  <2>3. ASSUME NEW s \in Strategies, st'[s] # None
        PROVE  sights'[s] + carried'[s] >= st'[s].streak
    <3>1. st[s] # None /\ st'[s].streak = st[s].streak
      BY <2>2, <2>3
    <3>2. st[s].streak \in 0..MinCycles /\ sights[s] + carried[s] >= st[s].streak
      BY <3>1 DEF TypeOK, Evidence
    <3> QED
      BY <2>1, <3>1, <3>2, CarryOverFacts
  <2> QED
    BY <2>1, <2>2, <2>3 DEF Evidence
<1> QED
  BY <1>3, <1>4, <1>5

LEMMA CheckPairsEvidence == ASSUME IInv, CheckPairs PROVE Evidence'
<1> USE DEF IInv
<1> DEFINE drop == {s \in enabled : RowOrphan(s)}
           reset == {s \in enabled : StateOrphan(s)}
<1>1. /\ pc' = "account" /\ mem' = mem
      /\ row' = [s \in Strategies |-> IF s \in drop THEN None ELSE row[s]]
      /\ st' = [s \in Strategies |-> IF s \in reset THEN [st[s] EXCEPT !.in = FALSE] ELSE st[s]]
      /\ CarryOver(drop)
  BY DEF CheckPairs
<1>2. ASSUME NEW s \in Strategies PROVE s \notin reset
  BY DEF StateOrphan, Evidence
<1>3. ASSUME NEW s \in Strategies, s \in drop, st[s] # None
      PROVE  ~st[s].in
  BY <1>3 DEF RowOrphan, Evidence
<1> HIDE DEF drop, reset
<1>4. ASSUME NEW s \in Strategies, st'[s] # None
      PROVE  st'[s] = st[s] /\ sights'[s] + carried'[s] >= st[s].streak
  <2>1. st'[s] = st[s]
    BY <1>1, <1>2
  <2>2. st[s].streak \in 0..MinCycles /\ sights[s] + carried[s] >= st[s].streak
    BY <1>4, <2>1 DEF TypeOK, Evidence
  <2> QED
    BY <1>1, <2>1, <2>2, CarryOverFacts
<1> QED
  BY <1>1, <1>3, <1>4 DEF Evidence

LEMMA BumpedEvidence ==
  ASSUME IInv, NEW s \in Strategies, st[s] # None
  PROVE  /\ Bumped[s].in = st[s].in
         /\ Bumped[s].in => row[s] # None
         /\ Sighted[s] + carried[s] >= Bumped[s].streak
<1> USE DEF IInv
<1>1. st[s] \in States /\ sights[s] \in 0..MinCycles /\ carried[s] \in 0..MinCycles
  BY DEF TypeOK
<1>2. st[s].in => s \in Booked /\ row[s] # None
  BY DEF Evidence, Booked
<1>3. sights[s] + carried[s] >= st[s].streak
  BY DEF Evidence
<1>4. CASE st[s].in
  <2>1. Bumped[s] = [st[s] EXCEPT !.streak = Least(@ + 1, MinCycles)] /\ Sighted[s] = Least(sights[s] + 1, MinCycles)
    BY <1>2, <1>4 DEF Bumped, Involved, Recorded, Sighted
  <2>2. Bumped[s].in = st[s].in /\ Bumped[s].streak = Least(st[s].streak + 1, MinCycles)
    BY <1>1, <2>1
  <2>3. Sighted[s] + carried[s] >= Bumped[s].streak
    BY <1>1, <1>3, <2>1, <2>2 DEF Least
  <2> QED
    BY <1>2, <1>4, <2>2, <2>3
<1>5. CASE ~st[s].in
  <2>1. Bumped[s] = st[s]
    BY <1>5 DEF Bumped, Involved, Recorded
  <2>2. Sighted[s] >= sights[s] /\ Sighted[s] \in Int
    BY <1>1 DEF Sighted, Least
  <2>3. st[s].streak \in Int
    BY <1>1
  <2>4. Sighted[s] + carried[s] >= st[s].streak
    BY <1>1, <1>3, <2>2, <2>3
  <2> QED
    BY <1>5, <2>1, <2>4
<1> QED
  BY <1>4, <1>5

LEMMA SignOfLifeEvidence ==
  ASSUME IInv, SignOfLife, row' = row, mem' = mem, pc' # "persist" PROVE Evidence'
<1> USE DEF IInv
<1>1. ASSUME NEW s \in Strategies, st[s] # None
      PROVE  /\ [st[s] EXCEPT !.streak = 0] # None
             /\ [st[s] EXCEPT !.streak = 0].in => row[s] # None
             /\ [st[s] EXCEPT !.streak = 0].streak = 0
  <2>1. st[s] \in States
    BY <1>1 DEF TypeOK
  <2> QED
    BY <1>1, <2>1, NoneAssumption DEF Evidence
<1>2. \A s \in Strategies : sights'[s] + carried'[s] >= 0
  BY DEF SignOfLife
<1> QED
  BY <1>1, <1>2 DEF Evidence, SignOfLife

\* A step that carries sightings over leaves the evidence for the streaks it keeps.
LEMMA CarryOverEvidence ==
  ASSUME IInv, NEW S, CarryOver(S), mem' = mem, pc' # "persist",
         \A s \in Strategies : st'[s] # None =>
            /\ st[s] # None /\ st'[s].streak = st[s].streak
            /\ st'[s].in => row'[s] # None
  PROVE  Evidence'
<1> USE DEF IInv
<1>1. ASSUME NEW s \in Strategies, st'[s] # None
      PROVE  sights'[s] + carried'[s] >= st'[s].streak
  <2>1. st[s] # None /\ st'[s].streak = st[s].streak
    BY <1>1
  <2>2. st[s].streak \in 0..MinCycles /\ sights[s] + carried[s] >= st[s].streak
    BY <2>1 DEF TypeOK, Evidence
  <2> QED
    BY <2>1, <2>2, CarryOverFacts
<1> QED
  BY <1>1 DEF Evidence

LEMMA CheckSymbolEvidence == ASSUME IInv, CheckSymbol PROVE Evidence'
<1> USE DEF IInv
<1>1. CASE SizesAgree
  <2>1. pc' = "futures" /\ row' = row /\ mem' = mem
    BY <1>1 DEF SizesAgree, Checked
  <2>2. CASE Booked = {}
    <3>1. CarryOver(Strategies) /\ st' = st
      BY <1>1, <2>2 DEF SizesAgree
    <3> QED
      BY <2>1, <3>1, CarryOverEvidence DEF Evidence
  <2>3. CASE Booked # {}
    BY <1>1, <2>1, <2>3, SignOfLifeEvidence DEF SizesAgree
  <2> QED
    BY <2>2, <2>3
<1>2. CASE DeferForOrder
  BY <1>2, SignOfLifeEvidence DEF DeferForOrder, Checked
<1>3. CASE DeferForEvidence
  <2>1. /\ pc' = "futures" /\ row' = row /\ mem' = mem /\ st' = Bumped
        /\ sights' = Sighted /\ carried' = carried
    BY <1>3 DEF DeferForEvidence, Checked
  <2>2. \A s \in Strategies : Bumped[s] # None => st[s] # None
    BY DEF Bumped, Involved, Recorded
  <2> QED
    BY <2>1, <2>2, BumpedEvidence DEF Evidence
<1>4. CASE ForceClose
  <2>1. /\ pc' = "futures"
        /\ row' = [s \in Strategies |-> None]
        /\ st' = [s \in Strategies |->
                    IF s \in Booked /\ st[s] # None /\ st[s].in
                    THEN [in |-> FALSE, streak |-> 0, latched |-> st[s].latched] ELSE Bumped[s]]
        /\ mem' = [s \in Strategies |-> IF s \in Booked THEN None ELSE mem[s]]
        /\ sights' = [s \in Strategies |-> 0]
        /\ carried' = [s \in Strategies |-> IF s \in Involved THEN 0 ELSE Counted(s)]
    BY <1>4 DEF ForceClose, Checked
  <2>2. ASSUME NEW s \in Strategies, st'[s] # None
        PROVE  ~st'[s].in /\ sights'[s] + carried'[s] >= st'[s].streak
    <3>1. CASE s \in Booked /\ st[s] # None /\ st[s].in
      <4>1. sights'[s] = 0 /\ carried'[s] = 0
        BY <2>1, <3>1 DEF Involved, Recorded
      <4>2. ~st'[s].in /\ st'[s].streak = 0
        BY <2>1, <3>1
      <4> QED
        BY <4>1, <4>2
    <3>2. CASE ~(s \in Booked /\ st[s] # None /\ st[s].in)
      <4>1. st'[s] = Bumped[s]
        BY <2>1, <3>2
      <4>2. st[s] # None
        BY <2>2, <4>1 DEF Bumped, Involved, Recorded
      <4>3. ~st[s].in
        BY <3>2, <4>2 DEF Evidence, Booked
      <4>4. st'[s] = st[s] /\ s \notin Involved
        BY <4>1, <4>3 DEF Bumped, Involved
      <4>5. sights'[s] = 0 /\ carried'[s] = Counted(s)
        BY <2>1, <4>4
      <4>6. /\ st[s].streak \in 0..MinCycles /\ sights[s] \in 0..MinCycles /\ carried[s] \in 0..MinCycles
            /\ sights[s] + carried[s] >= st[s].streak
        BY <4>2 DEF TypeOK, Evidence
      <4>7. 0 + Counted(s) >= st[s].streak
        BY <4>6 DEF Counted, Least
      <4> QED
        BY <4>3, <4>4, <4>5, <4>7
    <3> QED
      BY <3>1, <3>2
  <2> QED
    BY <2>1, <2>2 DEF Evidence
<1>5. CASE Adopt
  <2>1. /\ pc' = "futures" /\ mem' = mem /\ Booked = {}
        /\ st' = IF st[Owner] = None THEN st ELSE [st EXCEPT ![Owner].in = TRUE]
        /\ CarryOver(Strategies)
    BY <1>5 DEF Adopt, Checked, Untracked
  <2>2. PICK old \in BOOLEAN : row' = [row EXCEPT ![Owner] = [size |-> seen, old |-> old]]
    BY <1>5 DEF Adopt
  <2>3. [size |-> seen, old |-> old] # None
    BY NoneAssumption DEF TypeOK
  <2>4. \A s \in Strategies : st[s] # None => ~st[s].in
    BY <2>1 DEF Evidence, Booked
  <2>5. ASSUME NEW s \in Strategies, st'[s] # None, s # Owner
        PROVE  st'[s] = st[s]
    BY <2>1, <2>5 DEF TypeOK
  <2>6. ASSUME Owner \in Strategies, st'[Owner] # None
        PROVE  st[Owner] # None /\ row'[Owner] # None /\ st'[Owner].streak = st[Owner].streak
    <3>1. st[Owner] # None
      BY <2>1, <2>6 DEF TypeOK
    <3>2. st[Owner] \in States
      BY <2>6, <3>1 DEF TypeOK
    <3>3. st'[Owner] = [st[Owner] EXCEPT !.in = TRUE]
      BY <2>1, <2>6, <3>1 DEF TypeOK
    <3>4. st'[Owner].streak = st[Owner].streak
      BY <3>2, <3>3
    <3> QED
      BY <2>2, <2>3, <2>6, <3>1, <3>4 DEF TypeOK
  <2>7. ASSUME NEW s \in Strategies, st'[s] # None
        PROVE  /\ st[s] # None /\ st'[s].streak = st[s].streak
               /\ st'[s].in => row'[s] # None
    BY <2>4, <2>5, <2>6, <2>7
  <2> QED
    BY <2>1, <2>7, CarryOverEvidence
<1>6. CASE OwnerUnknown
  <2>1. CarryOver(Strategies) /\ pc' = "report" /\ row' = row /\ st' = st /\ mem' = mem
    BY <1>6 DEF OwnerUnknown, Errored, Finished
  <2> QED
    BY <2>1, CarryOverEvidence DEF Evidence
<1>7. CASE Unexplained
  <2>1. CarryOver(Strategies) /\ pc' = "futures" /\ row' = row /\ st' = st /\ mem' = mem
    BY <1>7 DEF Unexplained, Checked
  <2> QED
    BY <2>1, CarryOverEvidence DEF Evidence
<1>8. ASSUME NEW r \in Strategies, Resize(r) PROVE Evidence'
  <2>1. PICK n \in Amounts : row' = [row EXCEPT ![r].size = n]
    BY <1>8 DEF Resize
  <2>2. row[r] \in Positions /\ n \in Int
    BY <1>8 DEF Resize, Booked, TypeOK, Amounts
  <2>3. \A s \in Strategies : row[s] # None => row'[s] # None
    BY <2>1, <2>2, NoneAssumption DEF TypeOK
  <2>4. CarryOver(Strategies) /\ pc' = "futures" /\ st' = st /\ mem' = mem
    BY <1>8 DEF Resize, Checked
  <2> QED
    BY <2>3, <2>4, CarryOverEvidence DEF Evidence
<1> QED
  BY <1>1, <1>2, <1>3, <1>4, <1>5, <1>6, <1>7, <1>8 DEF CheckSymbol

LEMMA OtherEvidence ==
  ASSUME IInv,
         \/ \E s \in Strategies : Age(s) \/ OperatorResets(s)
         \/ Recycle \/ Crash \/ AccountMoves
         \/ ReadAccount \/ AccountFails \/ CheckFutures \/ RunEnds
         \/ UNCHANGED vars
  PROVE  Evidence'
<1> USE DEF IInv
<1>1. ASSUME NEW s \in Strategies, Age(s) PROVE Evidence'
  <2>1. /\ row' = [row EXCEPT ![s] = Aged(@)]
        /\ mem' = [mem EXCEPT ![s] = IF @ = None THEN None ELSE [@ EXCEPT !.pos = Aged(mem[s].pos)]]
        /\ st' = st /\ sights' = sights /\ carried' = carried /\ pc' = pc /\ who' = who
    BY <1>1 DEF Age, run
  <2>2. \A r \in Strategies : row[r] # None => row'[r] # None
    BY <2>1, AgedType DEF TypeOK
  <2>3. ASSUME NEW r \in Strategies
        PROVE  /\ mem'[r] # None <=> mem[r] # None
               /\ mem'[r] # None => /\ mem'[r].in = mem[r].in
                                    /\ mem[r].pos # None => mem'[r].pos # None
    <3>1. CASE r = s /\ mem[s] # None
      <4>1. mem[s] \in Caches /\ Aged(mem[s].pos) \in Positions \cup {None}
        BY <3>1, AgedType DEF TypeOK
      <4>2. [mem[s] EXCEPT !.pos = Aged(mem[s].pos)] \in Caches
        BY <4>1
      <4>3. mem'[s] = [mem[s] EXCEPT !.pos = Aged(mem[s].pos)]
        BY <2>1, <3>1 DEF TypeOK
      <4>4. mem'[s].in = mem[s].in /\ mem'[s].pos = Aged(mem[s].pos)
        BY <4>1, <4>3
      <4>5. mem[s].pos # None => Aged(mem[s].pos) # None
        BY <4>1, AgedType
      <4> QED
        BY <3>1, <4>2, <4>3, <4>4, <4>5, NoneAssumption
    <3>2. CASE ~(r = s /\ mem[s] # None)
      BY <2>1, <3>2 DEF TypeOK
    <3> QED
      BY <3>1, <3>2
  <2>4. pc = "persist" => who \in Strategies
    BY DEF TypeOK
  <2> QED
    BY <2>1, <2>2, <2>3, <2>4 DEF Evidence
<1>2. ASSUME NEW s \in Strategies, OperatorResets(s) PROVE Evidence'
  <2>1. /\ st[s] \in States /\ st' = [st EXCEPT ![s].latched = FALSE]
        /\ row' = row /\ sights' = sights /\ carried' = carried /\ mem' = mem /\ pc' = pc /\ who' = who
    BY <1>2 DEF OperatorResets, Latched, TypeOK, run
  <2>2. ASSUME NEW r \in Strategies, st'[r] # None
        PROVE  st[r] # None /\ st'[r].in = st[r].in /\ st'[r].streak = st[r].streak
    BY <2>1, <2>2, NoneAssumption DEF TypeOK
  <2> QED
    BY <2>1, <2>2 DEF Evidence
<1>3. CASE Recycle
  BY <1>3 DEF Recycle, Forget, book, run, Idle, Evidence
<1>4. CASE Crash
  BY <1>4 DEF Crash, Forget, book, Evidence
<1>5. CASE AccountMoves
  <2>1. Untouched
    BY <1>5 DEF AccountMoves, Move, Bought, SoldElsewhere, Deposited, Withdrawn,
                FuturesClosed, OrderPlaced, OrderEnds
  <2> QED
    BY <2>1 DEF Untouched, book, run, Evidence
<1>6. CASE ReadAccount
  BY <1>6 DEF ReadAccount, book, Evidence
<1>7. CASE AccountFails
  <2>1. CarryOver(Strategies) /\ pc' = "report" /\ row' = row /\ st' = st /\ mem' = mem
    BY <1>7 DEF AccountFails, Errored, Finished
  <2> QED
    BY <2>1, CarryOverEvidence DEF Evidence
<1>8. CASE RunEnds
  BY <1>8 DEF RunEnds, book, Evidence
<1>9. CASE CheckFutures
  <2>1. /\ pc' = "report" /\ row' = row /\ sights' = sights /\ carried' = carried /\ mem' = mem
        /\ \A s \in Strategies : st'[s] = st[s] \/ (st[s] # None /\ st'[s] = [st[s] EXCEPT !.latched = TRUE])
    BY <1>9 DEF CheckFutures, Finished
  <2>2. ASSUME NEW r \in Strategies, st'[r] # None
        PROVE  st[r] # None /\ st'[r].in = st[r].in /\ st'[r].streak = st[r].streak
    BY <2>1, <2>2 DEF TypeOK
  <2> QED
    BY <2>1, <2>2 DEF Evidence
<1>10. CASE UNCHANGED vars
  BY <1>10 DEF vars, book, run, Evidence
<1> QED
  BY <1>1, <1>2, <1>3, <1>4, <1>5, <1>6, <1>7, <1>8, <1>9, <1>10

LEMMA Inductive == ASSUME IInv, [Next]_vars PROVE IInv'
<1>1. TypeOK /\ Ready
  BY DEF IInv, Evidence, Ready
<1>2. TypeOK'
  BY <1>1, TypeInductive
<1>3. Evidence'
  BY TickEvidence, PersistEvidence, CheckPairsEvidence, CheckSymbolEvidence, OtherEvidence
     DEF Next, Reconciling
<1> QED
  BY <1>2, <1>3 DEF IInv

\* The account, the rows, the cache and the report keep their types for every
\* set of strategies, sizes and thresholds, and whatever fails.
THEOREM TypeCorrect == Spec => []TypeOK
<1>1. IInv => TypeOK
  BY DEF IInv
<1> QED
  BY <1>1, InitHolds, Inductive, PTL DEF Spec

LEMMA CloseOnEvidence ==
  ASSUME IInv, [Next]_vars, pc = "symbol", NEW b \in Booked, row'[b] = None
  PROVE  /\ seen = 0 /\ ~order /\ \A s \in Booked : row[s].old
         /\ Involved = {} \/ \E s \in Booked : sights[s] + carried[s] + 1 >= MinCycles
<1> USE DEF IInv
<1>1. b \in Strategies /\ row[b] # None
  BY DEF Booked
<1>2. ~UNCHANGED row
  BY <1>1
<1>3. ForceClose
  <2>1. \A s \in Strategies : ~Tick(s) /\ ~OperatorResets(s)
    BY DEF Tick, Hold, Open, Close, Ticks, Idle, OperatorResets
  <2>2. \A s \in Strategies : ~Age(s)
    <3>1. ASSUME NEW s \in Strategies, Age(s) PROVE row'[b] # None
      BY <1>1, <3>1, AgedType DEF Age, TypeOK
    <3> QED
      BY <3>1
  <2>3. ~Persist /\ ~PersistFails /\ ~Recycle /\ ~Crash
    BY DEF Persist, PersistFails, Recycle, Crash, Idle
  <2>4. ~AccountMoves
    BY <1>2 DEF AccountMoves, Move, Bought, SoldElsewhere, Deposited, Withdrawn,
                FuturesClosed, OrderPlaced, OrderEnds, Untouched, book
  <2>5. ~CheckPairs /\ ~ReadAccount /\ ~AccountFails /\ ~CheckFutures /\ ~RunEnds
    BY DEF CheckPairs, ReadAccount, AccountFails, CheckFutures, RunEnds, Idle
  <2>6. ~SizesAgree /\ ~DeferForOrder /\ ~DeferForEvidence /\ ~OwnerUnknown /\ ~Unexplained /\ ~Adopt
    BY <1>2 DEF SizesAgree, DeferForOrder, DeferForEvidence, OwnerUnknown, Unexplained, book,
                Adopt, Untracked
  <2>7. \A r \in Strategies : ~Resize(r)
    <3>1. ASSUME NEW r \in Strategies, Resize(r) PROVE row'[b] # None
      <4>1. PICK n \in Amounts : row' = [row EXCEPT ![r].size = n]
        BY <3>1 DEF Resize
      <4>2. row[r] \in Positions /\ n \in Int
        BY <3>1 DEF Resize, Booked, TypeOK, Amounts
      <4> QED
        BY <1>1, <4>1, <4>2, NoneAssumption DEF TypeOK
    <3> QED
      BY <3>1
  <2> QED
    BY <1>2, <2>1, <2>2, <2>3, <2>4, <2>5, <2>6, <2>7 DEF Next, Reconciling, CheckSymbol, vars, book
<1>4. seen = 0 /\ ~order /\ \A s \in Booked : row[s].old
  BY <1>3 DEF ForceClose, Orphaned, Convicted
<1>5. CASE Involved # {}
  <2>1. PICK s \in Involved : Bumped[s].streak >= MinCycles
    BY <1>3, <1>5 DEF ForceClose, Convicted
  <2>2. s \in Strategies /\ st[s] # None /\ st[s].in /\ st[s] \in States /\ sights[s] \in 0..MinCycles /\ carried[s] \in 0..MinCycles
    BY DEF Involved, Recorded, TypeOK
  <2>3. s \in Booked
    BY <2>2 DEF Evidence, Booked
  <2>4. Bumped[s] = [st[s] EXCEPT !.streak = Least(@ + 1, MinCycles)]
    BY <2>1, <2>2 DEF Bumped
  <2>5. Least(st[s].streak + 1, MinCycles) >= MinCycles
    BY <2>1, <2>2, <2>4
  <2>6. sights[s] + carried[s] >= st[s].streak
    BY <2>2 DEF Evidence
  <2>7. sights[s] + carried[s] + 1 >= MinCycles
    BY <2>2, <2>5, <2>6 DEF Least
  <2> QED
    BY <1>4, <2>3, <2>7
<1> QED
  BY <1>4, <1>5

\* The exchange check force-closes a row only when the balance was zero, no
\* order was open, every row was past the grace period and one of them had been
\* an orphan in force_close_min_cycles runs, in a row but for those the streak
\* has carried over: for all thresholds, strategies and account moves, and
\* whatever fails.
THEOREM ForceCloseOnEvidence == Spec => ForceCloseJustified
<1>1. ASSUME IInv, [Next]_vars
      PROVE  [pc = "symbol" /\ (\E s \in Booked : row'[s] = None) =>
                /\ seen = 0 /\ ~order /\ \A s \in Booked : row[s].old
                /\ Involved = {} \/ \E s \in Booked : sights[s] + carried[s] + 1 >= MinCycles]_vars
  BY <1>1, CloseOnEvidence
<1> QED
  BY <1>1, InitHolds, Inductive, PTL DEF Spec, ForceCloseJustified

-----------------------------------------------------------------------------
(* Sums over a finite set of strategies                                    *)

\* The least-number principle, from the library's theorem on minimal elements
\* of well-founded relations.
LEMMA LeastOf == ASSUME NEW S \in SUBSET Nat, S # {} PROVE \E m \in S : \A x \in S : m <= x
<1> DEFINE R == {ss \in Nat \X Nat : ss[1] < ss[2]}
<1>1. IsWellFoundedOn(R, Nat)
  BY NatLessThanWellFounded DEF OpToRel
<1>2. \A x, y \in Nat : <<x, y>> \in R <=> x < y
  OBVIOUS
<1> HIDE DEF R
<1>3. PICK m \in S : \A y \in S : ~(<<y, m>> \in R)
  BY <1>1, WFMin
<1>4. \A y \in S : ~(y < m)
  BY <1>2, <1>3
<1> QED
  BY <1>4

\* Induction up an interval, over the set of the numbers shown so far.
LEMMA Upward ==
  ASSUME NEW n \in Nat, NEW G, 0 \in G, \A k \in 1..n : k - 1 \in G => k \in G
  PROVE  \A k \in 0..n : k \in G
<1> DEFINE Bad == {k \in 0..n : k \notin G}
<1>1. SUFFICES ASSUME Bad # {} PROVE FALSE
  OBVIOUS
<1>2. Bad \in SUBSET Nat
  OBVIOUS
<1>3. PICK m \in Bad : \A x \in Bad : m <= x
  <2> HIDE DEF Bad
  <2> QED
    BY <1>1, <1>2, LeastOf
<1>4. m \in 1..n /\ m \notin G
  BY <1>3
<1>5. m - 1 \in 0..n /\ ~(m <= m - 1)
  BY <1>4
<1>6. m - 1 \notin Bad
  BY <1>3, <1>5
<1> QED
  BY <1>4, <1>5, <1>6

\* f adds up, for each subset of B, the sizes of its rows.
Adds(r, f, B) ==
    /\ f \in [SUBSET B -> Int]
    /\ \A U \in SUBSET B : f[U] = IF U = {} THEN 0
                                  ELSE LET x == CHOOSE x \in U : TRUE IN r[x].size + f[U \ {x}]

\* Removing what CHOOSE takes makes a finite set smaller.
LEMMA OneLess ==
  ASSUME NEW B, IsFiniteSet(B), NEW U \in SUBSET B
  PROVE  /\ IsFiniteSet(U) /\ Cardinality(U) \in 0..Cardinality(B)
         /\ \A x \in U : U \ {x} \in SUBSET B /\ Cardinality(U \ {x}) = Cardinality(U) - 1
         /\ U # {} => (CHOOSE x \in U : TRUE) \in U /\ Cardinality(U) > 0
<1>1. IsFiniteSet(U) /\ Cardinality(U) <= Cardinality(B) /\ Cardinality(B) \in Nat /\ Cardinality(U) \in Nat
  BY FS_Subset, FS_CardinalityType
<1>2. \A x \in U : Cardinality(U \ {x}) = Cardinality(U) - 1
  BY <1>1, FS_RemoveElement
<1>3. U # {} => Cardinality(U) # 0
  BY <1>1, FS_EmptySet
<1> QED
  BY <1>1, <1>2, <1>3

\* A claim about the subsets of a finite set, by induction on their size.
LEMMA SubsetInduction ==
  ASSUME NEW B, IsFiniteSet(B), NEW G,
         \A U \in SUBSET B : (\A x \in U : U \ {x} \in G) => U \in G
  PROVE  \A U \in SUBSET B : U \in G
<1> DEFINE N == Cardinality(B)
           upTo == {n \in 0..N : \A U \in SUBSET B : Cardinality(U) <= n => U \in G}
<1>0. N \in Nat
  BY FS_CardinalityType
<1>1. 0 \in upTo
  <2> SUFFICES ASSUME NEW U \in SUBSET B, Cardinality(U) <= 0 PROVE U \in G
    BY <1>0
  <2>1. U = {}
    BY OneLess
  <2> QED
    BY <2>1
<1>2. ASSUME NEW n \in 1..N, n - 1 \in upTo PROVE n \in upTo
  <2> SUFFICES ASSUME NEW U \in SUBSET B, Cardinality(U) <= n PROVE U \in G
    BY <1>0
  <2>1. ASSUME NEW x \in U PROVE U \ {x} \in G
    <3>1. U \ {x} \in SUBSET B /\ Cardinality(U \ {x}) <= n - 1
      <4>1. Cardinality(U) \in 0..N /\ Cardinality(U \ {x}) = Cardinality(U) - 1 /\ U \ {x} \in SUBSET B
        BY OneLess
      <4> HIDE DEF N
      <4> QED
        BY <1>0, <4>1
    <3> QED
      BY <1>2, <3>1
  <2> QED
    BY <2>1
<1>3. \A n \in 0..N : n \in upTo
  <2> HIDE DEF upTo, N
  <2> QED
    BY <1>0, <1>1, <1>2, Upward
<1> QED
  BY <1>0, <1>3, OneLess

LEMMA AddsExists ==
  ASSUME NEW r, NEW B, IsFiniteSet(B), \A s \in B : r[s].size \in Int
  PROVE  \E f : Adds(r, f, B)
<1> DEFINE N == Cardinality(B)
           x(U) == CHOOSE x \in U : TRUE
           Right(f, U) == f[U] = IF U = {} THEN 0 ELSE r[x(U)].size + f[U \ {x(U)}]
           Good(n) == \E f \in [SUBSET B -> Int] : \A U \in SUBSET B : Cardinality(U) <= n => Right(f, U)
           G == {n \in 0..N : Good(n)}
<1>0. N \in Nat
  BY FS_CardinalityType
<1>1. Good(0)
  <2> DEFINE f == [U \in SUBSET B |-> 0]
  <2>1. f \in [SUBSET B -> Int]
    OBVIOUS
  <2>2. \A U \in SUBSET B : Cardinality(U) <= 0 => U = {}
    BY OneLess
  <2>3. \A U \in SUBSET B : Cardinality(U) <= 0 => Right(f, U)
    BY <2>2
  <2> QED
    BY <2>1, <2>3
<1>2. ASSUME NEW n \in 1..N, Good(n - 1) PROVE Good(n)
  <2>1. PICK f \in [SUBSET B -> Int] : \A U \in SUBSET B : Cardinality(U) <= n - 1 => Right(f, U)
    BY <1>2
  <2> DEFINE g == [U \in SUBSET B |-> IF Cardinality(U) <= n - 1 THEN f[U]
                                      ELSE r[x(U)].size + f[U \ {x(U)}]]
  <2>2. \A U \in SUBSET B : U # {} => x(U) \in U /\ x(U) \in B /\ U \ {x(U)} \in SUBSET B
                                      /\ Cardinality(U \ {x(U)}) = Cardinality(U) - 1
    BY OneLess
  <2>3. \A U \in SUBSET B : Cardinality(U) \in Nat /\ (U = {} => Cardinality(U) = 0)
    <3>1. \A U \in SUBSET B : Cardinality(U) \in 0..N
      BY OneLess
    <3>2. Cardinality({}) = 0
      BY FS_EmptySet
    <3> HIDE DEF N
    <3>3. \A U \in SUBSET B : Cardinality(U) \in Nat
      BY <3>1, <1>0
    <3> QED
      BY <3>2, <3>3
  <2>4. g \in [SUBSET B -> Int]
    <3> SUFFICES ASSUME NEW U \in SUBSET B PROVE g[U] \in Int
      OBVIOUS
    <3>1. CASE Cardinality(U) <= n - 1
      BY <3>1
    <3>2. CASE ~(Cardinality(U) <= n - 1)
      <4>1. U # {}
        BY <1>0, <2>3, <3>2
      <4>2. r[x(U)].size \in Int /\ f[U \ {x(U)}] \in Int
        BY <2>2, <4>1
      <4> QED
        BY <3>2, <4>2
    <3> QED
      BY <3>1, <3>2
  <2>5. ASSUME NEW U \in SUBSET B, Cardinality(U) <= n PROVE Right(g, U)
    <3>1. CASE Cardinality(U) <= n - 1
      <4>1. Right(f, U) /\ g[U] = f[U]
        BY <2>1, <3>1
      <4>2. U # {} => g[U \ {x(U)}] = f[U \ {x(U)}]
        <5> SUFFICES ASSUME U # {} PROVE g[U \ {x(U)}] = f[U \ {x(U)}]
          OBVIOUS
        <5>1. U \ {x(U)} \in SUBSET B /\ Cardinality(U \ {x(U)}) = Cardinality(U) - 1
          BY <2>2
        <5>2. Cardinality(U \ {x(U)}) <= n - 1
          BY <1>0, <2>3, <3>1, <5>1
        <5> QED
          BY <5>1, <5>2
      <4> QED
        BY <4>1, <4>2
    <3>2. CASE ~(Cardinality(U) <= n - 1)
      <4>1. U # {}
        BY <1>0, <2>3, <3>2
      <4>2. g[U] = r[x(U)].size + f[U \ {x(U)}]
        BY <3>2
      <4>3. U \ {x(U)} \in SUBSET B /\ Cardinality(U \ {x(U)}) = Cardinality(U) - 1
        BY <2>2, <4>1
      <4>4. Cardinality(U \ {x(U)}) <= n - 1
        BY <1>0, <2>3, <2>5, <4>3
      <4>5. g[U \ {x(U)}] = f[U \ {x(U)}]
        BY <4>3, <4>4
      <4> QED
        BY <4>1, <4>2, <4>5
    <3> QED
      BY <3>1, <3>2
  <2> QED
    BY <2>4, <2>5
<1> HIDE DEF Good
<1>3. \A n \in 0..N : n \in G
  <2>1. 0 \in G /\ \A n \in 1..N : n - 1 \in G => n \in G
    BY <1>0, <1>1, <1>2
  <2> HIDE DEF G, N
  <2> QED
    BY <1>0, <2>1, Upward
<1>4. Good(N)
  BY <1>0, <1>3
<1>5. PICK f \in [SUBSET B -> Int] : \A U \in SUBSET B : Cardinality(U) <= N => Right(f, U)
  BY <1>4 DEF Good
<1>6. \A U \in SUBSET B : Right(f, U)
  BY <1>0, <1>5, OneLess
<1> QED
  BY <1>5, <1>6 DEF Adds

LEMMA AddsAgree ==
  ASSUME NEW r, NEW B, NEW f, Adds(r, f, B), IsFiniteSet(B),
         NEW q, NEW C, NEW g, Adds(q, g, C), B \subseteq C, \A s \in B : r[s].size = q[s].size
  PROVE  \A U \in SUBSET B : f[U] = g[U]
<1> DEFINE G == {U \in SUBSET B : f[U] = g[U]}
<1>1. ASSUME NEW U \in SUBSET B, \A x \in U : U \ {x} \in G PROVE U \in G
  <2> DEFINE x == CHOOSE x \in U : TRUE
  <2>1. U \in SUBSET C
    OBVIOUS
  <2>2. CASE U = {}
    BY <2>1, <2>2 DEF Adds
  <2>3. CASE U # {}
    <3>1. x \in U /\ f[U \ {x}] = g[U \ {x}] /\ r[x].size = q[x].size
      BY <1>1, <2>3
    <3>2. f[U] = r[x].size + f[U \ {x}] /\ g[U] = q[x].size + g[U \ {x}]
      BY <2>1, <2>3 DEF Adds
    <3> QED
      BY <3>1, <3>2
  <2> QED
    BY <2>2, <2>3
<1>2. \A U \in SUBSET B : U \in G
  <2> HIDE DEF G
  <2> QED
    BY <1>1, SubsetInduction
<1> QED
  BY <1>2

\* The sum does not depend on the order.
LEMMA AddsAny ==
  ASSUME NEW r, NEW B, NEW f, Adds(r, f, B), IsFiniteSet(B), \A s \in B : r[s].size \in Int
  PROVE  \A U \in SUBSET B : \A y \in U : f[U] = r[y].size + f[U \ {y}]
<1> DEFINE G == {U \in SUBSET B : \A y \in U : f[U] = r[y].size + f[U \ {y}]}
<1>1. ASSUME NEW U \in SUBSET B, \A x \in U : U \ {x} \in G PROVE U \in G
  <2> SUFFICES ASSUME NEW y \in U PROVE f[U] = r[y].size + f[U \ {y}]
    OBVIOUS
  <2> DEFINE x == CHOOSE x \in U : TRUE
  <2>1. x \in U /\ f[U] = r[x].size + f[U \ {x}]
    BY DEF Adds
  <2> HIDE DEF x
  <2>2. CASE x = y
    BY <2>1, <2>2
  <2>3. CASE x # y
    <3>1. y \in U \ {x} /\ x \in U \ {y} /\ (U \ {x}) \ {y} = (U \ {y}) \ {x}
      BY <2>1, <2>3
    <3>2. f[U \ {x}] = r[y].size + f[(U \ {x}) \ {y}] /\ f[U \ {y}] = r[x].size + f[(U \ {y}) \ {x}]
      BY <1>1, <2>1, <3>1
    <3> DEFINE rest == f[(U \ {x}) \ {y}]
    <3>3. f[U \ {x}] = r[y].size + rest /\ f[U \ {y}] = r[x].size + rest
      BY <3>1, <3>2
    <3>4. rest \in Int /\ r[x].size \in Int /\ r[y].size \in Int
      BY <2>1 DEF Adds
    <3> HIDE DEF rest
    <3> QED
      BY <2>1, <3>3, <3>4
  <2> QED
    BY <2>2, <2>3
<1>2. \A U \in SUBSET B : U \in G
  <2> HIDE DEF G
  <2> QED
    BY <1>1, SubsetInduction
<1> QED
  BY <1>2

LEMMA TotalIsAdded ==
  ASSUME NEW r, NEW B, NEW f, Adds(r, f, B), IsFiniteSet(B)
  PROVE  Total(r, B) = f[B]
<1> DEFINE iter[U \in SUBSET B] == IF U = {} THEN 0
                                   ELSE LET x == CHOOSE x \in U : TRUE IN r[x].size + iter[U \ {x}]
<1>1. Total(r, B) = iter[B]
  BY DEF Total, MapThenSumSet, MapThenFoldSet
<1>2. f = [U \in SUBSET B |-> IF U = {} THEN 0
                              ELSE LET x == CHOOSE x \in U : TRUE IN r[x].size + f[U \ {x}]]
  BY DEF Adds
<1>3. iter = [U \in SUBSET B |-> IF U = {} THEN 0
                                 ELSE LET x == CHOOSE x \in U : TRUE IN r[x].size + iter[U \ {x}]]
  BY <1>2
<1> HIDE DEF iter
<1> DEFINE G == {U \in SUBSET B : iter[U] = f[U]}
<1>4. ASSUME NEW U \in SUBSET B, \A x \in U : U \ {x} \in G PROVE U \in G
  <2> DEFINE x == CHOOSE x \in U : TRUE
  <2>1. f[U] = IF U = {} THEN 0 ELSE r[x].size + f[U \ {x}]
    BY DEF Adds
  <2>2. iter[U] = IF U = {} THEN 0 ELSE r[x].size + iter[U \ {x}]
    BY <1>3
  <2>3. U # {} => x \in U
    OBVIOUS
  <2> HIDE DEF x
  <2> QED
    BY <1>4, <2>1, <2>2, <2>3
<1>5. \A U \in SUBSET B : U \in G
  <2> HIDE DEF G
  <2> QED
    BY <1>4, SubsetInduction
<1> QED
  BY <1>1, <1>5

\* What is known of the sum: nothing for no rows, one row more or less, equal
\* sizes, and that it is no less than one of the rows.
LEMMA TotalIs ==
  ASSUME NEW r, NEW B, IsFiniteSet(B), \A s \in B : r[s].size \in Int
  PROVE  /\ Total(r, B) \in Int
         /\ B = {} => Total(r, B) = 0
         /\ \A y \in B : Total(r, B) = r[y].size + Total(r, B \ {y})
         /\ \A q : (\A s \in B : q[s].size = r[s].size) => Total(q, B) = Total(r, B)
<1>1. PICK f : Adds(r, f, B)
  BY AddsExists
<1>2. Total(r, B) = f[B]
  BY <1>1, TotalIsAdded
<1>3. f[B] \in Int /\ (B = {} => f[B] = 0)
  BY <1>1 DEF Adds
<1>4. ASSUME NEW y \in B PROVE f[B] = r[y].size + Total(r, B \ {y})
  <2>1. IsFiniteSet(B \ {y})
    BY FS_Subset
  <2>2. PICK g : Adds(r, g, B \ {y})
    BY <2>1, AddsExists
  <2>3. Total(r, B \ {y}) = g[B \ {y}]
    BY <2>1, <2>2, TotalIsAdded
  <2>4. g[B \ {y}] = f[B \ {y}]
    BY <1>1, <2>1, <2>2, AddsAgree
  <2>5. f[B] = r[y].size + f[B \ {y}]
    BY <1>1, AddsAny
  <2> QED
    BY <2>3, <2>4, <2>5
<1>5. ASSUME NEW q, \A s \in B : q[s].size = r[s].size PROVE Total(q, B) = f[B]
  <2>1. PICK g : Adds(q, g, B)
    BY <1>5, AddsExists
  <2>2. Total(q, B) = g[B]
    BY <2>1, TotalIsAdded
  <2>3. f[B] = g[B]
    BY <1>1, <1>5, <2>1, AddsAgree
  <2> QED
    BY <2>2, <2>3
<1> QED
  BY <1>2, <1>3, <1>4, <1>5

LEMMA TotalPositive ==
  ASSUME NEW r, NEW B, IsFiniteSet(B), \A s \in B : r[s].size \in Nat
  PROVE  Total(r, B) \in Nat /\ \A y \in B : r[y].size <= Total(r, B)
<1> DEFINE G == {U \in SUBSET B : Total(r, U) \in Nat}
<1>1. ASSUME NEW U \in SUBSET B, \A x \in U : U \ {x} \in G PROVE U \in G
  <2>1. IsFiniteSet(U)
    BY FS_Subset
  <2>2. CASE U = {}
    BY <2>1, <2>2, TotalIs
  <2>3. CASE U # {}
    <3>1. PICK x \in U : TRUE
      BY <2>3
    <3>2. \A s \in U : r[s].size \in Int
      OBVIOUS
    <3>3. Total(r, U) = r[x].size + Total(r, U \ {x})
      BY <2>1, <3>2, TotalIs
    <3>4. Total(r, U \ {x}) \in Nat /\ r[x].size \in Nat
      BY <1>1
    <3> QED
      BY <3>3, <3>4
  <2> QED
    BY <2>2, <2>3
<1>2. \A U \in SUBSET B : U \in G
  <2> HIDE DEF G
  <2> QED
    BY <1>1, SubsetInduction
<1>3. Total(r, B) \in Nat
  BY <1>2
<1>4. ASSUME NEW y \in B PROVE r[y].size <= Total(r, B)
  <2>1. \A s \in B : r[s].size \in Int
    OBVIOUS
  <2>2. Total(r, B) = r[y].size + Total(r, B \ {y})
    BY <2>1, TotalIs
  <2>3. Total(r, B \ {y}) \in Nat /\ r[y].size \in Nat
    BY <1>2
  <2> QED
    BY <2>2, <2>3
<1> QED
  BY <1>3, <1>4

-----------------------------------------------------------------------------
(* A healthy account                                                       *)

Weight(p) == IF p = None THEN 0 ELSE p.size

BookedIn(r) == {s \in Strategies : r[s] # None}

\* One row changes the sum by its weight.
LEMMA RowChange ==
  ASSUME NEW r \in [Strategies -> Positions \cup {None}], NEW p \in Positions \cup {None},
         NEW s \in Strategies
  PROVE  Total([r EXCEPT ![s] = p], BookedIn([r EXCEPT ![s] = p])) =
             Total(r, BookedIn(r)) - Weight(r[s]) + Weight(p)
<1> DEFINE q == [r EXCEPT ![s] = p]
           rest == BookedIn(r) \ {s}
<1>1. q \in [Strategies -> Positions \cup {None}] /\ q[s] = p /\ \A t \in Strategies \ {s} : q[t] = r[t]
  OBVIOUS
<1> HIDE DEF q
<1>2. rest = BookedIn(q) \ {s}
  BY <1>1 DEF BookedIn
<1>3. \A t : t \in [Strategies -> Positions \cup {None}] =>
          IsFiniteSet(BookedIn(t)) /\ \A u \in BookedIn(t) : t[u].size \in Int
  <2>1. \A t : BookedIn(t) \in SUBSET Strategies
    BY DEF BookedIn
  <2>2. \A t : IsFiniteSet(BookedIn(t))
    BY <2>1, StrategyAssumption, FS_Subset
  <2> QED
    BY <2>2 DEF BookedIn
<1>4. IsFiniteSet(rest) /\ (\A u \in rest : r[u].size \in Int /\ q[u].size = r[u].size) /\ s \notin rest
  <2>1. IsFiniteSet(rest)
    BY <1>3, FS_Subset
  <2>2. \A u \in rest : r[u].size \in Int /\ u \in Strategies \ {s}
    BY <1>3 DEF BookedIn
  <2> QED
    BY <1>1, <2>1, <2>2
<1>5. Total(q, rest) = Total(r, rest) /\ Total(r, rest) \in Int
  <2> HIDE DEF rest
  <2> QED
    BY <1>4, TotalIs
<1>6. ASSUME NEW t \in [Strategies -> Positions \cup {None}], rest = BookedIn(t) \ {s}
      PROVE  Total(t, BookedIn(t)) = Weight(t[s]) + Total(t, rest)
  <2>1. CASE t[s] = None
    <3>1. BookedIn(t) = rest /\ Weight(t[s]) = 0
      BY <1>6, <2>1 DEF BookedIn, Weight
    <3>2. Total(t, rest) \in Int
      BY <1>3, <3>1, TotalIs
    <3> QED
      BY <3>1, <3>2
  <2>2. CASE t[s] # None
    <3>1. s \in BookedIn(t) /\ Weight(t[s]) = t[s].size
      BY <2>2 DEF BookedIn, Weight
    <3> QED
      BY <1>3, <1>6, <3>1, TotalIs
  <2> QED
    BY <2>1, <2>2
<1>7. Total(q, BookedIn(q)) = Weight(p) + Total(r, rest)
  BY <1>1, <1>2, <1>5, <1>6
<1>8. Total(r, BookedIn(r)) = Weight(r[s]) + Total(r, rest)
  BY <1>6
<1>9. Weight(p) \in Int /\ Weight(r[s]) \in Int
  BY DEF Weight
<1>10. Total(q, BookedIn(q)) = Total(r, BookedIn(r)) - Weight(r[s]) + Weight(p)
  <2> HIDE DEF rest
  <2> QED
    BY <1>5, <1>7, <1>8, <1>9
<1> QED
  BY <1>10 DEF q

LEMMA LocalIs == Local = Total(row, BookedIn(row)) /\ Local' = Total(row', BookedIn(row'))
<1>1. Local = Total(row, Booked) /\ Local' = Total(row', Booked')
  BY DEF Local
<1>2. Booked = BookedIn(row) /\ Booked' = BookedIn(row')
  BY DEF Booked, BookedIn
<1> QED
  BY <1>1, <1>2

LEMMA RowChanged ==
  ASSUME TypeOK, NEW s \in Strategies, NEW p \in Positions \cup {None}, row' = [row EXCEPT ![s] = p]
  PROVE  Local' = Local - Weight(row[s]) + Weight(p)
<1>1. row \in [Strategies -> Positions \cup {None}]
  BY DEF TypeOK
<1> QED
  BY <1>1, LocalIs, RowChange

Undisturbed == moves = 0 /\ faults = 0 /\ enabled \cap Shorts = {}

\* Row, state and components of a pair tell the same; only the tick that has not
\* persisted yet is ahead of its row.
AgreedPair(s) ==
    /\ row[s] # None <=> st[s] # None /\ st[s].in
    /\ row[s] # None => s \in enabled /\ row[s].size > 0
    /\ mem[s] # None => /\ mem[s].in <=> mem[s].pos # None
                        /\ mem[s].pos # None => mem[s].pos.size > 0
                        /\ mem[s].pos = row[s] \/ (pc = "persist" /\ s = who)

\* The tick's order is in the balance before it is in the book.
Agreed ==
    /\ ~order /\ \A s \in Strategies : AgreedPair(s)
    /\ pc = "persist" => who \in enabled /\ mem[who] # None
    /\ asset = IF pc = "persist" THEN Local + Weight(mem[who].pos) - Weight(row[who]) ELSE Local
    /\ pc = "symbol" => seen = asset
    /\ journal.exchange \in {"none", "ok"} /\ ~journal.repaired

LEMMA LocalType ==
  ASSUME TypeOK
  PROVE  /\ Local \in Int
         /\ (\A s \in Strategies : row[s] # None => row[s].size > 0) =>
               Local \in Nat /\ \A s \in Strategies : Weight(row[s]) <= Local
<1>1. IsFiniteSet(Booked) /\ \A s \in Booked : row[s].size \in Int
  <2>1. Booked \in SUBSET Strategies
    BY DEF Booked
  <2> QED
    BY <2>1, StrategyAssumption, FS_Subset DEF Booked, TypeOK
<1>2. Local = Total(row, Booked)
  BY DEF Local
<1>3. Local \in Int
  BY <1>1, <1>2, TotalIs
<1>4. ASSUME \A s \in Strategies : row[s] # None => row[s].size > 0
      PROVE  Local \in Nat /\ \A s \in Strategies : Weight(row[s]) <= Local
  <2>1. \A s \in Booked : row[s].size \in Nat
    BY <1>1, <1>4 DEF Booked
  <2>2. Local \in Nat /\ \A s \in Booked : row[s].size <= Local
    BY <1>1, <1>2, <2>1, TotalPositive
  <2> QED
    BY <2>2 DEF Booked, Weight
<1> QED
  BY <1>3, <1>4

LEMMA AgreedInit == ASSUME Init PROVE Agreed
<1>1. Booked = {}
  BY DEF Init, Booked
<1>2. Local = 0
  <2>1. Local = Total(row, Booked)
    BY DEF Local
  <2>2. Total(row, {}) = 0
    BY TotalIs, FS_EmptySet
  <2> QED
    BY <1>1, <2>1, <2>2
<1> QED
  BY <1>2 DEF Init, Agreed, AgreedPair, Report

LEMMA NoFaults == ASSUME TypeOK, Undisturbed, Undisturbed' PROVE (\A f : ~Fault(f)) /\ ~Move
BY DEF TypeOK, Undisturbed, Fault, Move

LEMMA AgreedTick ==
  ASSUME TypeOK, Undisturbed, Undisturbed', Agreed, NEW s \in Strategies, Tick(s)
  PROVE  Agreed'
<1>1. PICK m \in {mem[s], Restored(s), Fresh} \ {None} :
        Hold(s, m) \/ Close(s, m) \/ \E q \in Sizes : Open(s, m, q)
  BY DEF Tick
<1>2. m \in Caches
  BY <1>1, ComponentsType
<1>3. /\ pc = "idle" /\ s \in enabled /\ asset = Local /\ Long(s) /\ Components(s, m)
  BY <1>1 DEF Hold, Close, Open, Ticks, Idle, Agreed, Undisturbed, Long
<1>4. m.pos = row[s] /\ (m.in <=> m.pos # None)
  <2>1. AgreedPair(s)
    BY DEF Agreed
  <2>2. IF mem[s] # None THEN m = mem[s] ELSE m = Restored(s)
    BY <1>3, NoFaults DEF Components
  <2>3. Restored(s).pos = row[s] /\ (Restored(s).in <=> st[s] # None /\ st[s].in)
    BY DEF Restored
  <2> QED
    BY <1>3, <2>1, <2>2, <2>3 DEF AgreedPair
<1>5. row[s] \in Positions \cup {None} /\ Local \in Nat /\ Weight(row[s]) <= Local /\ Weight(row[s]) \in Nat
  <2>1. \A t \in Strategies : row[t] # None => row[t].size > 0
    BY DEF Agreed, AgreedPair
  <2>2. row[s] \in Positions \cup {None}
    BY DEF TypeOK
  <2> QED
    BY <2>1, <2>2, LocalType DEF Weight
<1>6. ASSUME NEW p \in Caches, Ticks(s, m, p), p.in <=> p.pos # None, p.pos # None => p.pos.size > 0,
             asset' = asset + Weight(p.pos) - Weight(row[s])
      PROVE  Agreed'
  <2>1. /\ mem' = [mem EXCEPT ![s] = p] /\ pc' = "persist" /\ who' = s
        /\ UNCHANGED <<enabled, row, st, order, journal>>
    BY <1>6 DEF Ticks, env, book
  <2>2. p # None /\ mem'[s] = p
    BY <1>6, <2>1, NoneAssumption DEF TypeOK
  <2>3. Local' = Local
    BY <2>1, LocalIs
  <2>4. \A t \in Strategies : AgreedPair(t)'
    BY <1>3, <1>6, <2>1, <2>2 DEF Agreed, AgreedPair, TypeOK
  <2>5. asset' = Local' + Weight(mem'[who'].pos) - Weight(row'[who'])
    BY <1>3, <1>6, <2>1, <2>2, <2>3
  <2>6. Weight(mem[who].pos)' = Weight(mem'[who'].pos) /\ Weight(row[who])' = Weight(row'[who'])
    BY DEF Weight
  <2> QED
    BY <1>3, <2>1, <2>2, <2>4, <2>5, <2>6 DEF Agreed
<1>7. CASE Hold(s, m)
  <2>1. m.pos # None => m.pos.size > 0
    BY <1>4 DEF Agreed, AgreedPair
  <2>2. asset' = asset + Weight(m.pos) - Weight(row[s])
    BY <1>3, <1>4, <1>5, <1>7 DEF Hold
  <2> QED
    BY <1>2, <1>4, <1>6, <1>7, <2>1, <2>2 DEF Hold
<1>8. CASE Close(s, m)
  <2>1. Fresh \in Caches /\ ~Fresh.in /\ Fresh.pos = None /\ Weight(Fresh.pos) = 0
    BY DEF Fresh, Weight
  <2>2. m.pos # None /\ m.pos.size > 0 /\ Weight(row[s]) = m.pos.size
    BY <1>4, <1>8 DEF Close, Agreed, AgreedPair, Weight
  <2>3. Sold(m.pos.size) = m.pos.size
    BY <1>3, <1>5, <2>2 DEF Sold, Least
  <2>4. asset' = asset - m.pos.size
    BY <1>3, <1>8, <2>3 DEF Close
  <2>5. asset' = asset + Weight(Fresh.pos) - Weight(row[s])
    BY <1>3, <1>5, <2>1, <2>2, <2>4
  <2> QED
    BY <1>6, <1>8, <2>1, <2>5 DEF Close
<1>9. ASSUME NEW q \in Sizes, Open(s, m, q) PROVE Agreed'
  <2> DEFINE p == [pos |-> [size |-> q, old |-> FALSE], in |-> TRUE]
  <2>1. p \in Caches /\ p.pos \in Positions /\ p.in /\ p.pos.size = q /\ q > 0 /\ q \in Nat
    OBVIOUS
  <2>2. p.pos # None
    BY <2>1, NoneAssumption
  <2>3. Weight(row[s]) = 0
    BY <1>4, <1>9 DEF Open, Weight
  <2>4. Weight(p.pos) = q
    BY <2>1, <2>2 DEF Weight
  <2>5. asset' = asset + q
    BY <1>3, <1>9 DEF Open
  <2>6. Ticks(s, m, p)
    BY <1>9 DEF Open
  <2>7. asset' = asset + Weight(p.pos) - Weight(row[s])
    BY <1>3, <1>5, <2>1, <2>3, <2>4, <2>5
  <2> HIDE DEF p
  <2> QED
    BY <1>6, <2>1, <2>2, <2>6, <2>7
<1> QED
  BY <1>1, <1>7, <1>8, <1>9

LEMMA AgreedPersist ==
  ASSUME TypeOK, Undisturbed, Undisturbed', Agreed, Persist
  PROVE  Agreed'
<1> DEFINE p == mem[who].pos
<1>1. /\ pc = "persist" /\ pc' = "idle" /\ who \in Strategies
      /\ row' = [row EXCEPT ![who] = p]
      /\ st' = [st EXCEPT ![who] = [in |-> mem[who].in, streak |-> 0, latched |-> Latched(who)]]
      /\ UNCHANGED <<enabled, asset, order, mem, journal>>
  BY DEF Persist, env, held, TypeOK
<1>2. mem[who] # None /\ who \in enabled /\ mem[who] \in Caches /\ p \in Positions \cup {None}
  BY <1>1 DEF Agreed, TypeOK
<1>3. AgreedPair(who)
  BY <1>1 DEF Agreed
<1>4. Local' = Local - Weight(row[who]) + Weight(p)
  BY <1>1, <1>2, RowChanged
<1>5. asset' = Local'
  <2>1. Local \in Int /\ Weight(row[who]) \in Int /\ Weight(p) \in Int
    <3>1. row[who] \in Positions \cup {None}
      BY <1>1 DEF TypeOK
    <3> QED
      BY <1>2, <3>1, LocalType DEF Weight
  <2>2. asset = Local + Weight(p) - Weight(row[who])
    BY <1>1 DEF Agreed
  <2> HIDE DEF p
  <2> QED
    BY <1>1, <1>4, <2>1, <2>2
<1>6. ASSUME NEW s \in Strategies PROVE AgreedPair(s)'
  <2>1. CASE s = who
    <3>1. row'[s] = p /\ st'[s] = [in |-> mem[who].in, streak |-> 0, latched |-> Latched(who)]
      BY <1>1, <2>1 DEF TypeOK
    <3>2. st'[s] # None /\ (st'[s].in <=> mem[who].in)
      <4>1. mem[who].in \in BOOLEAN /\ Latched(who) \in BOOLEAN
        BY <1>1, <1>2 DEF Latched, TypeOK
      <4>2. [in |-> mem[who].in, streak |-> 0, latched |-> Latched(who)] \in States
        BY <4>1
      <4> QED
        BY <3>1, <4>2, NoneAssumption
    <3> QED
      BY <1>1, <1>2, <1>3, <2>1, <3>1, <3>2 DEF AgreedPair
  <2>2. CASE s # who
    <3>1. row'[s] = row[s] /\ st'[s] = st[s] /\ mem'[s] = mem[s]
      BY <1>1, <2>2 DEF TypeOK
    <3> QED
      BY <1>1, <2>2, <3>1 DEF Agreed, AgreedPair
  <2> QED
    BY <2>1, <2>2
<1> QED
  BY <1>1, <1>5, <1>6 DEF Agreed

LEMMA AgreedAge ==
  ASSUME TypeOK, Undisturbed, Undisturbed', Agreed, NEW s \in Strategies, Age(s)
  PROVE  Agreed'
<1>1. /\ row' = [row EXCEPT ![s] = Aged(row[s])]
      /\ mem' = [mem EXCEPT ![s] = IF mem[s] = None THEN None ELSE [mem[s] EXCEPT !.pos = Aged(mem[s].pos)]]
      /\ UNCHANGED <<enabled, asset, order, st, pc, who, seen, journal>>
  BY DEF Age, env, held, run
<1>2. \A p \in Positions \cup {None} :
          /\ Aged(p) \in Positions \cup {None} /\ (Aged(p) = None <=> p = None)
          /\ Weight(Aged(p)) = Weight(p) /\ (p # None => Aged(p).size = p.size)
  <2>1. \A p \in Positions \cup {None} : p # None => Aged(p).size = p.size
    BY DEF Aged
  <2> QED
    BY <2>1, AgedType DEF Weight
<1>3. row[s] \in Positions \cup {None} /\ (mem[s] # None => mem[s].pos \in Positions \cup {None} /\ mem[s] \in Caches)
  BY DEF TypeOK
<1>4. row'[s] = Aged(row[s]) /\ mem'[s] = IF mem[s] = None THEN None ELSE [mem[s] EXCEPT !.pos = Aged(mem[s].pos)]
  BY <1>1 DEF TypeOK
<1>5. mem[s] # None => mem'[s] # None /\ mem'[s].pos = Aged(mem[s].pos) /\ mem'[s].in = mem[s].in
  <2>1. mem[s] # None => [mem[s] EXCEPT !.pos = Aged(mem[s].pos)] \in Caches
    BY <1>2, <1>3
  <2> QED
    BY <1>3, <1>4, <2>1, NoneAssumption
<1>6. \A t \in Strategies \ {s} : row'[t] = row[t] /\ mem'[t] = mem[t]
  BY <1>1 DEF TypeOK
<1>7. Local' = Local
  <2>1. Local' = Local - Weight(row[s]) + Weight(Aged(row[s]))
    BY <1>1, <1>2, <1>3, RowChanged
  <2>2. Local \in Int /\ Weight(row[s]) \in Int /\ Weight(Aged(row[s])) = Weight(row[s])
    BY <1>2, <1>3, LocalType DEF Weight
  <2> QED
    BY <2>1, <2>2
<1>8. ASSUME NEW t \in Strategies PROVE AgreedPair(t)'
  <2>1. CASE t = s
    <3>1. AgreedPair(s)
      BY DEF Agreed
    <3>2. row'[s] # None <=> row[s] # None
      BY <1>2, <1>3, <1>4
    <3>3. row[s] # None => row'[s].size = row[s].size
      BY <1>2, <1>3, <1>4
    <3>4. mem'[s] # None => mem[s] # None
      BY <1>4
    <3>5. mem[s] # None => /\ mem'[s].pos # None <=> mem[s].pos # None
                           /\ mem[s].pos # None => mem'[s].pos.size = mem[s].pos.size
                           /\ mem[s].pos = row[s] => mem'[s].pos = row'[s]
      BY <1>2, <1>3, <1>4, <1>5
    <3> QED
      BY <1>1, <1>5, <2>1, <3>1, <3>2, <3>3, <3>4, <3>5 DEF AgreedPair
  <2>2. CASE t # s
    BY <1>1, <1>6, <2>2 DEF Agreed, AgreedPair
  <2> QED
    BY <2>1, <2>2
<1>9. pc = "persist" => mem'[who] # None /\ Weight(mem'[who].pos) = Weight(mem[who].pos)
                        /\ Weight(row'[who]) = Weight(row[who])
  <2> SUFFICES ASSUME pc = "persist"
               PROVE  mem'[who] # None /\ Weight(mem'[who].pos) = Weight(mem[who].pos)
                      /\ Weight(row'[who]) = Weight(row[who])
    OBVIOUS
  <2>1. who \in Strategies /\ mem[who] # None
    BY DEF Agreed, TypeOK
  <2>2. CASE who = s
    BY <1>2, <1>3, <1>4, <1>5, <2>1, <2>2
  <2>3. CASE who # s
    BY <1>6, <2>1, <2>3
  <2> QED
    BY <2>2, <2>3
<1>10. pc = "persist" => Weight(mem[who].pos)' = Weight(mem[who].pos) /\ Weight(row[who])' = Weight(row[who])
  BY <1>1, <1>9 DEF Weight
<1> QED
  BY <1>1, <1>7, <1>8, <1>9, <1>10 DEF Agreed

\* What leaves rows, balance and the tick alone, and of the states only what no
\* pair's agreement is about.
LEMMA AgreedKept ==
  ASSUME TypeOK, Agreed, pc # "persist", pc' # "persist", row' = row, UNCHANGED <<enabled, asset, order>>,
         \A s \in Strategies : mem'[s] = mem[s] \/ mem'[s] = None,
         \A s \in Strategies : (st'[s] # None /\ st'[s].in) <=> (st[s] # None /\ st[s].in),
         pc' = "symbol" => seen' = asset,
         journal'.exchange \in {"none", "ok"}, ~journal'.repaired
  PROVE  Agreed'
<1>1. Local' = Local
  BY LocalIs
<1>2. ASSUME NEW s \in Strategies PROVE AgreedPair(s)'
  <2>1. AgreedPair(s)
    BY DEF Agreed
  <2> QED
    BY <2>1 DEF AgreedPair
<1> QED
  BY <1>1, <1>2 DEF Agreed

LEMMA AgreedWorker ==
  ASSUME TypeOK, Agreed, Recycle \/ \E s \in Strategies : OperatorResets(s)
  PROVE  Agreed'
<1>1. CASE Recycle
  <2>1. \A s \in Strategies : mem'[s] = None
    BY <1>1 DEF Recycle, Forget
  <2> QED
    BY <1>1, <2>1, AgreedKept DEF Recycle, env, held, book, run, Idle, Agreed
<1>2. ASSUME NEW s \in Strategies, OperatorResets(s) PROVE Agreed'
  <2>1. st' = [st EXCEPT ![s].latched = FALSE] /\ st[s] # None
    BY <1>2 DEF OperatorResets, Latched
  <2>2. st[s] \in States /\ [st[s] EXCEPT !.latched = FALSE] \in States
    BY <2>1 DEF TypeOK
  <2>3. st'[s] = [st[s] EXCEPT !.latched = FALSE] /\ \A t \in Strategies \ {s} : st'[t] = st[t]
    BY <2>1 DEF TypeOK
  <2>4. \A t \in Strategies : (st'[t] # None /\ st'[t].in) <=> (st[t] # None /\ st[t].in)
    BY <2>2, <2>3, NoneAssumption
  <2> QED
    BY <1>2, <2>4, AgreedKept DEF OperatorResets, env, held, run, Idle, Agreed
<1> QED
  BY <1>1, <1>2

\* Check A finds no row without an open state and no open state without a row.
LEMMA AgreedCheckPairs == ASSUME TypeOK, Agreed, CheckPairs PROVE Agreed'
<1>1. \A s \in Strategies : ~RowOrphan(s) /\ ~StateOrphan(s)
  BY DEF Agreed, AgreedPair, RowOrphan, StateOrphan
<1>2. row' = row
  BY <1>1 DEF CheckPairs, TypeOK
<1>3. \A s \in Strategies : st'[s] = st[s]
  BY <1>1 DEF CheckPairs, TypeOK
<1>4. journal'.exchange = "none" /\ journal'.repaired = FALSE
  <2>1. \E b : journal' = [Report EXCEPT !.mismatch = b]
    BY DEF CheckPairs
  <2> QED
    BY <2>1 DEF Report
<1> QED
  BY <1>2, <1>3, <1>4, AgreedKept DEF CheckPairs, Idle, Unmoved, env, held

\* What the worker booked is what the account holds: of the checks of a symbol
\* only the one that finds nothing applies.
LEMMA AgreedCheckSymbol == ASSUME TypeOK, Agreed, CheckSymbol PROVE Agreed'
<1>1. pc = "symbol" => Local = seen
  BY DEF Agreed
<1>2. ~Untracked
  <2> SUFFICES ASSUME Booked = {}, pc = "symbol" PROVE seen = 0
    BY DEF Untracked
  <2>1. Local = 0
    BY TotalIs, FS_EmptySet DEF Local
  <2> QED
    BY <1>1, <2>1
<1>3. SizesAgree
  BY <1>1, <1>2 DEF CheckSymbol, DeferForOrder, DeferForEvidence, ForceClose, Orphaned,
                    Adopt, OwnerUnknown, Unexplained, Resize
<1>4. \A s \in Strategies : (st'[s] # None /\ st'[s].in) <=> (st[s] # None /\ st[s].in)
  <2>1. CASE UNCHANGED st
    BY <2>1
  <2>2. CASE SignOfLife
    <3>1. \A s \in Strategies : st[s] # None => [st[s] EXCEPT !.streak = 0] \in States
      BY DEF TypeOK
    <3>2. ASSUME NEW s \in Strategies, st[s] # None
          PROVE  st'[s] # None /\ (st'[s].in <=> st[s].in)
      <4>1. st'[s] = [st[s] EXCEPT !.streak = 0] /\ st[s] \in States
        BY <2>2, <3>2 DEF SignOfLife, TypeOK
      <4> QED
        BY <3>1, <3>2, <4>1, NoneAssumption
    <3>3. \A s \in Strategies : st[s] = None => st'[s] = None
      BY <2>2 DEF SignOfLife
    <3> QED
      BY <3>2, <3>3
  <2> QED
    BY <1>3, <2>1, <2>2 DEF SizesAgree
<1>5. journal'.exchange = "ok" /\ journal'.repaired = FALSE
  <2>1. Checked(FALSE, FALSE)
    BY <1>3 DEF SizesAgree
  <2> QED
    BY <2>1 DEF Checked, TypeOK
<1> QED
  BY <1>3, <1>4, <1>5, AgreedKept DEF SizesAgree, Checked, Unmoved, env, held

\* No short is booked, so the futures are compared with nothing.
LEMMA AgreedCheckFutures ==
  ASSUME TypeOK, Undisturbed, Agreed, CheckFutures
  PROVE  Agreed'
<1>1. Booked \cap Shorts = {}
  BY DEF Undisturbed, Booked, Agreed, AgreedPair
<1>2. /\ pc = "futures" /\ row' = row /\ mem' = mem /\ pc' = "report" /\ UNCHANGED <<enabled, asset, order>>
      /\ \A s \in Strategies : st'[s] = st[s]
  BY <1>1 DEF CheckFutures, Finished, Unmoved, env, held
<1>3. PICK b, w :
        journal' = [[journal EXCEPT !.exchange = journal.exchange, !.mismatch = b, !.repaired = journal.repaired]
                       EXCEPT !.said = w]
  <2>1. \E b : Finished([journal EXCEPT !.exchange = journal.exchange, !.mismatch = b,
                                        !.repaired = journal.repaired])
    <3> DEFINE wrong == {s \in Booked \cap Shorts : row[s].size # Magnitude(fut)}
    <3>1. wrong = {} /\ wrong \cap Recorded = {}
      BY <1>1
    <3>2. Finished([journal EXCEPT !.exchange = IF wrong # {} THEN "mismatch" ELSE @,
                                   !.mismatch = @ \/ wrong # {},
                                   !.repaired = @ \/ wrong \cap Recorded # {}])
      BY <1>1 DEF CheckFutures
    <3>3. (journal.repaired \/ wrong \cap Recorded # {}) = journal.repaired
      BY <3>1 DEF TypeOK
    <3> QED
      BY <3>1, <3>2, <3>3
  <2> QED
    BY <2>1 DEF Finished
<1>4. journal'.exchange = journal.exchange /\ journal'.repaired = journal.repaired
  BY <1>3 DEF TypeOK
<1> QED
  BY <1>2, <1>4, AgreedKept DEF Agreed

LEMMA AgreedRest ==
  ASSUME TypeOK, Agreed, ReadAccount \/ RunEnds \/ UNCHANGED vars
  PROVE  Agreed'
<1>1. CASE ReadAccount
  BY <1>1, AgreedKept DEF ReadAccount, Unmoved, env, held, book, Agreed
<1>2. CASE RunEnds
  BY <1>2, AgreedKept DEF RunEnds, Report, Unmoved, env, held, book
<1>3. CASE UNCHANGED vars
  <2>1. Local' = Local
    BY <1>3, LocalIs DEF vars, book
  <2>2. \A s \in Strategies : AgreedPair(s)'
    BY <1>3 DEF vars, env, held, book, run, Agreed, AgreedPair
  <2>3. Weight(mem[who].pos)' = Weight(mem[who].pos) /\ Weight(row[who])' = Weight(row[who])
    BY <1>3 DEF vars, book, run, Weight
  <2> QED
    BY <1>3, <2>1, <2>2, <2>3 DEF vars, env, held, book, run, Agreed
<1> QED
  BY <1>1, <1>2, <1>3

LEMMA AgreedNext ==
  ASSUME TypeOK, Undisturbed, Undisturbed', Agreed, [Next]_vars
  PROVE  Agreed'
<1> USE NoFaults
<1>1. ~PersistFails /\ ~Crash /\ ~AccountFails
  BY DEF PersistFails, Crash, AccountFails
<1>2. ~AccountMoves
  BY DEF AccountMoves, Bought, SoldElsewhere, Deposited, Withdrawn, FuturesClosed, OrderPlaced,
         OrderEnds, Agreed
<1> QED
  BY <1>1, <1>2, AgreedTick, AgreedPersist, AgreedAge, AgreedWorker, AgreedCheckPairs,
     AgreedCheckSymbol, AgreedCheckFutures, AgreedRest DEF Next, Reconciling

\* The configuration stays and the counters only grow.
LEMMA CountersGrow ==
  ASSUME TypeOK, [Next]_vars
  PROVE  enabled' = enabled /\ moves' >= moves /\ faults' >= faults
<1>1. /\ moves \in Nat /\ faults \in Nat
      /\ \A f : Fault(f) => faults' >= faults
      /\ NoFault => faults' >= faults
      /\ env' = env => enabled' = enabled /\ moves' >= moves
  BY DEF TypeOK, Fault, NoFault, env
<1>2. ASSUME NEW s \in Strategies, Tick(s) PROVE env' = env /\ faults' >= faults
  <2>1. PICK m, p : Ticks(s, m, p)
    BY <1>2 DEF Tick, Hold, Close, Open
  <2> QED
    BY <1>1, <2>1, ComponentsFault DEF Ticks, env
<1>3. CASE \E s \in Strategies : Age(s) \/ OperatorResets(s)
  BY <1>1, <1>3 DEF Age, OperatorResets, env
<1>4. CASE Persist \/ PersistFails \/ Recycle \/ Crash
  BY <1>1, <1>4 DEF Persist, PersistFails, Recycle, Crash
<1>5. CASE AccountMoves
  <2>1. Move => enabled' = enabled /\ moves' >= moves /\ faults' >= faults
    BY <1>1 DEF Move, Untouched
  <2>2. OrderEnds => enabled' = enabled /\ moves' >= moves /\ faults' >= faults
    BY <1>1 DEF OrderEnds, Untouched
  <2> QED
    BY <1>5, <2>1, <2>2 DEF AccountMoves, Bought, SoldElsewhere, Deposited, Withdrawn,
                            FuturesClosed, OrderPlaced
<1>6. CASE CheckSymbol
  BY <1>1, <1>6 DEF CheckSymbol, SizesAgree, DeferForOrder, DeferForEvidence, ForceClose, Adopt,
                    OwnerUnknown, Unexplained, Resize, Checked, Unmoved
<1>7. CASE CheckPairs \/ ReadAccount \/ AccountFails \/ CheckFutures \/ RunEnds
  BY <1>1, <1>7 DEF CheckPairs, ReadAccount, AccountFails, CheckFutures, RunEnds, Unmoved
<1>8. CASE UNCHANGED vars
  BY <1>1, <1>8 DEF vars
<1> QED
  BY <1>1, <1>2, <1>3, <1>4, <1>5, <1>6, <1>7, <1>8 DEF Next, Reconciling

LEMMA DisturbedForGood == ASSUME TypeOK, [Next]_vars, Undisturbed' PROVE Undisturbed
BY CountersGrow DEF TypeOK, Undisturbed

\* While only the ticks move the account and nothing fails, whatever order the
\* ticks, reconciliations and restarts come in, the exchange part of a
\* reconciliation ends in "ok" and repairs nothing.
THEOREM HealthyIsLeftAlone == Spec => []HealthyLeftAlone
<1> DEFINE I == TypeOK /\ Ready /\ (Undisturbed => Agreed)
<1>1. Init => I
  BY InitHolds, AgreedInit DEF IInv, Evidence, Ready
<1>2. I /\ [Next]_vars => I'
  <2> SUFFICES ASSUME I, [Next]_vars PROVE I'
    OBVIOUS
  <2>1. TypeOK' /\ Ready'
    BY TypeInductive, ReadyInductive
  <2>2. ASSUME Undisturbed' PROVE Agreed'
    BY <2>2, DisturbedForGood, AgreedNext
  <2> QED
    BY <2>1, <2>2
<1>3. I => HealthyLeftAlone
  BY DEF Undisturbed, Agreed, HealthyLeftAlone
<1> QED
  BY <1>1, <1>2, <1>3, PTL DEF Spec
=============================================================================
