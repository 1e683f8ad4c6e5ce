-------------------------- MODULE RiskStops_proofs --------------------------
(***************************************************************************)
(* TLAPS proofs about RiskStops: type correctness, the locked-in profit,   *)
(* the position of the exchange order and the monotone levels of a long,   *)
(* for every market and every configuration the assumptions allow.         *)
(***************************************************************************)
EXTENDS RiskStops, TLAPS

\* The ratchet never moves the hard stop against the position, and moves it at
\* least to the lock-in level when the close reached the lock-in trigger
\* (_apply_breakeven_ratchet).
LEMMA RatchetFacts ==
    ASSUME NEW s \in {"long", "short"}, NEW e \in Nat, NEW c \in Nat, NEW h \in Int
    PROVE  /\ Ratchet(s, e, c, h) \in Int
           /\ s = "long" => Ratchet(s, e, c, h) >= h
           /\ s = "short" => Ratchet(s, e, c, h) <= h
           /\ ProfitReached(s, e, c, LockinPct) =>
                IF s = "long" THEN Ratchet(s, e, c, h) >= e * (100 + LockinStopPct)
                              ELSE Ratchet(s, e, c, h) <= e * (100 - LockinStopPct)
  <1>1. e * (100 + LockinStopPct) \in Int /\ e * (100 - LockinStopPct) \in Int /\ Level(e) \in Int
    BY PctAssumption DEF Level
  <1>2. RatchetTarget(s, e, c, h) \in Int
    BY <1>1 DEF RatchetTarget
  <1>3. ProfitReached(s, e, c, LockinPct) =>
          RatchetTarget(s, e, c, h) = IF s = "long" THEN e * (100 + LockinStopPct)
                                                   ELSE e * (100 - LockinStopPct)
    BY DEF RatchetTarget
  <1>4. /\ s = "long" => Ratchet(s, e, c, h) >= h /\ Ratchet(s, e, c, h) >= RatchetTarget(s, e, c, h)
        /\ s = "short" => Ratchet(s, e, c, h) <= h /\ Ratchet(s, e, c, h) <= RatchetTarget(s, e, c, h)
        /\ Ratchet(s, e, c, h) \in Int
    BY <1>2 DEF Ratchet, Max2, Min2
  <1> QED
    BY <1>1, <1>2, <1>3, <1>4

\* A raw trailing level is an integer, and 0 when the ATR is missing.
LEMMA TrailType ==
    ASSUME NEW s \in {"long", "short"}, NEW x \in Nat, NEW atr \in Atrs
    PROVE  Trail(s, x, atr) \in Int
  <1>1. CASE atr = NoAtr
    BY <1>1 DEF Trail
  <1>2. CASE atr # NoAtr
    <2>1. atr \in Nat /\ AtrMult \in Nat
      BY <1>2, AtrsAssumption, PctAssumption
    <2>2. 100 * AtrMult * atr \in Int
      BY <2>1
    <2> QED
      BY <1>2, <2>2 DEF Trail, Level
  <1> QED
    BY <1>1, <1>2

\* A stored trailing level only moves towards profit.
LEMMA NewTrailingFacts ==
    ASSUME NEW s \in {"long", "short"}, NEW x \in Nat, NEW atr \in Atrs, NEW t \in Int
    PROVE  /\ NewTrailing(s, x, atr, t) \in Int
           /\ s = "long" /\ t > 0 => NewTrailing(s, x, atr, t) >= t
           /\ s = "short" /\ t > 0 => NewTrailing(s, x, atr, t) <= t
  BY TrailType DEF NewTrailing, Max2, Min2

LEMMA EffectiveMonotone ==
    ASSUME NEW h \in Int, NEW t \in Int, NEW h2 \in Int, NEW t2 \in Int
    PROVE  /\ Effective(h, t) \in Int
           /\ Effective(h, t) >= h
           /\ h2 >= h /\ t2 >= t => Effective(h2, t2) >= Effective(h, t)
  BY DEF Effective, Max2

\* The average entry price is a natural number.
LEMMA AverageType ==
    ASSUME TypeOK, NEW p \in Prices
    PROVE  AverageEntry(p) \in Nat
  <1> DEFINE num == 2 * (entry * size + p * TrancheSize) + size + TrancheSize
             den == 2 * (size + TrancheSize)
  <1>1. entry * size \in Nat /\ p \in Nat
    BY PricesAssumption DEF TypeOK
  <1>2. num \in Nat /\ den \in Nat \ {0}
    BY <1>1 DEF TypeOK, TrancheSize
  <1>3. num \div den \in Nat
    <2> HIDE DEF num, den
    <2> QED
      BY <1>2
  <1> QED
    BY <1>3 DEF AverageEntry

-----------------------------------------------------------------------------
\* A long's hard stop is never negative, so that it dominates a trailing level
\* that is not in force.
LongHardNatural == open /\ side = "long" => hard >= 0

\* Inductive invariant: types and the three facts about the levels.
IInv ==
    /\ TypeOK
    /\ ProfitLockedIn
    /\ ExchangeNotAhead
    /\ LongHardNatural

LEMMA InitIInv == Init => IInv
  <1> SUFFICES ASSUME Init PROVE IInv
    OBVIOUS
  <1>1. TypeOK
    <2>1. open \in BOOLEAN /\ side \in {"long", "short"} /\ exch \in Int \cup {NoOrder}
      BY SidesAssumption, Zenon DEF Init
    <2> QED
      BY <2>1 DEF Init, TypeOK
  <1>2. ~open
    BY DEF Init
  <1>3. ProfitLockedIn /\ ExchangeNotAhead /\ LongHardNatural
    BY <1>2 DEF ProfitLockedIn, ExchangeNotAhead, LongHardNatural
  <1> QED
    BY <1>1, <1>3 DEF IInv

\* Every action that closes the position re-establishes the invariant.
LEMMA ClosedIInv ==
    ASSUME TypeOK, CloseState, last' \in Nat
    PROVE  IInv'
  <1>1. TypeOK'
    <2>1. open' \in BOOLEAN /\ side' \in {"long", "short"} /\ exch' \in Int \cup {NoOrder}
      BY Zenon DEF TypeOK, CloseState
    <2> QED
      BY <2>1 DEF TypeOK, CloseState
  <1>2. ~open'
    BY DEF CloseState
  <1>3. ProfitLockedIn' /\ ExchangeNotAhead' /\ LongHardNatural'
    BY <1>2 DEF ProfitLockedIn, ExchangeNotAhead, LongHardNatural
  <1> QED
    BY <1>1, <1>3 DEF IInv

LEMMA NextIInv == IInv /\ [Next]_vars => IInv'
  <1> SUFFICES ASSUME IInv, [Next]_vars PROVE IInv'
    OBVIOUS
  <1> USE DEF IInv
  <1>1. ASSUME NEW s \in Sides, NEW p \in Prices, NEW atr \in Atrs, NEW ok \in BOOLEAN,
               Open(s, p, atr, ok)
        PROVE  IInv'
    <2>1. s \in {"long", "short"} /\ p \in Nat
      BY SidesAssumption, PricesAssumption
    <2>2. InitialHard(s, p) \in Int /\ Trail(s, p, atr) \in Int
      BY <2>1, PctAssumption, TrailType DEF InitialHard
    <2>3. TypeOK'
      BY <1>1, <2>1, <2>2 DEF Open, TypeOK, InitialSize
    <2>4. ProfitLockedIn'
      BY <1>1 DEF Open, ProfitLockedIn
    <2>5. ExchangeNotAhead'
      BY <1>1, <2>2, NoOrderAssumption DEF Open, ExchangeNotAhead, Effective, Max2
    <2>6. LongHardNatural'
      BY <1>1, <2>1, PctAssumption DEF Open, LongHardNatural, InitialHard
    <2> QED
      BY <2>3, <2>4, <2>5, <2>6
  <1>2. ASSUME NEW p \in Prices, NEW ok \in BOOLEAN, ScaleIn(p, ok)
        PROVE  IInv'
    <2>1. TypeOK'
      BY <1>2, AverageType DEF ScaleIn, TypeOK, TrancheSize
    <2>2. ProfitLockedIn'
      BY <1>2 DEF ScaleIn, ProfitLockedIn, TypeOK
    <2>3. ExchangeNotAhead' /\ LongHardNatural'
      BY <1>2, EffectiveMonotone DEF ScaleIn, ExchangeNotAhead, LongHardNatural, TypeOK
    <2> QED
      BY <2>1, <2>2, <2>3
  <1>3. ASSUME NEW ok \in BOOLEAN, Reduce(ok)
        PROVE  IInv'
    <2>0. size \div 2 \in Nat
      BY DEF TypeOK
    <2>1. TypeOK'
      BY <1>3, <2>0 DEF Reduce, TypeOK
    <2>2. ProfitLockedIn'
      BY <1>3 DEF Reduce, ProfitLockedIn, ProfitReached
    <2>3. ExchangeNotAhead' /\ LongHardNatural'
      BY <1>3, EffectiveMonotone DEF Reduce, ExchangeNotAhead, LongHardNatural, TypeOK
    <2> QED
      BY <2>1, <2>2, <2>3
  <1>4. ASSUME NEW c \in Prices, NEW atr \in Atrs, TickExit(c, atr)
        PROVE  IInv'
    <2>1. CloseState /\ last' = c
      BY <1>4 DEF TickExit
    <2>2. last' \in Nat
      BY <2>1, PricesAssumption
    <2> QED
      BY <2>1, <2>2, ClosedIInv
  <1>5. ASSUME NEW c \in Prices, NEW atr \in Atrs, NEW k \in BOOLEAN, NEW ok \in BOOLEAN,
               TickHold(c, atr, k, ok)
        PROVE  IInv'
    <2> DEFINE x == NewExtreme(side, extreme, c)
               h == Ratchet(side, entry, c, hard)
               t == NewTrailing(side, x, atr, trailing)
    <2>1. c \in Nat /\ x \in Nat /\ (x = c \/ x = extreme)
      BY PricesAssumption DEF NewExtreme, TypeOK, Max2, Min2
    <2>2. h \in Int /\ t \in Int
      BY <2>1, RatchetFacts, NewTrailingFacts DEF TypeOK
    <2>3. /\ hard' = h /\ trailing' = t /\ extreme' = x /\ last' = c
          /\ UNCHANGED <<open, side, entry, size, scaled>>
      BY <1>5 DEF TickHold
    <2>4. Effective(h, t) \in Int /\ Effective(hard, trailing) \in Int
      BY <2>2, EffectiveMonotone DEF TypeOK
    <2>5. \/ exch' = NoOrder
          \/ exch' = exch
          \/ exch' = Effective(h, t)
      BY <1>5 DEF TickHold
    <2>6. TypeOK'
      BY <2>1, <2>2, <2>3, <2>4, <2>5 DEF TypeOK
    <2>7. ProfitLockedIn'
      <3> SUFFICES ASSUME open, scaled = 0, x \notin {0, entry},
                          ProfitReached(side, entry, x, LockinPct)
                   PROVE  IF side = "long" THEN h >= entry * (100 + LockinStopPct)
                                           ELSE h <= entry * (100 - LockinStopPct)
        BY <2>3 DEF ProfitLockedIn
      <3>1. CASE x = c
        BY <3>1, <2>1, RatchetFacts DEF TypeOK
      <3>2. CASE x = extreme
        <4>1. IF side = "long" THEN hard >= entry * (100 + LockinStopPct)
                               ELSE hard <= entry * (100 - LockinStopPct)
          BY <3>2 DEF ProfitLockedIn
        <4>2. entry * (100 + LockinStopPct) \in Int /\ entry * (100 - LockinStopPct) \in Int
          BY PctAssumption DEF TypeOK
        <4>3. /\ side = "long" => h >= hard
              /\ side = "short" => h <= hard
          BY <2>1, RatchetFacts DEF TypeOK
        <4> QED
          BY <4>1, <4>2, <4>3, <2>2 DEF TypeOK
      <3> QED
        BY <3>1, <3>2, <2>1
    <2>8. ExchangeNotAhead'
      <3> SUFFICES ASSUME side = "long", open, exch' # NoOrder
                   PROVE  exch' <= Effective(h, t)
        BY <2>3 DEF ExchangeNotAhead
      <3>1. h >= hard /\ (trailing > 0 => t >= trailing)
        BY <2>1, RatchetFacts, NewTrailingFacts DEF TypeOK
      <3>2. CASE exch' = exch
        \* the stored levels bound exch, and both only rise while they matter
        <4>1. exch \in Int /\ exch <= Effective(hard, trailing)
          BY <3>2 DEF ExchangeNotAhead, TypeOK
        <4> QED
          BY <3>1, <3>2, <4>1, <2>2 DEF Effective, Max2, TypeOK, LongHardNatural
      <3>3. CASE exch' = Effective(h, t)
        BY <3>3, <2>4
      <3> QED
        BY <2>5, <3>2, <3>3
    <2>9. LongHardNatural'
      BY <2>1, <2>2, <2>3, RatchetFacts DEF LongHardNatural, TypeOK
    <2> QED
      BY <2>6, <2>7, <2>8, <2>9
  <1>6. ASSUME OrderFails PROVE IInv'
    BY <1>6 DEF OrderFails, TypeOK, ProfitLockedIn, ProfitReached, ExchangeNotAhead,
                LongHardNatural
  <1>7. ASSUME Restart PROVE IInv'
    BY <1>7 DEF Restart, TypeOK, ProfitLockedIn, ProfitReached, ExchangeNotAhead, LongHardNatural
  <1>8. ASSUME Close PROVE IInv'
    <2>1. CloseState /\ last' \in Nat
      BY <1>8 DEF Close, TypeOK
    <2> QED
      BY <2>1, ClosedIInv
  <1>9. ASSUME UNCHANGED vars PROVE IInv'
    BY <1>9 DEF vars, TypeOK, ProfitLockedIn, ProfitReached, ExchangeNotAhead, Effective, Max2,
                LongHardNatural
  <1> QED
    BY <1>1, <1>2, <1>3, <1>4, <1>5, <1>6, <1>7, <1>8, <1>9 DEF Next

-----------------------------------------------------------------------------
\* Type correctness of the stop state.
THEOREM TypeCorrect == Spec => []TypeOK
  <1>1. IInv => TypeOK
    BY DEF IInv
  <1> QED
    BY InitIInv, NextIInv, <1>1, PTL DEF Spec

\* A profit that reached the lock-in trigger stays locked in.
THEOREM ProfitStaysLockedIn == Spec => []ProfitLockedIn
  <1>1. IInv => ProfitLockedIn
    BY DEF IInv
  <1> QED
    BY InitIInv, NextIInv, <1>1, PTL DEF Spec

\* The exchange order of a long is never above the level the engine sells at.
THEOREM ExchangeStopNotAhead == Spec => []ExchangeNotAhead
  <1>1. IInv => ExchangeNotAhead
    BY DEF IInv
  <1> QED
    BY InitIInv, NextIInv, <1>1, PTL DEF Spec

\* The stops of a long position only move up, whatever the market and the ATR do.
THEOREM LongStopsMonotone == Spec => LongStopsNeverFall
  <1> DEFINE A == open /\ open' /\ side = "long" =>
                    hard' >= hard /\ (trailing > 0 => trailing' >= trailing)
  <1>1. IInv /\ [Next]_vars => [A]_vars
    <2> SUFFICES ASSUME IInv, Next, open, open', side = "long"
                 PROVE  hard' >= hard /\ (trailing > 0 => trailing' >= trailing)
      OBVIOUS
    <2> USE DEF IInv, TypeOK
    <2>1. ASSUME NEW c \in Prices, NEW atr \in Atrs, NEW k \in BOOLEAN, NEW ok \in BOOLEAN,
                 TickHold(c, atr, k, ok)
          PROVE  hard' >= hard /\ (trailing > 0 => trailing' >= trailing)
      <3>1. c \in Nat /\ NewExtreme(side, extreme, c) \in Nat
        BY PricesAssumption DEF NewExtreme, Max2, Min2
      <3>2. /\ hard' = Ratchet(side, entry, c, hard)
            /\ trailing' = NewTrailing(side, NewExtreme(side, extreme, c), atr, trailing)
        BY <2>1 DEF TickHold
      <3> QED
        BY <3>1, <3>2, RatchetFacts, NewTrailingFacts
    <2>2. CASE UNCHANGED <<hard, trailing>>
      BY <2>2
    <2> QED
      BY <2>1, <2>2 DEF Next, Open, ScaleIn, Reduce, TickExit, CloseState, OrderFails, Restart, Close
  <1> QED
    BY InitIInv, NextIInv, <1>1, PTL DEF Spec, LongStopsNeverFall

\* Those of a short only move down, but for the trailing level a missing ATR
\* drops to zero (_check_trailing_short).
THEOREM ShortStopsMonotone == Spec => ShortStopsNeverRise
  <1> DEFINE A == open /\ open' /\ side = "short" =>
                    hard' <= hard /\ (trailing > 0 => trailing' <= trailing)
  <1>1. IInv /\ [Next]_vars => [A]_vars
    <2> SUFFICES ASSUME IInv, Next, open, open', side = "short"
                 PROVE  hard' <= hard /\ (trailing > 0 => trailing' <= trailing)
      OBVIOUS
    <2> USE DEF IInv, TypeOK
    <2>1. ASSUME NEW c \in Prices, NEW atr \in Atrs, NEW k \in BOOLEAN, NEW ok \in BOOLEAN,
                 TickHold(c, atr, k, ok)
          PROVE  hard' <= hard /\ (trailing > 0 => trailing' <= trailing)
      <3>1. c \in Nat /\ NewExtreme(side, extreme, c) \in Nat
        BY PricesAssumption DEF NewExtreme, Max2, Min2
      <3>2. /\ hard' = Ratchet(side, entry, c, hard)
            /\ trailing' = NewTrailing(side, NewExtreme(side, extreme, c), atr, trailing)
        BY <2>1 DEF TickHold
      <3> QED
        BY <3>1, <3>2, RatchetFacts, NewTrailingFacts
    <2>2. CASE UNCHANGED <<hard, trailing>>
      BY <2>2
    <2> QED
      BY <2>1, <2>2 DEF Next, Open, ScaleIn, Reduce, TickExit, CloseState, OrderFails, Restart, Close
  <1> QED
    BY InitIInv, NextIInv, <1>1, PTL DEF Spec, ShortStopsNeverRise
=============================================================================
