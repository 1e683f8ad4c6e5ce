------------------------ MODULE PaperTrading_proofs ------------------------
(***************************************************************************)
(* Which conditions of a candle exclude one another, and what the two      *)
(* kinds of dead zones really cover, for every reading of the market; then *)
(* of the whole pipeline: the ledger conserves money, the daily limit      *)
(* holds, cooldowns are served and scale-ins are earned, for every         *)
(* configuration, price and fault; and it implements Lifecycle.            *)
(***************************************************************************)
EXTENDS PaperTrading, TLAPS

-----------------------------------------------------------------------------
(* The verdicts                                                            *)

LEMMA SmartHodlerType == ASSUME NEW r PROVE SmartHodler(r) \in Verdicts
BY DEF SmartHodler, HodlerFades, NoVerdict, Verdicts

LEMMA MeanReversionType == ASSUME NEW r PROVE MeanReversion(r) \in Verdicts
BY DEF MeanReversion, ReversionFades, ReversionExits, NoVerdict, Verdicts

LEMMA BearGuardType == ASSUME NEW r PROVE BearGuard(r) \in Verdicts
BY DEF BearGuard, GuardFades, NoVerdict, Verdicts

LEMMA VerdictType == ASSUME NEW s \in StrategyNames, NEW r PROVE Verdict(s, r) \in Verdicts
BY SmartHodlerType, MeanReversionType, BearGuardType DEF Verdict, StrategyNames

Values == Int \cup {NaN}
TrendReading ==
    [close : Values, ema_50 : Values, ema_200 : Values, adx : Values, adx_before : Values,
     volume : Values, volume_sma : Values, ema_21_1h : Values, ema_21_1h_before : Values,
     rsi_1h : Values, time : Moments]
BandReading ==
    [close : Values, bb_lower : Values, bb_middle : Values, bb_upper : Values, rsi : Values,
     adx : Values, volume : Values, volume_sma : Values, rsi_1h : Values, close_1h : Values,
     ema_50_1h : Values, time : Moments]

\* The bands have a width: some of the closes they are computed from differ.
Wide(r) == r.bb_lower < r.bb_middle /\ r.bb_middle <= r.bb_upper

\* What opens a position does not count against it.
Consistent(k) == k.entry => k.data /\ ~k.exit /\ ~k.beyond /\ ~k.fade

\* A candle that smart_hodler buys on is neither a death cross, nor a close
\* below the slow average, nor a fading momentum, whatever the settings.
THEOREM HodlerConsistent == ASSUME NEW r \in TrendReading PROVE Consistent(SmartHodler(r))
<1>1. CASE ~SmartHodler(r).entry
  BY <1>1 DEF Consistent
<1>2. CASE SmartHodler(r).entry
  <2>1. /\ TrendNamed(SmartHodlerConfig)
        /\ NaN \notin {r.close, r.ema_50, r.ema_200, r.adx, r.volume_sma}
    BY <1>2 DEF SmartHodler, NoVerdict
  <2>2. r.close \in Int /\ r.ema_50 \in Int /\ r.ema_200 \in Int
    BY <2>1 DEF TrendReading, Values
  <2>3. r.ema_50 > r.ema_200 /\ r.close > r.ema_50
    BY <1>2, <2>1 DEF SmartHodler
  <2>4. ~(r.ema_50 < r.ema_200) /\ ~(r.close < r.ema_200) /\ ~(r.close < r.ema_50)
    BY <2>2, <2>3
  <2> QED
    BY <2>1, <2>4 DEF SmartHodler, HodlerFades, Consistent
<1> QED
  BY <1>1, <1>2

\* A candle that mean_reversion buys on reaches neither the middle nor the upper
\* band and is not overbought; but only an adx_threshold up to adx_regime_shift
\* keeps it from being an exit for its trend, and the configuration allows 100.
THEOREM ReversionConsistent ==
  ASSUME NEW r \in BandReading, Wide(r),
         MeanReversionConfig.adx_threshold <= AdxRegimeShift,
         MeanReversionConfig.rsi_oversold <= MeanReversionConfig.rsi_overbought
  PROVE  Consistent(MeanReversion(r))
<1>1. CASE ~MeanReversion(r).entry
  BY <1>1 DEF Consistent
<1>2. CASE MeanReversion(r).entry
  <2> DEFINE c == MeanReversionConfig
  <2>1. /\ ReversionNamed(c)
        /\ NaN \notin {r.close, r.volume, r.bb_lower, r.bb_middle, r.bb_upper, r.rsi, r.adx,
                       r.volume_sma}
    BY <1>2 DEF MeanReversion, NoVerdict
  <2>2. /\ r.close \in Int /\ r.bb_lower \in Int /\ r.bb_middle \in Int /\ r.bb_upper \in Int
        /\ r.rsi \in Int /\ r.adx \in Int
    BY <2>1 DEF BandReading, Values
  <2>3. r.close <= r.bb_lower /\ r.rsi < c.rsi_oversold /\ r.adx < c.adx_threshold
    BY <1>2, <2>1 DEF MeanReversion
  <2>4. ~(r.close >= r.bb_upper) /\ ~(r.close >= r.bb_middle)
    BY <2>2, <2>3 DEF Wide
  <2>5. ~(r.rsi > c.rsi_overbought) /\ ~(r.adx > AdxRegimeShift)
    <3>1. c.rsi_oversold \in Int /\ c.rsi_overbought \in Int /\ c.adx_threshold \in Int
      BY SettingsAssumption DEF MeanReversionSettings
    <3> QED
      BY <2>2, <2>3, <3>1 DEF AdxRegimeShift
  <2> QED
    BY <2>1, <2>4, <2>5 DEF MeanReversion, ReversionFades, ReversionExits, Consistent
<1> QED
  BY <1>1, <1>2

\* A candle that bear_guard shorts on is neither a golden cross, nor a close
\* above the slow average, nor overbought, if the two RSI thresholds are in order.
THEOREM GuardConsistent ==
  ASSUME NEW r \in TrendReading,
         BearGuardConfig.hourly_rsi_bear_threshold <= BearGuardConfig.rsi_overbought_threshold
  PROVE  Consistent(BearGuard(r))
<1>1. CASE ~BearGuard(r).entry
  BY <1>1 DEF Consistent
<1>2. CASE BearGuard(r).entry
  <2> DEFINE c == BearGuardConfig
  <2>1. /\ TrendNamed(c)
        /\ NaN \notin {r.close, r.ema_50, r.ema_200, r.adx, r.volume_sma}
    BY <1>2 DEF BearGuard, NoVerdict
  <2>2. r.close \in Int /\ r.ema_50 \in Int /\ r.ema_200 \in Int
    BY <2>1 DEF TrendReading, Values
  <2>3. r.ema_50 < r.ema_200 /\ r.close < r.ema_50 /\ Under(r.rsi_1h, c.hourly_rsi_bear_threshold)
    BY <1>2, <2>1 DEF BearGuard
  <2>4. ~(r.ema_50 > r.ema_200) /\ ~(r.close > r.ema_200)
    BY <2>2, <2>3
  <2>5. r.rsi_1h \in Int /\ r.rsi_1h < c.hourly_rsi_bear_threshold
    BY <2>3 DEF Under, Above, TrendReading, Values
  <2>6. c.hourly_rsi_bear_threshold \in Int /\ c.rsi_overbought_threshold \in Int
    BY SettingsAssumption DEF BearGuardSettings
  <2>7. ~Above(r.rsi_1h, c.rsi_overbought_threshold)
    BY <2>5, <2>6 DEF Above
  <2> QED
    BY <2>1, <2>4, <2>7 DEF BearGuard, GuardFades, Consistent
<1> QED
  BY <1>1, <1>2

-----------------------------------------------------------------------------
(* The dead zones                                                          *)

\* minutes since the week began
At(day, minute) == 1440 * day + minute
Minutes == 0..1439

LEMMA WeekOrder ==
  \A a, b \in 0..6, s, t \in Minutes :
     /\ At(a, s) <= At(b, t) <=> a < b \/ (a = b /\ s <= t)
     /\ At(a, s) < At(b, t) <=> a < b \/ (a = b /\ s < t)
<1> TAKE a, b \in 0..6, s, t \in Minutes
<1>1. CASE a < b
  <2>1. a + 1 <= b
    BY <1>1
  <2> QED
    BY <1>1, <2>1 DEF At, Minutes
<1>2. CASE a = b
  BY <1>2 DEF At, Minutes
<1>3. CASE a > b
  BY <1>3 DEF At, Minutes
<1> QED
  BY <1>1, <1>2, <1>3

\* A window between two named days is one interval of the week, which may run
\* over its end ("Wraps around the week boundary (unlikely but handled)").
THEOREM NamedDayWindow ==
  ASSUME NEW day \in 0..6, NEW minute \in Minutes,
         NEW d1 \in 0..6, NEW t1 \in Minutes, NEW d2 \in 0..6, NEW t2 \in Minutes
  PROVE  LET from == At(d1, t1)
             to == At(d2, t2)
             at == At(day, minute)
         IN  InNamedDayWindow([day |-> day, minute |-> minute], d1, t1, d2, t2)
             <=> IF from <= to THEN from <= at /\ at < to ELSE from <= at \/ at < to
<1>1. At(d1, t1) <= At(d2, t2) <=> d1 < d2 \/ (d1 = d2 /\ t1 <= t2)
  BY WeekOrder
<1>2. At(d1, t1) <= At(day, minute) <=> d1 < day \/ (d1 = day /\ t1 <= minute)
  BY WeekOrder
<1>3. At(day, minute) < At(d2, t2) <=> day < d2 \/ (day = d2 /\ minute < t2)
  BY WeekOrder
<1>4. InNamedDayWindow([day |-> day, minute |-> minute], d1, t1, d2, t2)
      <=> IF d1 < d2 \/ (d1 = d2 /\ t1 <= t2)
          THEN /\ d1 < day \/ (d1 = day /\ t1 <= minute)
               /\ day < d2 \/ (day = d2 /\ minute < t2)
          ELSE \/ d1 < day \/ (d1 = day /\ t1 <= minute)
               \/ day < d2 \/ (day = d2 /\ minute < t2)
  BY DEF InNamedDayWindow, InOrder, NoDay, Minutes
<1> QED
  BY <1>1, <1>2, <1>3, <1>4

\* A window whose end names no day and comes before its start is not the night
\* from one day to the next: it is all of the week but the hours between its end
\* and its start ("None means the end is on the same day (or next if end_time <
\* start_time)", core/strategies/session_filter.py:116).
THEOREM UnnamedEndTakesTheWeek ==
  ASSUME NEW day \in 0..6, NEW minute \in 0..1439,
         NEW d1 \in 0..6, NEW t1 \in 0..1439, NEW t2 \in 0..1439, t2 < t1
  PROVE  InNamedDayWindow([day |-> day, minute |-> minute], d1, t1, NoDay, t2)
         <=> ~(day = d1 /\ t2 <= minute /\ minute < t1)
<1>1. InNamedDayWindow([day |-> day, minute |-> minute], d1, t1, NoDay, t2)
      <=> (day = d1 /\ minute >= t1) \/ (day = d1 /\ minute < t2) \/ day > d1 \/ day < d1
  BY DEF InNamedDayWindow, InOrder, NoDay
<1>2. day > d1 \/ day < d1 <=> day # d1
  OBVIOUS
<1> QED
  BY <1>1, <1>2

\* A window without days is the union of five, one from each weekday, and the
\* last of them ends on Saturday.
THEOREM WeeknightWindow ==
  ASSUME NEW day \in 0..6, NEW minute \in 0..1439, NEW t1 \in 0..1439, NEW t2 \in 0..1439
  PROVE  InWeeknightWindow([day |-> day, minute |-> minute], t1, t2)
         <=> \E d \in 0..4 : /\ 1440 * d + t1 <= 1440 * day + minute
                             /\ 1440 * day + minute < 1440 * d + t2 + (IF t1 > t2 THEN 1440 ELSE 0)
<1> DEFINE Night(d) == /\ 1440 * d + t1 <= 1440 * day + minute
                       /\ 1440 * day + minute < 1440 * d + t2 + (IF t1 > t2 THEN 1440 ELSE 0)
<1>1. InWeeknightWindow([day |-> day, minute |-> minute], t1, t2)
      <=> IF t1 > t2 THEN (day \in 0..4 /\ minute >= t1) \/ (day \in 1..5 /\ minute < t2)
          ELSE day \in 0..4 /\ t1 <= minute /\ minute < t2
  BY DEF InWeeknightWindow
<1>2. (IF t1 > t2 THEN (day \in 0..4 /\ minute >= t1) \/ (day \in 1..5 /\ minute < t2)
      ELSE day \in 0..4 /\ t1 <= minute /\ minute < t2)
      <=> Night(0) \/ Night(1) \/ Night(2) \/ Night(3) \/ Night(4)
  <2>1. CASE t1 > t2
    <3>1. ASSUME NEW d \in 0..4
          PROVE  Night(d) <=> (day = d /\ minute >= t1) \/ (day = d + 1 /\ minute < t2)
      BY <2>1
    <3> HIDE DEF Night
    <3> QED
      BY <2>1, <3>1
  <2>2. CASE t1 <= t2
    <3>1. ASSUME NEW d \in 0..4
          PROVE  Night(d) <=> day = d /\ t1 <= minute /\ minute < t2
      BY <2>2
    <3> HIDE DEF Night
    <3> QED
      BY <2>2, <3>1
  <2> QED
    BY <2>1, <2>2
<1>3. (\E d \in 0..4 : Night(d)) <=> Night(0) \/ Night(1) \/ Night(2) \/ Night(3) \/ Night(4)
  <2> HIDE DEF Night
  <2>1. 0..4 = {0, 1, 2, 3, 4}
    OBVIOUS
  <2> QED
    BY <2>1
<1> QED
  BY <1>1, <1>2, <1>3

-----------------------------------------------------------------------------
(* The invariant, book by book                                             *)

Balanced(b) == b.balance + (Unit + Fee) * b.basis = Unit * Slot + b.pnl

Conserved(b) == Lossless => Balanced(b)

\* candles to go are counted by the strategy's cooldown
Served(b) == Lossless => b.rest <= (IF b.st = "COOLDOWN" THEN b.cool ELSE 0)

\* the count of BUY candles is covered by consecutive signals
Earned(b) == Smart /\ b.size > 0 => b.count <= b.streak \/ b.streak = StreakBound

Good(b) == b \in Books /\ Conserved(b) /\ Served(b) /\ Earned(b)

IInv ==
    /\ TypeOK
    /\ Good(mem) /\ Good(db)
    /\ entered <= opens /\ entered <= entries

SignalNames == {"HOLD", "BUY", "SHORT", "SELL_FULL", "SELL_HALF"}

-----------------------------------------------------------------------------
(* Arithmetic                                                              *)

LEMMA SmallerType == ASSUME NEW a \in Nat, NEW b \in Nat PROVE Smaller(a, b) \in Nat
BY DEF Smaller

LEMMA BoundType == StreakBound \in Nat /\ \A i \in 0..1 : ScaleCandles[i] \in Nat /\ ScaleCandles[i] <= StreakBound
BY CounterAssumption DEF StreakBound

LEMMA ProductType == ASSUME NEW a \in Nat, NEW b \in Nat PROVE a * b \in Nat
OBVIOUS

LEMMA QuotientType == ASSUME NEW a \in Nat, NEW b \in Nat \ {0} PROVE a \div b \in Nat
OBVIOUS

LEMMA SizeType == ASSUME NEW t \in 0..2, NEW p \in Prices PROVE Size(t, p) \in Nat
<1>1. Slot * Tranches[t] \in Nat
  BY MoneyAssumption, ProductType
<1>2. (Slot * Tranches[t]) \div 100 \in Nat
  BY <1>1, QuotientType
<1>3. p \in Nat \ {0}
  BY MoneyAssumption
<1> QED
  BY <1>2, <1>3, QuotientType DEF Size

LEMMA CostType == ASSUME NEW q \in Nat, NEW p \in Prices PROVE Cost(q, p) \in Nat
<1>1. Unit + Fee \in Nat /\ p \in Nat
  BY MoneyAssumption
<1> QED
  BY <1>1, ProductType DEF Cost

-----------------------------------------------------------------------------
(* The ledger                                                              *)

LEMMA ExceptBought ==
  ASSUME NEW m \in Books, NEW s \in Nat, NEW b \in Int, NEW c \in Int
  PROVE  [m EXCEPT !.size = s, !.basis = b, !.balance = c] \in Books
BY DEF Books

LEMMA BoughtGood ==
  ASSUME NEW m \in Books, NEW q \in Nat, NEW p \in Prices
  PROVE  /\ Bought(m, q, p) \in Books
         /\ Balanced(m) => Balanced(Bought(m, q, p))
         /\ Bought(m, q, p).size = m.size + q
         /\ Bought(m, q, p).st = m.st /\ Bought(m, q, p).cool = m.cool
         /\ Bought(m, q, p).rest = m.rest /\ Bought(m, q, p).count = m.count
         /\ Bought(m, q, p).streak = m.streak
<1>1. p \in Nat /\ Unit \in Nat /\ Fee \in Nat /\ Slot \in Nat
  BY MoneyAssumption
<1>2. q * p \in Nat /\ Cost(q, p) \in Nat
  BY <1>1, ProductType, CostType
<1>3. Bought(m, q, p) \in Books
  <2>1. m.size + q \in Nat /\ m.basis + q * p \in Int /\ m.balance - Cost(q, p) \in Int
    BY <1>2 DEF Books
  <2> HIDE DEF Cost
  <2> QED
    BY <2>1, ExceptBought DEF Bought
<1>4. /\ Bought(m, q, p).balance = m.balance - Cost(q, p)
      /\ Bought(m, q, p).basis = m.basis + q * p
      /\ Bought(m, q, p).pnl = m.pnl
  BY DEF Bought, Books
<1>5. Cost(q, p) = (Unit + Fee) * (q * p)
  BY <1>1 DEF Cost
<1>6. (Unit + Fee) * (m.basis + q * p) = (Unit + Fee) * m.basis + (Unit + Fee) * (q * p)
  <2>1. m.basis \in Int
    BY DEF Books
  <2> QED
    BY <1>1, <1>2, <2>1
<1>7. Balanced(m) => Balanced(Bought(m, q, p))
  <2>1. m.basis \in Int /\ m.balance \in Int /\ m.pnl \in Int
    BY DEF Books
  <2>2. (Unit + Fee) * m.basis \in Int /\ Unit * Slot \in Int
    BY <1>1, <2>1
  <2>3. (Unit + Fee) * Bought(m, q, p).basis = (Unit + Fee) * m.basis + Cost(q, p)
    BY <1>4, <1>5, <1>6
  <2> QED
    BY <1>2, <1>4, <2>1, <2>2, <2>3 DEF Balanced
<1> QED
  BY <1>3, <1>7 DEF Bought, Books

LEMMA SoldGood ==
  ASSUME NEW m \in Books, NEW q \in 1..m.size, NEW p \in Prices
  PROVE  /\ Sold(m, q, p) \in Books
         /\ Balanced(m) => Balanced(Sold(m, q, p))
         /\ Sold(m, q, p).size = m.size - q
         /\ Sold(m, q, p).st = m.st /\ Sold(m, q, p).cool = m.cool
         /\ Sold(m, q, p).rest = m.rest /\ Sold(m, q, p).count = m.count
         /\ Sold(m, q, p).streak = m.streak
<1> DEFINE part == (m.basis * q) \div m.size
           proceeds == (Unit - Fee) * q * p
           made == IF Short THEN (Unit - Fee) * part - Cost(q, p) ELSE proceeds - (Unit + Fee) * part
           credit == IF Short THEN (Unit + Fee) * part + made ELSE proceeds
<1>1. /\ p \in Nat /\ Unit \in Nat /\ Fee \in Nat /\ Slot \in Nat /\ Unit - Fee \in Int
      /\ m.size \in Nat /\ q \in Nat /\ m.size > 0 /\ m.basis \in Int
      /\ m.balance \in Int /\ m.pnl \in Int
  BY MoneyAssumption DEF Books
<1>2. part \in Int
  <2>1. m.basis * q \in Int
    BY <1>1
  <2> QED
    BY <1>1, <2>1
<1>3. proceeds \in Int /\ (Unit + Fee) * part \in Int /\ (Unit - Fee) * part \in Int
  BY <1>1, <1>2
<1>4. made \in Int /\ credit \in Int
  BY <1>1, <1>3, CostType
<1>5. credit = (Unit + Fee) * part + made
  BY <1>3, <1>4
<1> HIDE DEF part, proceeds, made, credit
<1>6. Sold(m, q, p) = [m EXCEPT !.size = m.size - q, !.basis = m.basis - part,
                               !.balance = m.balance + credit, !.pnl = m.pnl + made,
                               !.scaled = IF q = m.size THEN 0 ELSE m.scaled]
  BY DEF Sold, part, proceeds, made, credit, Books
<1>7. Sold(m, q, p) \in Books
  <2>1. /\ m.size - q \in Nat /\ m.basis - part \in Int /\ m.balance + credit \in Int
        /\ m.pnl + made \in Int /\ (IF q = m.size THEN 0 ELSE m.scaled) \in 0..2
    BY <1>1, <1>2, <1>4 DEF Books
  <2> QED
    BY <1>6, <2>1 DEF Books
<1>8. Balanced(m) => Balanced(Sold(m, q, p))
  <2>1. /\ Sold(m, q, p).balance = m.balance + credit
        /\ Sold(m, q, p).basis = m.basis - part
        /\ Sold(m, q, p).pnl = m.pnl + made
    BY <1>6 DEF Books
  <2>2. (Unit + Fee) * (m.basis - part) = (Unit + Fee) * m.basis - (Unit + Fee) * part
    BY <1>1, <1>2
  <2>3. (Unit + Fee) * m.basis \in Int /\ Unit * Slot \in Int
    BY <1>1
  <2> DEFINE kept == (Unit + Fee) * m.basis
             gone == (Unit + Fee) * part
             capital == Unit * Slot
  <2>4. kept \in Int /\ gone \in Int /\ capital \in Int
    BY <1>3, <2>3
  <2>5. credit = gone + made /\ (Unit + Fee) * Sold(m, q, p).basis = kept - gone
    BY <1>5, <2>1, <2>2
  <2>6. Balanced(m) => m.balance + kept = capital + m.pnl
    BY DEF Balanced
  <2>7. m.balance + kept = capital + m.pnl =>
           (m.balance + credit) + (kept - gone) = capital + (m.pnl + made)
    <3> HIDE DEF kept, gone, capital
    <3> QED
      BY <1>1, <1>4, <2>4, <2>5
  <2>8. Balanced(Sold(m, q, p)) <=>
           (m.balance + credit) + (kept - gone) = capital + (m.pnl + made)
    BY <2>1, <2>5 DEF Balanced
  <2> QED
    BY <2>6, <2>7, <2>8
<1> QED
  BY <1>6, <1>7, <1>8 DEF Books

-----------------------------------------------------------------------------
(* The decision                                                            *)

\* a and b differ in the state machine only
SameBook(a, b) ==
    /\ a.count = b.count /\ a.size = b.size /\ a.basis = b.basis /\ a.scaled = b.scaled
    /\ a.balance = b.balance /\ a.pnl = b.pnl /\ a.rest = b.rest /\ a.streak = b.streak

Rested == IF mem.rest > 0 THEN mem.rest - 1 ELSE 0

LEMMA MachineType ==
  ASSUME NEW m \in Books, NEW s \in InPosition \cup {"FLAT", "COOLDOWN"}, NEW n \in Nat
  PROVE  /\ [m EXCEPT !.st = s] \in Books /\ SameBook([m EXCEPT !.st = s], m)
         /\ [m EXCEPT !.st = s].st = s /\ [m EXCEPT !.st = s].cool = m.cool
         /\ [m EXCEPT !.st = s, !.cool = n] \in Books
         /\ SameBook([m EXCEPT !.st = s, !.cool = n], m)
         /\ [m EXCEPT !.st = s, !.cool = n].st = s
BY DEF Books, SameBook

LEMMA CooledFacts ==
  ASSUME NEW m \in Books
  PROVE  /\ Cooled(m) \in Books /\ SameBook(Cooled(m), m)
         /\ Cooled(m).st = "COOLDOWN" => m.st = "COOLDOWN" /\ m.cool > 1 /\ Cooled(m).cool = m.cool - 1
         /\ m.st = "COOLDOWN" /\ Cooled(m).st # "COOLDOWN" => m.cool <= 1
<1>1. CASE m.st # "COOLDOWN"
  BY <1>1 DEF Cooled, SameBook
<1>2. CASE m.st = "COOLDOWN" /\ m.cool > 1
  <2>1. Cooled(m) = [m EXCEPT !.cool = m.cool - 1] /\ m.cool - 1 \in Nat
    BY <1>2 DEF Cooled, Books
  <2> QED
    BY <1>2, <2>1 DEF SameBook, Books
<1>3. CASE m.st = "COOLDOWN" /\ ~(m.cool > 1)
  <2>1. Cooled(m) = [m EXCEPT !.cool = 0, !.st = "FLAT"] /\ m.cool <= 1
    BY <1>3 DEF Cooled, Books
  <2>2. Cooled(m) \in Books
    <3>1. [m EXCEPT !.cool = 0] \in Books
      BY DEF Books
    <3>2. [[m EXCEPT !.cool = 0] EXCEPT !.st = "FLAT"] \in Books
      BY <3>1, MachineType
    <3>3. [m EXCEPT !.cool = 0, !.st = "FLAT"] = [[m EXCEPT !.cool = 0] EXCEPT !.st = "FLAT"]
      BY DEF Books
    <3> QED
      BY <2>1, <3>2, <3>3
  <2>3. SameBook(Cooled(m), m) /\ Cooled(m).st = "FLAT"
    BY <2>1 DEF SameBook, Books
  <2> QED
    BY <1>3, <2>1, <2>2, <2>3
<1> QED
  BY <1>1, <1>2, <1>3

LEMMA VerdictsRead == ASSUME strategy \in Strategies PROVE Market[strategy] \subseteq Verdicts
<1>1. strategy \in StrategyNames
  BY StrategyAssumption
<1> QED
  BY <1>1, VerdictType DEF Market

LEMMA CountedFacts ==
  ASSUME NEW m \in Books, NEW k \in Verdicts
  PROVE  /\ Counted(m, k) \in Books /\ SameBook(Counted(m, k), m) /\ Counted(m, k).st = m.st
<1>1. (IF Confirms /\ k.beyond THEN Smaller(m.beyond + 1, Confirm) ELSE 0) \in 0..Confirm
  BY CounterAssumption DEF Smaller, Books
<1> QED
  BY <1>1 DEF Counted, Books, SameBook

LEMMA DecideFacts ==
  ASSUME mem \in Books, Served(mem), NEW k \in Verdicts
  PROVE  /\ Decide(k).m \in Books /\ SameBook(Decide(k).m, mem)
         /\ Decide(k).signal \in SignalNames
         /\ Decide(k).signal = "SHORT" => Short
         /\ Decide(k).signal = "BUY" => ~Short
         /\ Lossless /\ Decide(k).signal \in {"BUY", "SHORT"} => Rested = 0
         /\ Lossless /\ Decide(k).signal \in {"SELL_FULL", "SELL_HALF"} => Rested = 0
         /\ Decide(k).signal = "SELL_FULL" /\ Smart =>
                Decide(k).m.st = "COOLDOWN" /\ Decide(k).m.cool = Cooldown
         /\ Lossless => Rested <= (IF Decide(k).m.st = "COOLDOWN" THEN Decide(k).m.cool ELSE 0)
         /\ Lossless => Rested <= (IF mem.st = "COOLDOWN" THEN Decide(k).m.cool ELSE 0)
<1> DEFINE c == Cooled(mem)
           m == Counted(c, k)
<1>1. /\ c \in Books /\ SameBook(c, mem)
      /\ c.st = "COOLDOWN" => mem.st = "COOLDOWN" /\ mem.cool > 1 /\ c.cool = mem.cool - 1
      /\ mem.st = "COOLDOWN" /\ c.st # "COOLDOWN" => mem.cool <= 1
  BY CooledFacts
<1>2. m \in Books /\ SameBook(m, c) /\ m.st = c.st
  BY <1>1, CountedFacts
<1>3. Lossless /\ c.st # "COOLDOWN" => Rested = 0
  BY <1>1 DEF Rested, Served, Books
<1>4. Rested \in Nat /\ (Lossless /\ c.st = "COOLDOWN" => Rested <= c.cool)
  BY <1>1 DEF Rested, Served, Books
<1>5. SameBook(m, mem)
  BY <1>1, <1>2 DEF SameBook
<1>6. CASE c.st = "COOLDOWN" \/ ~k.data
  <2>1. Decide(k) = [m |-> c, signal |-> "HOLD"]
    BY <1>2, <1>6 DEF Decide, Enters, InPosition, Exits
  <2> QED
    BY <1>1, <1>3, <1>4, <2>1 DEF SignalNames, Books
<1>7. CASE c.st # "COOLDOWN" /\ k.data /\ Exits(m, k)
  <2> DEFINE n == IF Smart THEN [m EXCEPT !.st = "COOLDOWN", !.cool = Cooldown] ELSE [m EXCEPT !.st = "FLAT"]
  <2>1. Decide(k) = [m |-> n, signal |-> "SELL_FULL"]
    BY <1>7 DEF Decide
  <2>2. n \in Books /\ SameBook(n, m)
    BY <1>2, MachineType, CounterAssumption
  <2>3. n \in Books /\ SameBook(n, mem)
    BY <1>5, <2>2 DEF SameBook
  <2>4. n.cool \in Nat /\ mem.cool \in Nat /\ (Lossless => Rested = 0)
    BY <1>3, <1>7, <2>3 DEF Books
  <2>5. Decide(k).m = n /\ Decide(k).signal = "SELL_FULL"
    BY <2>1
  <2>6. Smart => n.st = "COOLDOWN" /\ n.cool = Cooldown
    BY <1>2 DEF Books
  <2> HIDE DEF n
  <2> QED
    BY <2>3, <2>4, <2>5, <2>6 DEF SignalNames
<1>8. CASE c.st = "POSITION" /\ k.data /\ ~Exits(m, k) /\ k.fade
  <2> DEFINE n == [m EXCEPT !.st = "REDUCED"]
  <2>1. Decide(k) = [m |-> n, signal |-> "SELL_HALF"]
    BY <1>2, <1>8 DEF Decide, Enters
  <2>2. n \in Books /\ SameBook(n, m)
    BY <1>2, MachineType DEF InPosition
  <2>3. n \in Books /\ SameBook(n, mem)
    BY <1>5, <2>2 DEF SameBook
  <2>4. n.cool \in Nat /\ mem.cool \in Nat /\ (Lossless => Rested = 0)
    BY <1>3, <1>8, <2>3 DEF Books
  <2>5. Decide(k).m = n /\ Decide(k).signal = "SELL_HALF"
    BY <2>1
  <2> HIDE DEF n
  <2> QED
    BY <2>3, <2>4, <2>5 DEF SignalNames
<1>9. CASE c.st # "COOLDOWN" /\ k.data /\ ~Exits(m, k) /\ Enters(m, k)
  <2> DEFINE n == [m EXCEPT !.st = "POSITION"]
  <2>1. Decide(k) = [m |-> n, signal |-> IF Short THEN "SHORT" ELSE "BUY"]
    BY <1>2, <1>9 DEF Decide, Enters
  <2>2. n \in Books /\ SameBook(n, m)
    BY <1>2, MachineType DEF InPosition
  <2>3. n \in Books /\ SameBook(n, mem)
    BY <1>5, <2>2 DEF SameBook
  <2> QED
    BY <1>3, <1>9, <2>1, <2>3 DEF SignalNames, Books
<1>10. CASE /\ c.st # "COOLDOWN" /\ k.data /\ ~Exits(m, k)
            /\ ~Enters(m, k) /\ ~(c.st = "POSITION" /\ k.fade)
  <2>1. Decide(k) = [m |-> m, signal |-> "HOLD"]
    BY <1>2, <1>10 DEF Decide
  <2> QED
    BY <1>2, <1>3, <1>5, <1>10, <2>1 DEF SignalNames, Books
<1> QED
  BY <1>2, <1>6, <1>7, <1>8, <1>9, <1>10

LEMMA SignalFacts ==
  ASSUME IInv, NEW d \in Signals
  PROVE  /\ d.m \in Books /\ d.signal \in SignalNames
         /\ d.m.size = mem.size /\ d.m.count = mem.count /\ d.m.scaled = mem.scaled
         /\ d.m.rest = Rested
         /\ d.m.streak = IF d.signal = "BUY" THEN Smaller(mem.streak + 1, StreakBound) ELSE 0
         /\ Conserved(d.m)
         /\ d.signal = "SHORT" => Short
         /\ d.signal = "BUY" => ~Short
         /\ Lossless /\ d.signal \in {"BUY", "SHORT", "SELL_FULL", "SELL_HALF"} => Rested = 0
         /\ d.signal = "SELL_FULL" /\ Smart => d.m.st = "COOLDOWN" /\ d.m.cool = Cooldown
         /\ Lossless => Rested <= (IF d.m.st = "COOLDOWN" THEN d.m.cool ELSE 0)
         /\ Lossless => Rested <= (IF mem.st = "COOLDOWN" THEN d.m.cool ELSE 0)
<1>1. PICK k \in Verdicts, g \in Gates : d = Signalled(k, g)
  BY VerdictsRead DEF IInv, TypeOK, Signals
<1>2. mem \in Books /\ Served(mem) /\ Conserved(mem)
  BY DEF IInv, Good
<1> DEFINE e == Decide(k)
           signal == IF Gated(e.signal, g) THEN "HOLD" ELSE e.signal
           r == IF e.m.rest > 0 THEN e.m.rest - 1 ELSE 0
           n == IF signal = "BUY" THEN Smaller(e.m.streak + 1, StreakBound) ELSE 0
<1>3. /\ e.m \in Books /\ SameBook(e.m, mem) /\ e.signal \in SignalNames
      /\ e.signal = "SHORT" => Short
      /\ e.signal = "BUY" => ~Short
      /\ Lossless /\ e.signal \in {"BUY", "SHORT", "SELL_FULL", "SELL_HALF"} => Rested = 0
      /\ e.signal = "SELL_FULL" /\ Smart => e.m.st = "COOLDOWN" /\ e.m.cool = Cooldown
      /\ Lossless => Rested <= (IF e.m.st = "COOLDOWN" THEN e.m.cool ELSE 0)
      /\ Lossless => Rested <= (IF mem.st = "COOLDOWN" THEN e.m.cool ELSE 0)
  BY <1>2, DecideFacts
<1>4. r = Rested /\ r \in Nat
  BY <1>2, <1>3 DEF Rested, SameBook, Books
<1>5. e.m.streak = mem.streak /\ mem.streak \in Nat
  BY <1>2, <1>3 DEF SameBook, Books
<1>6. n \in Nat
  <2>1. e.m.streak + 1 \in Nat
    BY <1>5
  <2>2. Smaller(e.m.streak + 1, StreakBound) \in Nat
    BY <2>1, BoundType, SmallerType
  <2> HIDE DEF e
  <2> QED
    BY <2>2
<1>7. d.signal = signal /\ d.m = [e.m EXCEPT !.rest = r, !.streak = n]
  <2> HIDE DEF e
  <2>1. Signalled(k, g) = [signal |-> signal, m |-> [e.m EXCEPT !.rest = r, !.streak = n]]
    BY <1>3 DEF Signalled, e, Books
  <2> QED
    BY <1>1, <2>1
<1> HIDE DEF e, signal, r, n
<1>8. signal \in SignalNames /\ (signal # "HOLD" => signal = e.signal)
  BY <1>3 DEF signal, SignalNames
<1>9. d.m \in Books
  BY <1>3, <1>4, <1>6, <1>7 DEF Books
<1>10. /\ d.m.size = mem.size /\ d.m.count = mem.count /\ d.m.scaled = mem.scaled
       /\ d.m.balance = mem.balance /\ d.m.basis = mem.basis /\ d.m.pnl = mem.pnl
       /\ d.m.rest = r /\ d.m.streak = n /\ d.m.st = e.m.st /\ d.m.cool = e.m.cool
  BY <1>3, <1>7 DEF SameBook, Books
<1>11. Conserved(d.m)
  BY <1>2, <1>10 DEF Conserved, Balanced
<1>12. n = IF d.signal = "BUY" THEN Smaller(mem.streak + 1, StreakBound) ELSE 0
  BY <1>5, <1>7 DEF n
<1> QED
  BY <1>3, <1>4, <1>7, <1>8, <1>9, <1>10, <1>11, <1>12

-----------------------------------------------------------------------------
(* Updates of a book                                                       *)

\* a and b have the same money
SameMoney(a, b) == a.basis = b.basis /\ a.balance = b.balance /\ a.pnl = b.pnl

LEMMA MoneyKept ==
  ASSUME NEW a, NEW b, SameMoney(a, b), Conserved(b) PROVE Conserved(a)
BY DEF SameMoney, Conserved, Balanced

LEMMA CountUpdate ==
  ASSUME NEW m \in Books, NEW n \in Nat
  PROVE  LET b == [m EXCEPT !.count = n]
         IN  /\ b \in Books /\ SameMoney(b, m) /\ b.count = n /\ b.size = m.size
             /\ b.st = m.st /\ b.cool = m.cool /\ b.rest = m.rest /\ b.streak = m.streak
             /\ b.scaled = m.scaled
BY DEF Books, SameMoney

LEMMA ScaledUpdate ==
  ASSUME NEW m \in Books, NEW n \in 0..2
  PROVE  LET b == [m EXCEPT !.scaled = n]
         IN  /\ b \in Books /\ SameMoney(b, m) /\ b.count = m.count /\ b.size = m.size
             /\ b.st = m.st /\ b.cool = m.cool /\ b.rest = m.rest /\ b.streak = m.streak
             /\ b.scaled = n
BY DEF Books, SameMoney

LEMMA RolledBackFacts ==
  ASSUME NEW m \in Books, mem \in Books
  PROVE  LET b == RolledBack(m)
         IN  /\ b \in Books /\ SameMoney(b, m) /\ b.count = m.count /\ b.size = m.size
             /\ b.st = mem.st /\ b.cool = m.cool /\ b.rest = m.rest /\ b.streak = m.streak
             /\ b.scaled = m.scaled
BY DEF RolledBack, Books, SameMoney

LEMMA RestUpdate ==
  ASSUME NEW m \in Books, NEW n \in Nat
  PROVE  LET b == [m EXCEPT !.rest = n]
         IN  /\ b \in Books /\ SameMoney(b, m) /\ b.count = m.count /\ b.size = m.size
             /\ b.st = m.st /\ b.cool = m.cool /\ b.rest = n /\ b.streak = m.streak
             /\ b.scaled = m.scaled
BY DEF Books, SameMoney

LEMMA CoolingFacts ==
  ASSUME NEW m \in Books, NEW n \in Nat
  PROVE  LET b == Cooling(m, n)
         IN  b \in Books /\ SameMoney(b, m) /\ b.size = m.size /\ Served(b)
<1> DEFINE s == IF n > 0 THEN "COOLDOWN" ELSE m.st
           c == IF n > 0 THEN n ELSE m.cool
           b == Cooling(m, n)
           r == [m EXCEPT !.rest = n]
<1>1. s \in InPosition \cup {"FLAT", "COOLDOWN"} /\ c \in Nat
  BY DEF Books
<1>2. n <= (IF s = "COOLDOWN" THEN c ELSE 0)
  BY <1>1
<1>3. r \in Books /\ SameMoney(r, m) /\ r.size = m.size /\ r.rest = n
  BY RestUpdate
<1>4. b = [r EXCEPT !.st = s, !.cool = c]
  BY DEF Cooling, Books
<1> HIDE DEF s, c, r, b
<1>5. /\ b \in Books /\ b.size = r.size /\ b.rest = r.rest /\ b.st = s /\ SameBook(b, r)
  <2>1. b \in Books /\ SameBook(b, r) /\ b.st = s
    BY <1>1, <1>3, <1>4, MachineType
  <2> QED
    BY <2>1 DEF SameBook
<1>6. b.cool = c
  BY <1>3, <1>4 DEF Books
<1>7. SameMoney(b, m)
  BY <1>3, <1>5 DEF SameBook, SameMoney
<1>8. Served(b)
  BY <1>2, <1>3, <1>5, <1>6 DEF Served
<1> QED
  BY <1>3, <1>5, <1>7, <1>8 DEF b

\* the count of BUY candles is covered, in a position or before one
Covered(m) == Smart => m.count <= m.streak \/ m.streak = StreakBound

Counters ==
    /\ opens \in 0..MaxDaily /\ entered \in 0..MaxEntries /\ entries \in 0..MaxEntries
    /\ pc \in {"idle", "persist"}
    /\ entered <= opens /\ entered <= entries

LEMMA InvariantParts ==
  ASSUME IInv
  PROVE  /\ mem \in Books /\ db \in Books /\ Good(mem) /\ Good(db) /\ Counters
         /\ Conserved(mem) /\ Served(mem) /\ strategy \in Strategies
BY DEF IInv, TypeOK, Good, Counters

LEMMA InvariantNext ==
  ASSUME IInv, UNCHANGED strategy, Good(mem'), Good(db'), Counters'
  PROVE  IInv'
BY DEF IInv, TypeOK, Good, Conserved, Balanced, Served, Earned, Smart, Counters

-----------------------------------------------------------------------------
(* An entry                                                                *)

LEMMA EnterFacts ==
  ASSUME IInv, NEW m \in Books, NEW q \in Nat, NEW p \in Prices,
         Conserved(m), Served(m), Served(RolledBack(m)), Covered(m),
         opens < MaxDaily, Enter(m, q, p)
  PROVE  /\ Good(mem') /\ Counters'
         /\ entries' > entries => mem'.rest = m.rest /\ mem'.streak = m.streak
<1>1. mem \in Books /\ Counters
  BY InvariantParts
<1>2. CASE /\ Cost(q, p) <= m.balance /\ entries < MaxEntries
           /\ Finish(Bought(m, q, p))
           /\ entered' = entered + 1 /\ entries' = entries + 1
  <2>1. mem' = Bought(m, q, p) /\ pc' = "persist"
    BY <1>2 DEF Finish
  <2>2. /\ mem' \in Books /\ (Balanced(m) => Balanced(mem'))
        /\ mem'.st = m.st /\ mem'.cool = m.cool
        /\ mem'.rest = m.rest /\ mem'.count = m.count /\ mem'.streak = m.streak
    BY <2>1, BoughtGood
  <2>3. Good(mem')
    BY <2>2 DEF Good, Conserved, Served, Covered, Earned
  <2>4. Counters'
    BY <1>1, <1>2, <2>1, CounterAssumption DEF Counters, Enter
  <2> QED
    BY <2>2, <2>3, <2>4
<1>3. CASE Finish([RolledBack(m) EXCEPT !.scaled = mem.scaled]) /\ UNCHANGED <<entered, entries>>
  <2> DEFINE r == RolledBack(m)
             b == [r EXCEPT !.scaled = mem.scaled]
  <2>1. mem' = b /\ pc' = "persist"
    BY <1>3 DEF Finish
  <2>2. r \in Books /\ SameMoney(r, m) /\ r.count = m.count /\ r.streak = m.streak
    BY <1>1, RolledBackFacts
  <2>3. mem.scaled \in 0..2
    BY <1>1 DEF Books
  <2> HIDE DEF r
  <2>4. /\ b \in Books /\ SameMoney(b, r) /\ b.count = r.count /\ b.streak = r.streak
        /\ b.st = r.st /\ b.cool = r.cool /\ b.rest = r.rest
    BY <2>2, <2>3, ScaledUpdate
  <2>5. Conserved(b)
    BY <2>2, <2>4, MoneyKept DEF r
  <2>6. Served(b)
    BY <2>4 DEF Served, r
  <2>7. Earned(b)
    BY <2>2, <2>4 DEF Earned, Covered
  <2>8. Counters'
    BY <1>1, <1>3, <2>1, CounterAssumption DEF Counters, Enter
  <2> QED
    BY <1>1, <1>3, <2>1, <2>4, <2>5, <2>6, <2>7, <2>8 DEF Good, Counters
<1>4. CASE /\ Cost(q, p) > m.balance /\ "funds" \in Faults
           /\ mem' = [m EXCEPT !.scaled = mem.scaled] /\ pc' = "idle" /\ UNCHANGED <<entered, entries>>
  <2> DEFINE b == [m EXCEPT !.scaled = mem.scaled]
  <2>1. mem.scaled \in 0..2
    BY <1>1 DEF Books
  <2>2. /\ b \in Books /\ SameMoney(b, m) /\ b.count = m.count /\ b.streak = m.streak
        /\ b.st = m.st /\ b.cool = m.cool /\ b.rest = m.rest
    BY <2>1, ScaledUpdate
  <2>3. Conserved(b)
    BY <2>2, MoneyKept
  <2>4. Good(b)
    BY <2>2, <2>3 DEF Good, Served, Earned, Covered
  <2>5. Counters'
    BY <1>1, <1>4, CounterAssumption DEF Counters, Enter
  <2> QED
    BY <1>1, <1>4, <2>4, <2>5 DEF Counters
<1> QED
  BY <1>2, <1>3, <1>4 DEF Enter

-----------------------------------------------------------------------------
(* The actions: what each leaves in memory                                 *)

\* A tick without an entry
NoEntry == Good(mem') /\ Counters' /\ entries' = entries /\ UNCHANGED <<strategy, db>>

LEMMA NoEntryCounters ==
  ASSUME IInv, Uncounted, pc' \in {"idle", "persist"} PROVE Counters' /\ entries' = entries
BY InvariantParts DEF Counters, Uncounted

LEMMA StopStep == ASSUME IInv, NEW p \in Prices, TickStop(p) PROVE NoEntry
<1> DEFINE z == [mem EXCEPT !.streak = 0]
           q == mem.size
           x == Sold(z, q, p)
<1>1. PICK candles \in Nat : Finish(Cooling(x, candles))
  BY CounterAssumption DEF TickStop
<1>2. mem \in Books /\ Conserved(mem)
  BY InvariantParts
<1>3. z \in Books /\ SameMoney(z, mem) /\ z.size = mem.size
  BY <1>2 DEF Books, SameMoney
<1>4. q \in 1..z.size /\ q \in Nat /\ z.size - q = 0
  BY <1>2, <1>3 DEF TickStop, Books
<1> HIDE DEF z, q
<1>5. x \in Books /\ x.size = 0 /\ (Balanced(z) => Balanced(x))
  BY <1>3, <1>4, SoldGood
<1> HIDE DEF x
<1>6. Conserved(x)
  BY <1>2, <1>3, <1>5, MoneyKept DEF Conserved
<1>7. /\ Cooling(x, candles) \in Books /\ SameMoney(Cooling(x, candles), x)
      /\ Cooling(x, candles).size = 0 /\ Served(Cooling(x, candles))
  BY <1>5, CoolingFacts
<1>8. mem' = Cooling(x, candles) /\ pc' = "persist"
  BY <1>1 DEF Finish
<1>9. Good(mem')
  BY <1>6, <1>7, <1>8, MoneyKept DEF Good, Earned
<1> QED
  BY <1>8, <1>9, NoEntryCounters DEF NoEntry, TickStop

LEMMA HoldStep == ASSUME IInv, NEW d \in Signals, TickHold(d) PROVE NoEntry
<1> DEFINE r == RolledBack(d.m)
           n == IF mem.size > 0 THEN 0 ELSE r.count
           b == [r EXCEPT !.count = n]
<1>1. mem \in Books /\ d.m \in Books /\ d.m.size = mem.size /\ Conserved(d.m)
  BY InvariantParts, SignalFacts
<1>2. /\ r \in Books /\ SameMoney(r, d.m) /\ r.size = mem.size /\ r.st = mem.st
      /\ r.cool = d.m.cool /\ r.rest = d.m.rest
  BY <1>1, RolledBackFacts
<1>3. n \in Nat /\ mem' = b /\ pc' = "persist"
  BY <1>2 DEF Books, TickHold, Finish
<1>4. Served(r)
  BY <1>2, SignalFacts DEF Served
<1>5. Conserved(r)
  BY <1>1, <1>2, MoneyKept
<1>6. mem.size > 0 => n = 0
  OBVIOUS
<1> HIDE DEF r, n
<1>7. /\ b \in Books /\ SameMoney(b, r) /\ b.size = mem.size /\ b.count = n
      /\ b.st = r.st /\ b.cool = r.cool /\ b.rest = r.rest
  BY <1>2, <1>3, CountUpdate
<1>8. Conserved(b) /\ Served(b)
  BY <1>4, <1>5, <1>7, MoneyKept DEF Served
<1>9. Earned(b)
  BY <1>6, <1>7 DEF Earned, Books
<1> QED
  BY <1>3, <1>7, <1>8, <1>9, NoEntryCounters DEF NoEntry, Good, TickHold

LEMMA SellStep == ASSUME IInv, NEW d \in Signals, NEW p \in Prices, TickSell(d, p) PROVE NoEntry
<1> DEFINE m == [d.m EXCEPT !.count = 0]
<1>1. /\ mem \in Books /\ d.m \in Books /\ d.m.size = mem.size /\ Conserved(d.m)
      /\ Lossless => d.m.rest = 0
      /\ d.signal = "SELL_FULL" /\ Smart => d.m.st = "COOLDOWN" /\ d.m.cool = Cooldown
  BY InvariantParts, SignalFacts DEF TickSell
<1>2. /\ m \in Books /\ SameMoney(m, d.m) /\ m.size = mem.size /\ m.count = 0
      /\ m.st = d.m.st /\ m.cool = d.m.cool /\ (Lossless => m.rest = 0)
  BY <1>1, CountUpdate
<1>3. Conserved(m) /\ mem.size \in Nat /\ m.cool \in Nat
  BY <1>1, <1>2, MoneyKept DEF Books
<1>4. Uncounted /\ UNCHANGED <<strategy, db>>
  BY DEF TickSell
<1>5. \/ mem.size = 0 /\ Finish(RolledBack(m))
      \/ mem.size > 0 /\ d.signal = "SELL_HALF" /\ Finish(Sold(m, (mem.size + 1) \div 2, p))
      \/ mem.size > 0 /\ d.signal = "SELL_FULL"
         /\ Finish([Sold(m, mem.size, p) EXCEPT !.rest = IF Smart THEN Cooldown ELSE @])
  BY DEF TickSell
<1> HIDE DEF m
<1>6. CASE mem.size = 0 /\ Finish(RolledBack(m))
  <2>1. /\ RolledBack(m) \in Books /\ SameMoney(RolledBack(m), m)
        /\ RolledBack(m).size = 0 /\ RolledBack(m).cool \in Nat
        /\ Lossless => RolledBack(m).rest = 0
    BY <1>1, <1>2, <1>3, <1>6, RolledBackFacts
  <2>2. Good(RolledBack(m))
    BY <1>3, <2>1, MoneyKept DEF Good, Served, Earned
  <2> QED
    BY <1>4, <1>6, <2>2, NoEntryCounters DEF NoEntry, Finish
<1>7. CASE mem.size > 0 /\ d.signal = "SELL_HALF" /\ Finish(Sold(m, (mem.size + 1) \div 2, p))
  <2> DEFINE q == (mem.size + 1) \div 2
             x == Sold(m, q, p)
  <2>1. q \in 1..m.size
    BY <1>2, <1>3, <1>7
  <2> HIDE DEF q
  <2>2. /\ x \in Books /\ (Balanced(m) => Balanced(x)) /\ (Lossless => x.rest = 0) /\ x.count = 0
        /\ x.cool = m.cool /\ x.streak \in Nat
    <3>1. /\ x \in Books /\ (Balanced(m) => Balanced(x))
          /\ x.rest = m.rest /\ x.count = m.count /\ x.cool = m.cool
      BY <1>2, <2>1, SoldGood
    <3> HIDE DEF x
    <3> QED
      BY <1>2, <3>1 DEF Books
  <2> HIDE DEF x
  <2>3. Good(x)
    BY <1>3, <2>2 DEF Good, Conserved, Served, Earned
  <2> QED
    BY <1>4, <1>7, <2>3, NoEntryCounters DEF NoEntry, Finish, q, x
<1>8. CASE mem.size > 0 /\ d.signal = "SELL_FULL"
           /\ Finish([Sold(m, mem.size, p) EXCEPT !.rest = IF Smart THEN Cooldown ELSE @])
  <2> DEFINE q == mem.size
             x == Sold(m, q, p)
             n == IF Smart THEN Cooldown ELSE x.rest
             b == [x EXCEPT !.rest = n]
  <2>1. q \in 1..m.size /\ m.size - q = 0
    BY <1>2, <1>3, <1>8
  <2> HIDE DEF q
  <2>2. /\ x \in Books /\ (Balanced(m) => Balanced(x)) /\ x.rest \in Nat /\ (Lossless => x.rest = 0)
        /\ x.cool = m.cool /\ x.st = m.st /\ x.size = 0
    <3>1. /\ x \in Books /\ (Balanced(m) => Balanced(x)) /\ x.rest = m.rest
          /\ x.cool = m.cool /\ x.st = m.st /\ x.size = 0
      BY <1>2, <2>1, SoldGood
    <3> HIDE DEF x
    <3> QED
      BY <1>2, <3>1 DEF Books
  <2>3. mem' = b /\ pc' = "persist"
    BY <1>8 DEF Finish, q
  <2> HIDE DEF x
  <2>4. n \in Nat /\ (Lossless => n <= (IF x.st = "COOLDOWN" THEN x.cool ELSE 0))
    BY <1>1, <1>2, <1>3, <1>8, <2>2, CounterAssumption
  <2> HIDE DEF n
  <2>5. /\ b \in Books /\ SameMoney(b, x) /\ b.size = x.size /\ b.rest = n
        /\ b.st = x.st /\ b.cool = x.cool
    BY <2>2, <2>4, RestUpdate
  <2>6. Conserved(b)
    BY <1>3, <2>2, <2>5, MoneyKept DEF Conserved
  <2>7. Good(b)
    BY <2>2, <2>4, <2>5, <2>6 DEF Good, Served, Earned
  <2> QED
    BY <1>4, <2>3, <2>7, NoEntryCounters DEF NoEntry
<1> QED
  BY <1>5, <1>6, <1>7, <1>8

LEMMA OpenStep ==
  ASSUME IInv, NEW d \in Signals, NEW p \in Prices, TickOpen(d, p)
  PROVE  Good(mem') /\ Counters' /\ UNCHANGED <<strategy, db>> /\ (Lossless /\ entries' > entries => mem'.rest = 0)
<1> DEFINE n == IF Short THEN d.m.count ELSE 1
           m == [d.m EXCEPT !.count = n]
           q == Size(0, p)
<1>1. /\ mem \in Books /\ d.m \in Books /\ d.m.size = mem.size /\ Conserved(d.m)
      /\ Lossless => d.m.rest = 0
      /\ d.signal = "SHORT" => Short
      /\ d.m.streak = IF d.signal = "BUY" THEN Smaller(mem.streak + 1, StreakBound) ELSE 0
  BY InvariantParts, SignalFacts DEF TickOpen
<1>2. n \in Nat /\ q \in Nat /\ mem.size = 0 /\ UNCHANGED <<strategy, db>>
  BY <1>1, SizeType DEF Books, TickOpen
<1>3. IF Limited(q) THEN Finish(RolledBack(m)) /\ Uncounted ELSE Enter(m, q, p)
  BY <1>1 DEF TickOpen, Books
<1>4. Smart => n = 1 /\ d.signal = "BUY"
  BY <1>1 DEF Smart, Short, TickOpen
<1> HIDE DEF n, q
<1>5. /\ m \in Books /\ SameMoney(m, d.m) /\ m.size = 0 /\ m.count = n
      /\ m.st = d.m.st /\ m.cool = d.m.cool /\ (Lossless => m.rest = 0) /\ m.streak = d.m.streak
  BY <1>1, <1>2, CountUpdate
<1> HIDE DEF m
<1>6. Conserved(m) /\ Served(m)
  <2>1. m.cool \in Nat
    BY <1>5 DEF Books
  <2> QED
    BY <1>1, <1>5, <2>1, MoneyKept DEF Served
<1>7. /\ RolledBack(m) \in Books /\ SameMoney(RolledBack(m), m)
      /\ RolledBack(m).size = 0 /\ RolledBack(m).cool \in Nat
      /\ Lossless => RolledBack(m).rest = 0
  BY <1>1, <1>5, RolledBackFacts DEF Books
<1>8. Served(RolledBack(m))
  BY <1>7 DEF Served
<1>9. Covered(m)
  <2>1. mem.streak \in Nat /\ StreakBound \in Nat
    BY <1>1, BoundType DEF Books
  <2> QED
    BY <1>1, <1>4, <1>5, <2>1 DEF Covered, Smaller
<1>10. CASE Limited(q)
  <2>1. Good(RolledBack(m))
    BY <1>6, <1>7, <1>8, MoneyKept DEF Good, Earned
  <2>2. Counters' /\ entries' = entries
    BY <1>3, <1>10, NoEntryCounters DEF Finish
  <2> QED
    BY <1>2, <1>3, <1>7, <1>10, <2>1, <2>2 DEF Finish
<1>11. CASE ~Limited(q)
  <2>1. opens < MaxDaily
    BY <1>11, InvariantParts, CounterAssumption DEF Limited, Counters
  <2> QED
    BY <1>2, <1>3, <1>5, <1>6, <1>8, <1>9, <1>11, <2>1, EnterFacts
<1> QED
  BY <1>10, <1>11

LEMMA ScaleInStep ==
  ASSUME IInv, NEW d \in Signals, NEW p \in Prices, TickScaleIn(d, p)
  PROVE  /\ Good(mem') /\ Counters' /\ UNCHANGED <<strategy, db>>
         /\ entries' > entries => mem'.streak >= ScaleCandles[mem.scaled]
<1> DEFINE n == Smaller(d.m.count + 1, StreakBound)
           m == [d.m EXCEPT !.count = n]
           q == Size(mem.scaled + 1, p)
           s == m.scaled + 1
           w == [m EXCEPT !.scaled = s]
<1>1. /\ mem \in Books /\ d.m \in Books /\ d.m.size = mem.size /\ Conserved(d.m)
      /\ Lossless => d.m.rest = 0
      /\ d.m.count = mem.count /\ d.m.scaled = mem.scaled /\ d.signal = "BUY"
      /\ d.m.streak = Smaller(mem.streak + 1, StreakBound)
  BY InvariantParts, SignalFacts DEF TickScaleIn
<1>2. /\ mem.count \in Nat /\ mem.streak \in Nat /\ StreakBound \in Nat /\ mem.size > 0
      /\ mem.scaled \in 0..2 /\ UNCHANGED <<strategy, db>>
  BY <1>1, BoundType DEF Books, TickScaleIn
<1>3. n \in Nat
  BY <1>1, <1>2 DEF Smaller
<1>4. IF ~Due(mem.count + 1) \/ Limited(q)
      THEN Finish(RolledBack(m)) /\ Uncounted ELSE Enter(w, q, p)
  BY DEF TickScaleIn
<1>5. Smart => mem.count <= mem.streak \/ mem.streak = StreakBound
  BY <1>2, InvariantParts DEF Good, Earned
<1>6. Smart => n <= d.m.streak \/ d.m.streak = StreakBound
  BY <1>1, <1>2, <1>5 DEF Smaller
<1> HIDE DEF n, q
<1>7. /\ m \in Books /\ SameMoney(m, d.m) /\ m.size = mem.size /\ m.count = n /\ m.scaled = mem.scaled
      /\ m.st = d.m.st /\ m.cool = d.m.cool /\ (Lossless => m.rest = 0) /\ m.streak = d.m.streak
  BY <1>1, <1>3, CountUpdate
<1> HIDE DEF m
<1>8. CASE ~Due(mem.count + 1) \/ Limited(q)
  <2>1. /\ RolledBack(m) \in Books /\ SameMoney(RolledBack(m), m)
        /\ Lossless => RolledBack(m).rest = 0
        /\ RolledBack(m).cool \in Nat
        /\ RolledBack(m).count = n /\ RolledBack(m).streak = d.m.streak
    BY <1>1, <1>7, RolledBackFacts DEF Books
  <2>2. Conserved(RolledBack(m))
    BY <1>1, <1>7, <2>1, MoneyKept
  <2>3. Good(RolledBack(m))
    BY <1>6, <2>1, <2>2 DEF Good, Served, Earned
  <2>4. Counters' /\ entries' = entries
    BY <1>4, <1>8, NoEntryCounters DEF Finish
  <2> QED
    BY <1>2, <1>4, <1>8, <2>3, <2>4, InvariantParts DEF Finish, Counters
<1>9. CASE Due(mem.count + 1) /\ ~Limited(q)
  <2>1. opens < MaxDaily /\ Smart /\ mem.scaled \in 0..1 /\ mem.count + 1 >= ScaleCandles[mem.scaled]
    BY <1>2, <1>9, InvariantParts, CounterAssumption DEF Limited, Counters, Due
  <2>2. q \in Nat
    <3>1. mem.scaled + 1 \in 0..2
      BY <2>1
    <3> QED
      BY <3>1, SizeType DEF q
  <2>3. s \in 0..2
    BY <1>7, <2>1
  <2> HIDE DEF s
  <2>4. /\ w \in Books /\ SameMoney(w, m) /\ w.count = n /\ w.st = m.st /\ w.cool = m.cool
        /\ (Lossless => w.rest = 0) /\ w.streak = d.m.streak
    BY <1>7, <2>3, ScaledUpdate
  <2> HIDE DEF w
  <2>5. Conserved(w) /\ w.cool \in Nat
    <3>1. Conserved(m)
      BY <1>1, <1>7, MoneyKept
    <3> QED
      BY <2>4, <3>1, MoneyKept DEF Books
  <2>6. Served(w) /\ Covered(w)
    BY <1>6, <2>4, <2>5 DEF Served, Covered
  <2>7. Served(RolledBack(w))
    <3>1. (Lossless => RolledBack(w).rest = 0) /\ RolledBack(w).cool = w.cool
      BY <1>1, <2>4, RolledBackFacts
    <3> QED
      BY <2>5, <3>1 DEF Served
  <2>8. Enter(w, q, p)
    BY <1>4, <1>9
  <2>9. /\ Good(mem') /\ Counters'
        /\ entries' > entries => mem'.rest = w.rest /\ mem'.streak = w.streak
    BY <2>1, <2>2, <2>4, <2>5, <2>6, <2>7, <2>8, EnterFacts
  <2>10. d.m.streak >= ScaleCandles[mem.scaled]
    BY <1>1, <1>2, <1>5, <2>1, BoundType DEF Smaller
  <2> QED
    BY <1>2, <2>4, <2>9, <2>10
<1> QED
  BY <1>8, <1>9

-----------------------------------------------------------------------------
(* The invariant is inductive                                              *)

LEMMA EmptiedUpdate ==
  ASSUME NEW m \in Books, NEW r \in Nat, NEW k \in Nat
  PROVE  [m EXCEPT !.size = 0, !.basis = 0, !.scaled = 0, !.rest = r, !.streak = k] \in Books
<1>1. 0 \in Nat /\ 0 \in Int /\ 0 \in 0..2
  OBVIOUS
<1> QED
  BY <1>1 DEF Books

LEMMA PersistStep == ASSUME IInv, Persist PROVE IInv'
<1>1. /\ Good(mem) /\ Good(db) /\ mem \in Books /\ db \in Books /\ mem' = mem
      /\ UNCHANGED strategy /\ Counters'
  BY InvariantParts DEF Persist, Uncounted, Counters
<1>2. CASE db' = mem \/ db' = db
  BY <1>1, <1>2, InvariantNext
<1>3. CASE /\ "persist" \in Faults /\ mem.size = 0
           /\ db' = [db EXCEPT !.size = 0, !.basis = 0, !.scaled = 0,
                               !.st = IF @ \in InPosition THEN mem.st ELSE @,
                               !.rest = mem.rest, !.streak = mem.streak]
  <2> DEFINE s == IF db.st \in InPosition THEN mem.st ELSE db.st
             r == mem.rest
             k == mem.streak
             e == [db EXCEPT !.size = 0, !.basis = 0, !.scaled = 0, !.rest = r, !.streak = k]
  <2>1. s \in InPosition \cup {"FLAT", "COOLDOWN"} /\ r \in Nat /\ k \in Nat
    BY <1>1 DEF Books
  <2>2. db' = [db EXCEPT !.size = 0, !.basis = 0, !.scaled = 0, !.st = s, !.rest = r, !.streak = k]
    BY <1>3
  <2> HIDE DEF s, r, k
  <2>3. e \in Books
    BY <1>1, <2>1, EmptiedUpdate
  <2>4. [e EXCEPT !.st = s] \in Books
    BY <2>1, <2>3, MachineType
  <2>5. db' = [e EXCEPT !.st = s]
    BY <1>1, <2>2 DEF Books
  <2>6. db'.size = 0
    BY <1>1, <2>2 DEF Books
  <2>7. Good(db')
    BY <1>3, <2>4, <2>5, <2>6 DEF Good, Conserved, Served, Lossless, Earned
  <2> QED
    BY <1>1, <2>7, InvariantNext
<1> QED
  BY <1>2, <1>3 DEF Persist

LEMMA Inductive == ASSUME IInv, [Next]_vars PROVE IInv'
<1>1. ASSUME NoEntry PROVE IInv'
  BY <1>1, InvariantParts, InvariantNext DEF NoEntry
<1>2. ASSUME NEW p \in Prices, TickStop(p) PROVE IInv'
  BY <1>1, <1>2, StopStep
<1>3. ASSUME NEW d \in Signals, TickHold(d) PROVE IInv'
  BY <1>1, <1>3, HoldStep
<1>4. ASSUME NEW d \in Signals, NEW p \in Prices, TickSell(d, p) PROVE IInv'
  BY <1>1, <1>4, SellStep
<1>5. ASSUME NEW d \in Signals, NEW p \in Prices, TickOpen(d, p) PROVE IInv'
  BY <1>5, OpenStep, InvariantParts, InvariantNext
<1>6. ASSUME NEW d \in Signals, NEW p \in Prices, TickScaleIn(d, p) PROVE IInv'
  BY <1>6, ScaleInStep, InvariantParts, InvariantNext
<1>7. CASE Persist
  BY <1>7, PersistStep
<1>8. CASE Restart
  <2>1. Counters'
    BY <1>8, InvariantParts, CounterAssumption DEF Restart, Counters
  <2> QED
    BY <1>8, <2>1, InvariantParts, InvariantNext DEF Restart
<1>9. CASE NewDay
  <2>1. Counters'
    BY <1>9, InvariantParts, CounterAssumption DEF NewDay, Counters
  <2> QED
    BY <1>9, <2>1, InvariantParts, InvariantNext DEF NewDay
<1>10. CASE UNCHANGED vars
  <2>1. Counters'
    BY <1>10, InvariantParts DEF vars, Counters
  <2> QED
    BY <1>10, <2>1, InvariantParts, InvariantNext DEF vars
<1> QED
  BY <1>2, <1>3, <1>4, <1>5, <1>6, <1>7, <1>8, <1>9, <1>10 DEF Next

LEMMA Initially == ASSUME Init PROVE IInv
<1>1. Unit * Slot \in Nat /\ (Unit + Fee) * 0 = 0
  BY MoneyAssumption
<1>2. Fresh \in Books
  BY <1>1, CounterAssumption DEF Fresh, Books
<1>3. Good(Fresh)
  BY <1>1, <1>2 DEF Good, Conserved, Balanced, Served, Earned, Fresh
<1> QED
  BY <1>2, <1>3, CounterAssumption DEF Init, IInv, TypeOK

LEMMA Invariant == Spec => []IInv
<1>1. Init => IInv
  BY Initially
<1>2. IInv /\ [Next]_vars => IInv'
  BY Inductive
<1> QED
  BY <1>1, <1>2, PTL DEF Spec

-----------------------------------------------------------------------------
(* Every book of the worker and of the rows keeps its types: sizes, counts and
   cooldowns never go negative, the tranche index stays in range, and the
   entries counted today never pass the limit.                             *)
THEOREM TypeCorrect == Spec => []TypeOK
<1>1. IInv => TypeOK
  BY DEF IInv
<1> QED
  BY <1>1, Invariant, PTL

(* As long as no persist fails, the ledger conserves money in memory and in
   the rows: through entries, scale-ins, partial and full exits of longs and
   shorts at any price and fee, crashes, restarts and lack of funds.        *)
THEOREM LedgerConserved == ASSUME Lossless PROVE Spec => []MoneyConserved
<1>1. IInv => MoneyConserved
  BY DEF IInv, Good, Conserved, Balanced, MoneyConserved
<1> QED
  BY <1>1, Invariant, PTL

(* No process executes more than max_trades_per_day entries in a day, scale-ins
   included.                                                                *)
THEOREM LimitHolds == Spec => []DailyLimit
<1>1. IInv => DailyLimit
  BY CounterAssumption DEF IInv, TypeOK, DailyLimit
<1> QED
  BY <1>1, Invariant, PTL

\* the steps that may execute an entry
LEMMA EntrySteps ==
  ASSUME IInv, [Next]_vars, entries' > entries
  PROVE  /\ Lossless /\ mem.size = 0 => mem'.rest = 0
         /\ mem.size > 0 => mem'.streak >= ScaleCandles[mem.scaled]
<1>1. entries \in Nat
  BY InvariantParts, CounterAssumption DEF Counters
<1>2. ASSUME NEW p \in Prices, TickStop(p) PROVE FALSE
  BY <1>1, <1>2 DEF TickStop, Uncounted
<1>3. ASSUME NEW d \in Signals, TickHold(d) PROVE FALSE
  BY <1>1, <1>3 DEF TickHold, Uncounted
<1>4. ASSUME NEW d \in Signals, NEW p \in Prices, TickSell(d, p) PROVE FALSE
  BY <1>1, <1>4 DEF TickSell, Uncounted
<1>5. ASSUME NEW d \in Signals, NEW p \in Prices, TickOpen(d, p)
      PROVE  mem.size = 0 /\ (Lossless => mem'.rest = 0)
  BY <1>5, OpenStep DEF TickOpen
<1>6. ASSUME NEW d \in Signals, NEW p \in Prices, TickScaleIn(d, p)
      PROVE  mem.size > 0 /\ mem'.streak >= ScaleCandles[mem.scaled]
  BY <1>6, ScaleInStep DEF TickScaleIn
<1>7. ~(Persist \/ Restart \/ NewDay \/ UNCHANGED vars)
  BY <1>1 DEF Persist, Restart, NewDay, Uncounted, vars
<1>8. mem.size \in Nat
  BY InvariantParts DEF Books
<1> QED
  BY <1>2, <1>3, <1>4, <1>5, <1>6, <1>7, <1>8 DEF Next

(* As long as no persist fails, no entry is executed before the candles its last
   exit asked for have gone by, whatever gates, limits, refusals, crashes and
   restarts come between.  After a failed one, the emergency cleanup removes the
   position from the rows but leaves their cooldown_remaining as it was
   (core/tasks/_persistence.py:233-234), and components rebuilt from them may
   enter on the next candle.                                                *)
THEOREM CooldownIsServed == ASSUME Lossless PROVE Spec => CooldownServed
<1>1. IInv /\ [Next]_vars => [entries' > entries /\ mem.size = 0 => mem'.rest = 0]_vars
  BY EntrySteps
<1> QED
  BY <1>1, Invariant, PTL DEF Spec, CooldownServed

(* Each scale-in follows as many consecutive BUY candles as its tranche asks
   for, across restarts and failed persists.                                *)
THEOREM ScaleInIsEarned == Spec => ScaleInEarned
<1>1. IInv /\ [Next]_vars =>
        [entries' > entries /\ mem.size > 0 => mem'.streak >= ScaleCandles[mem.scaled]]_vars
  BY EntrySteps
<1> QED
  BY <1>1, Invariant, PTL DEF Spec, ScaleInEarned

-----------------------------------------------------------------------------
(* Decisions and what they read                                            *)

\* The candle a position was opened on is decided a second time, when the next
\* one begins (core/tasks/_tick.py:52): that decision does not reverse the entry,
\* whenever what opens a position does not also count against it.
THEOREM EntryStands ==
  ASSUME mem \in Books, mem.st = "POSITION", NEW k \in Verdicts, k.entry, Consistent(k)
  PROVE  Decide(k).signal \in {"HOLD", "BUY", "SHORT"}
<1>1. k.data /\ ~k.exit /\ ~k.beyond /\ ~k.fade
  BY DEF Consistent
<1>2. Cooled(mem) = mem
  BY DEF Cooled
<1> DEFINE m == Counted(mem, k)
<1>3. m \in Books /\ m.st = mem.st /\ m.beyond = 0
  BY <1>1, CountedFacts DEF Counted, Books
<1>4. ~Exits(m, k)
  BY <1>1, <1>3, CounterAssumption DEF Exits
<1> HIDE DEF m
<1>5. Decide(k).signal = IF Enters(m, k) THEN (IF Short THEN "SHORT" ELSE "BUY") ELSE "HOLD"
  BY <1>1, <1>2, <1>4 DEF Decide, m
<1> QED
  BY <1>5

NeverTraded == entries = 0

\* mean_reversion asks for the 50-period average of the 1h candles
\* (core/strategies/mean_reversion.py:90), and that is computed only where
\* ema_hourly is 50: with any other setting, its default of 21 among them, it
\* never trades.
THEOREM BlindNeverTrades ==
  ASSUME Strategies = {"mean_reversion"}, MeanReversionConfig.ema_hourly # 50
  PROVE  Spec => []NeverTraded
<1>1. Init => NeverTraded
  BY DEF Init, NeverTraded
<1>2. IInv /\ NeverTraded /\ [Next]_vars => NeverTraded'
  <2> SUFFICES ASSUME IInv, entries = 0, [Next]_vars PROVE entries' = 0
    BY DEF NeverTraded
  <2>1. ASSUME NEW d \in Signals PROVE d.signal = "HOLD"
    <3>1. PICK k \in Market[strategy], g \in Gates : d = Signalled(k, g)
      BY DEF Signals
    <3>2. strategy = "mean_reversion"
      BY DEF IInv, TypeOK
    <3>3. k = NoVerdict
      BY <3>1, <3>2 DEF Market, Verdict, MeanReversion, ReversionNamed
    <3>4. ~k.data
      BY <3>3 DEF NoVerdict
    <3>5. Decide(k).signal = "HOLD"
      BY <3>4 DEF Decide
    <3> QED
      BY <3>1, <3>5 DEF Signalled
  <2>2. CASE \E p \in Prices : TickStop(p)
    BY <2>2 DEF TickStop, Uncounted
  <2>3. CASE \E d \in Signals : TickHold(d)
    BY <2>3 DEF TickHold, Uncounted
  <2>4. CASE \E d \in Signals, p \in Prices : TickSell(d, p) \/ TickOpen(d, p) \/ TickScaleIn(d, p)
    BY <2>1, <2>4 DEF TickSell, TickOpen, TickScaleIn
  <2>5. CASE Persist \/ Restart \/ NewDay
    BY <2>5 DEF Persist, Restart, NewDay, Uncounted
  <2>6. CASE UNCHANGED vars
    BY <2>6 DEF vars
  <2> QED
    BY <2>2, <2>3, <2>4, <2>5, <2>6 DEF Next
<1> QED
  BY <1>1, <1>2, Invariant, PTL DEF Spec

-----------------------------------------------------------------------------
(* The refinement of Lifecycle                                             *)

\* Strategy and portfolio are in one phase, and what a POSITION holds can be
\* halved.
Fit(b) ==
    /\ b.st \in InPosition <=> b.size > 0
    /\ b.st = "POSITION" => b.size > 1

\* One of the transitions a strategy's documentation draws, or none
Turn ==
    \/ mem'.st = mem.st
    \/ mem.st \notin InPosition /\ mem'.st = "POSITION"
    \/ Smart /\ mem.st = "REDUCED" /\ mem'.st = "POSITION"
    \/ mem.st = "POSITION" /\ mem'.st = "REDUCED"
    \/ mem.st \in InPosition /\ mem'.st \in IF Smart THEN {"COOLDOWN"} ELSE {"FLAT", "COOLDOWN"}

LEMMA DecideTurns ==
  ASSUME mem \in Books, NEW k \in Verdicts
  PROVE  /\ Decide(k).signal = "SELL_FULL" =>
                Decide(k).m.st = (IF Smart THEN "COOLDOWN" ELSE "FLAT")
         /\ Decide(k).signal = "SELL_HALF" => mem.st = "POSITION" /\ Decide(k).m.st = "REDUCED"
         /\ Decide(k).signal \in {"BUY", "SHORT"} =>
                /\ Decide(k).m.st = "POSITION"
                /\ mem.st \in InPosition => Smart /\ mem.st = "REDUCED"
<1> DEFINE c == Cooled(mem)
           m == Counted(c, k)
<1>1. c \in Books /\ (mem.st # "COOLDOWN" => c = mem)
  BY CooledFacts DEF Cooled
<1>2. m \in Books /\ m.st = c.st
  BY <1>1, CountedFacts
<1>3. \A s \in InPosition \cup {"FLAT", "COOLDOWN"} :
          [m EXCEPT !.st = s].st = s /\ [m EXCEPT !.st = s, !.cool = Cooldown].st = s
  <2> HIDE DEF m
  <2> QED
    BY <1>2 DEF Books
<1>4. c.st \in InPosition => mem.st = c.st
  BY <1>1 DEF Cooled, InPosition, Books
<1>5. mem.st \in InPosition => c.st = mem.st
  BY <1>1 DEF InPosition
<1>6. CASE c.st = "COOLDOWN" \/ ~k.data
  <2>1. Decide(k) = [m |-> c, signal |-> "HOLD"]
    BY <1>2, <1>6 DEF Decide, Enters, InPosition, Exits
  <2> QED
    BY <2>1
<1>7. CASE c.st # "COOLDOWN" /\ k.data /\ Exits(m, k)
  <2> DEFINE n == IF Smart THEN [m EXCEPT !.st = "COOLDOWN", !.cool = Cooldown] ELSE [m EXCEPT !.st = "FLAT"]
  <2>1. Decide(k) = [m |-> n, signal |-> "SELL_FULL"]
    BY <1>7 DEF Decide
  <2>2. n.st = IF Smart THEN "COOLDOWN" ELSE "FLAT"
    BY <1>3
  <2> HIDE DEF n
  <2> QED
    BY <2>1, <2>2
<1>8. CASE c.st = "POSITION" /\ k.data /\ ~Exits(m, k) /\ k.fade
  <2> DEFINE n == [m EXCEPT !.st = "REDUCED"]
  <2>1. Decide(k) = [m |-> n, signal |-> "SELL_HALF"]
    BY <1>2, <1>8 DEF Decide, Enters
  <2>2. n.st = "REDUCED" /\ mem.st = "POSITION"
    BY <1>3, <1>4, <1>8 DEF InPosition
  <2> HIDE DEF n
  <2> QED
    BY <2>1, <2>2
<1>9. CASE c.st # "COOLDOWN" /\ k.data /\ ~Exits(m, k) /\ Enters(m, k)
  <2> DEFINE n == [m EXCEPT !.st = "POSITION"]
             g == IF Short THEN "SHORT" ELSE "BUY"
  <2>1. Decide(k) = [m |-> n, signal |-> g]
    BY <1>2, <1>9 DEF Decide, Enters
  <2>2. n.st = "POSITION" /\ g \in {"SHORT", "BUY"}
    BY <1>3 DEF InPosition
  <2>3. mem.st \in InPosition => Smart /\ mem.st = "REDUCED"
    BY <1>2, <1>5, <1>9 DEF Enters, InPosition
  <2> HIDE DEF n, g
  <2> QED
    BY <2>1, <2>2, <2>3
<1>10. CASE /\ c.st # "COOLDOWN" /\ k.data /\ ~Exits(m, k)
            /\ ~Enters(m, k) /\ ~(c.st = "POSITION" /\ k.fade)
  <2>1. Decide(k) = [m |-> m, signal |-> "HOLD"]
    BY <1>2, <1>10 DEF Decide
  <2> QED
    BY <2>1
<1> QED
  BY <1>2, <1>6, <1>7, <1>8, <1>9, <1>10

LEMMA SignalTurns ==
  ASSUME IInv, NEW d \in Signals
  PROVE  /\ d.signal = "SELL_FULL" => d.m.st = (IF Smart THEN "COOLDOWN" ELSE "FLAT")
         /\ d.signal = "SELL_HALF" => mem.st = "POSITION" /\ d.m.st = "REDUCED"
         /\ d.signal \in {"BUY", "SHORT"} =>
                /\ d.m.st = "POSITION"
                /\ mem.st \in InPosition => Smart /\ mem.st = "REDUCED"
<1>1. PICK k \in Verdicts, g \in Gates : d = Signalled(k, g)
  BY VerdictsRead DEF IInv, TypeOK, Signals
<1>2. mem \in Books /\ Served(mem)
  BY InvariantParts
<1> DEFINE e == Decide(k)
<1>3. e.m \in Books
  BY <1>2, DecideFacts
<1>4. d.signal \in {e.signal, "HOLD"} /\ d.m.st = e.m.st
  <2> DEFINE signal == IF Gated(e.signal, g) THEN "HOLD" ELSE e.signal
             r == IF e.m.rest > 0 THEN e.m.rest - 1 ELSE 0
             n == IF signal = "BUY" THEN Smaller(e.m.streak + 1, StreakBound) ELSE 0
  <2> HIDE DEF e
  <2>1. Signalled(k, g) = [signal |-> signal, m |-> [e.m EXCEPT !.rest = r, !.streak = n]]
    BY <1>3 DEF Signalled, e, Books
  <2>2. d.signal = signal /\ d.m = [e.m EXCEPT !.rest = r, !.streak = n]
    BY <1>1, <2>1
  <2> HIDE DEF r, n
  <2>3. [e.m EXCEPT !.rest = r, !.streak = n].st = e.m.st
    BY <1>3 DEF Books
  <2> QED
    BY <2>2, <2>3
<1> QED
  BY <1>2, <1>4, DecideTurns

\* What a refused entry, a hold, or a sale without a position leaves
LEMMA RolledBackFits ==
  ASSUME mem \in Books, Fit(mem), NEW m \in Books, m.size = mem.size, NEW b,
         b.st = RolledBack(m).st, b.size = m.size
  PROVE  Fit(b) /\ b.st = mem.st
BY RolledBackFacts DEF Fit

LEMMA StopTurns ==
  ASSUME IInv, Fit(mem), StopsCool, NEW p \in Prices, TickStop(p)
  PROVE  Fit(mem') /\ Turn
<1> DEFINE z == [mem EXCEPT !.streak = 0]
           q == mem.size
           x == Sold(z, q, p)
<1>1. PICK candles \in Nat : candles > 0 /\ Finish(Cooling(x, candles))
  BY CounterAssumption DEF TickStop, StopsCool
<1>2. mem \in Books /\ mem.size > 0 /\ mem.st \in InPosition
  BY InvariantParts DEF TickStop, Fit
<1>3. z \in Books /\ z.size = mem.size
  BY <1>2 DEF Books
<1>4. q \in 1..z.size /\ q \in Nat /\ z.size - q = 0
  BY <1>2, <1>3 DEF Books
<1> HIDE DEF z, q
<1>5. x \in Books /\ x.size = 0
  BY <1>3, <1>4, SoldGood
<1> HIDE DEF x
<1>6. Cooling(x, candles).size = 0 /\ Cooling(x, candles).st = "COOLDOWN"
  BY <1>1, <1>5 DEF Cooling, Books
<1>7. mem' = Cooling(x, candles)
  BY <1>1 DEF Finish
<1> QED
  BY <1>2, <1>6, <1>7 DEF Fit, Turn, InPosition

LEMMA HoldTurns ==
  ASSUME IInv, Fit(mem), NEW d \in Signals, TickHold(d)
  PROVE  Fit(mem') /\ Turn
<1> DEFINE r == RolledBack(d.m)
           n == IF mem.size > 0 THEN 0 ELSE r.count
           b == [r EXCEPT !.count = n]
<1>1. mem \in Books /\ d.m \in Books /\ d.m.size = mem.size
  BY InvariantParts, SignalFacts
<1>2. r \in Books /\ r.size = mem.size /\ r.st = mem.st
  BY <1>1, RolledBackFacts
<1>3. n \in Nat /\ mem' = b
  BY <1>2 DEF Books, TickHold, Finish
<1> HIDE DEF r, n
<1>4. b.size = mem.size /\ b.st = mem.st
  BY <1>2, <1>3, CountUpdate
<1> QED
  BY <1>3, <1>4 DEF Fit, Turn

LEMMA SellTurns ==
  ASSUME IInv, Fit(mem), NEW d \in Signals, NEW p \in Prices, TickSell(d, p)
  PROVE  Fit(mem') /\ Turn
<1> DEFINE m == [d.m EXCEPT !.count = 0]
<1>1. mem \in Books /\ d.m \in Books /\ d.m.size = mem.size /\ mem.size \in Nat
  BY InvariantParts, SignalFacts DEF Books
<1>2. m \in Books /\ m.size = mem.size /\ m.st = d.m.st
  BY <1>1, CountUpdate
<1>3. \/ mem.size = 0 /\ Finish(RolledBack(m))
      \/ mem.size > 0 /\ d.signal = "SELL_HALF" /\ Finish(Sold(m, (mem.size + 1) \div 2, p))
      \/ mem.size > 0 /\ d.signal = "SELL_FULL"
         /\ Finish([Sold(m, mem.size, p) EXCEPT !.rest = IF Smart THEN Cooldown ELSE @])
  BY DEF TickSell
<1> HIDE DEF m
<1>4. CASE mem.size = 0 /\ Finish(RolledBack(m))
  <2>1. mem'.size = mem.size /\ mem'.st = mem.st
    BY <1>1, <1>2, <1>4, RolledBackFacts DEF Finish
  <2> QED
    BY <2>1 DEF Fit, Turn
<1>5. CASE mem.size > 0 /\ d.signal = "SELL_HALF" /\ Finish(Sold(m, (mem.size + 1) \div 2, p))
  <2> DEFINE q == (mem.size + 1) \div 2
             x == Sold(m, q, p)
  <2>1. mem.st = "POSITION" /\ m.st = "REDUCED" /\ mem.size > 1
    BY <1>2, <1>5, SignalTurns DEF Fit
  <2>2. q \in 1..m.size /\ m.size - q > 0
    BY <1>1, <1>2, <2>1
  <2> HIDE DEF q
  <2>3. x.size > 0 /\ x.st = "REDUCED"
    BY <1>2, <2>1, <2>2, SoldGood
  <2> HIDE DEF x
  <2> QED
    BY <1>5, <2>1, <2>3 DEF Fit, Turn, InPosition, Finish, q, x
<1>6. CASE mem.size > 0 /\ d.signal = "SELL_FULL"
           /\ Finish([Sold(m, mem.size, p) EXCEPT !.rest = IF Smart THEN Cooldown ELSE @])
  <2> DEFINE q == mem.size
             x == Sold(m, q, p)
             n == IF Smart THEN Cooldown ELSE x.rest
             b == [x EXCEPT !.rest = n]
  <2>1. q \in 1..m.size /\ m.size - q = 0
    BY <1>1, <1>2, <1>6
  <2> HIDE DEF q
  <2>2. x \in Books /\ x.st = m.st /\ x.size = 0
    BY <1>2, <2>1, SoldGood
  <2>3. mem' = b
    BY <1>6 DEF Finish, q
  <2> HIDE DEF x
  <2>4. n \in Nat
    BY <2>2, CounterAssumption DEF Books
  <2> HIDE DEF n
  <2>5. b.size = 0 /\ b.st = m.st
    BY <2>2, <2>4, RestUpdate
  <2>6. m.st = IF Smart THEN "COOLDOWN" ELSE "FLAT"
    BY <1>2, <1>6, SignalTurns
  <2>7. mem.st \in InPosition
    BY <1>6 DEF Fit
  <2> QED
    BY <2>3, <2>5, <2>6, <2>7 DEF Fit, Turn, InPosition
<1> QED
  BY <1>3, <1>4, <1>5, <1>6

\* An entry that is executed leaves more than one unit; one that is not leaves
\* phase and size.
LEMMA EnterTurns ==
  ASSUME IInv, Fit(mem), Funded, NEW m \in Books, NEW q \in Nat, NEW p \in Prices,
         m.size = mem.size, m.st = "POSITION", mem.st \in InPosition => Smart /\ mem.st = "REDUCED",
         mem.size + q > 1, Enter(m, q, p)
  PROVE  Fit(mem') /\ Turn
<1>1. mem \in Books
  BY InvariantParts
<1>2. CASE Finish(Bought(m, q, p))
  <2>1. mem'.st = "POSITION" /\ mem'.size = mem.size + q
    BY <1>2, BoughtGood DEF Finish
  <2> QED
    BY <1>1, <2>1 DEF Fit, Turn, InPosition, Books
<1>3. CASE Finish([RolledBack(m) EXCEPT !.scaled = mem.scaled])
  <2> DEFINE r == RolledBack(m)
  <2>1. r \in Books /\ r.size = mem.size /\ r.st = mem.st /\ mem.scaled \in 0..2
    BY <1>1, RolledBackFacts DEF Books
  <2> HIDE DEF r
  <2>2. mem'.size = mem.size /\ mem'.st = mem.st
    BY <1>3, <2>1, ScaledUpdate DEF Finish, r
  <2> QED
    BY <2>2 DEF Fit, Turn
<1> QED
  BY <1>2, <1>3 DEF Enter, Funded

LEMMA OpenTurns ==
  ASSUME IInv, Fit(mem), Funded, Halvable, NEW d \in Signals, NEW p \in Prices, TickOpen(d, p)
  PROVE  Fit(mem') /\ Turn
<1> DEFINE n == IF Short THEN d.m.count ELSE 1
           m == [d.m EXCEPT !.count = n]
           q == Size(0, p)
<1>1. /\ mem \in Books /\ d.m \in Books /\ d.m.size = mem.size /\ mem.size = 0 /\ d.m.st = "POSITION"
  BY InvariantParts, SignalFacts, SignalTurns DEF TickOpen
<1>2. n \in Nat /\ q \in Nat /\ q # 1
  BY <1>1, SizeType DEF Books, Halvable
<1>3. IF Limited(q) THEN Finish(RolledBack(m)) /\ Uncounted ELSE Enter(m, q, p)
  BY <1>1 DEF TickOpen, Books
<1> HIDE DEF n, q
<1>4. m \in Books /\ m.size = mem.size /\ m.st = "POSITION"
  BY <1>1, <1>2, CountUpdate
<1> HIDE DEF m
<1>5. CASE Limited(q)
  <2>1. mem'.size = mem.size /\ mem'.st = mem.st
    BY <1>1, <1>3, <1>4, <1>5, RolledBackFacts DEF Finish
  <2> QED
    BY <2>1 DEF Fit, Turn
<1>6. CASE ~Limited(q)
  <2>1. mem.size + q > 1 /\ mem.st \notin InPosition
    BY <1>1, <1>2, <1>6 DEF Limited, Fit
  <2> QED
    BY <1>2, <1>3, <1>4, <1>6, <2>1, EnterTurns
<1> QED
  BY <1>5, <1>6

LEMMA ScaleInTurns ==
  ASSUME IInv, Fit(mem), Funded, NEW d \in Signals, NEW p \in Prices, TickScaleIn(d, p)
  PROVE  Fit(mem') /\ Turn
<1> DEFINE n == Smaller(d.m.count + 1, StreakBound)
           m == [d.m EXCEPT !.count = n]
           q == Size(mem.scaled + 1, p)
           s == m.scaled + 1
           w == [m EXCEPT !.scaled = s]
<1>1. /\ mem \in Books /\ d.m \in Books /\ d.m.size = mem.size /\ d.m.scaled = mem.scaled
      /\ d.m.st = "POSITION" /\ (mem.st \in InPosition => Smart /\ mem.st = "REDUCED") /\ mem.size > 0
  BY InvariantParts, SignalFacts, SignalTurns DEF TickScaleIn
<1>2. n \in Nat /\ mem.scaled \in 0..2 /\ mem.size \in Nat
  <2>1. d.m.count + 1 \in Nat
    BY <1>1 DEF Books
  <2> QED
    BY <1>1, <2>1, BoundType, SmallerType DEF Books
<1>3. IF ~Due(mem.count + 1) \/ Limited(q)
      THEN Finish(RolledBack(m)) /\ Uncounted ELSE Enter(w, q, p)
  BY DEF TickScaleIn
<1> HIDE DEF n, q
<1>4. m \in Books /\ m.size = mem.size /\ m.scaled = mem.scaled /\ m.st = "POSITION"
  BY <1>1, <1>2, CountUpdate
<1> HIDE DEF m
<1>5. CASE ~Due(mem.count + 1) \/ Limited(q)
  <2>1. mem'.size = mem.size /\ mem'.st = mem.st
    BY <1>1, <1>3, <1>4, <1>5, RolledBackFacts DEF Finish
  <2> QED
    BY <2>1 DEF Fit, Turn
<1>6. CASE Due(mem.count + 1) /\ ~Limited(q)
  <2>1. mem.scaled + 1 \in 0..2 /\ s \in 0..2
    BY <1>2, <1>4, <1>6 DEF Due
  <2>2. q \in Nat
    BY <2>1, SizeType DEF q
  <2>3. mem.size + q > 1
    BY <1>1, <1>2, <1>6, <2>2 DEF Limited
  <2> HIDE DEF s
  <2>4. w \in Books /\ w.size = mem.size /\ w.st = "POSITION"
    BY <1>4, <2>1, ScaledUpdate
  <2> HIDE DEF w
  <2> QED
    BY <1>1, <1>3, <1>6, <2>2, <2>3, <2>4, EnterTurns
<1> QED
  BY <1>5, <1>6

\* The rows take the worker's phase, or keep their own.
LEMMA PersistFits ==
  ASSUME IInv, Fit(mem), Fit(db), Persist
  PROVE  Fit(db') /\ db'.st \in {db.st, mem.st}
<1>1. mem \in Books /\ db \in Books
  BY InvariantParts
<1>2. CASE db' = mem \/ db' = db
  BY <1>2
<1>3. CASE /\ mem.size = 0
           /\ db' = [db EXCEPT !.size = 0, !.basis = 0, !.scaled = 0,
                               !.st = IF @ \in InPosition THEN mem.st ELSE @,
                               !.rest = mem.rest, !.streak = mem.streak]
  <2>1. db'.size = 0 /\ db'.st = IF db.st \in InPosition THEN mem.st ELSE db.st
    BY <1>1, <1>3 DEF Books
  <2>2. mem.st \notin InPosition
    BY <1>3 DEF Fit
  <2> QED
    BY <2>1, <2>2 DEF Fit, InPosition
<1> QED
  BY <1>2, <1>3 DEF Persist

Fits == Fit(mem) /\ Fit(db)

LEMMA FitNext ==
  ASSUME IInv, Fits, StopsCool, Funded, Halvable, [Next]_vars
  PROVE  /\ Fit(mem') /\ Fit(db')
         /\ \/ Turn /\ UNCHANGED <<strategy, db>>
            \/ UNCHANGED <<strategy, mem>> /\ db'.st \in {db.st, mem.st}
            \/ mem' = db /\ UNCHANGED <<strategy, db>>
<1> USE DEF Fits
<1>1. ASSUME NEW p \in Prices, TickStop(p) PROVE Fit(mem') /\ Turn /\ UNCHANGED <<strategy, db>>
  BY <1>1, StopTurns DEF TickStop
<1>2. ASSUME NEW d \in Signals, TickHold(d) PROVE Fit(mem') /\ Turn /\ UNCHANGED <<strategy, db>>
  BY <1>2, HoldTurns DEF TickHold
<1>3. ASSUME NEW d \in Signals, NEW p \in Prices, TickSell(d, p) \/ TickOpen(d, p) \/ TickScaleIn(d, p)
      PROVE  Fit(mem') /\ Turn /\ UNCHANGED <<strategy, db>>
  BY <1>3, SellTurns, OpenTurns, ScaleInTurns DEF TickSell, TickOpen, TickScaleIn
<1>4. CASE Persist
  BY <1>4, PersistFits DEF Persist
<1>5. CASE Restart
  BY <1>5 DEF Restart
<1>6. CASE NewDay \/ UNCHANGED vars
  BY <1>6 DEF NewDay, vars
<1> QED
  BY <1>1, <1>2, <1>3, <1>4, <1>5, <1>6 DEF Next

LEMMA PhaseIs == ASSUME NEW b, Fit(b) PROVE Phase(b) = b.st
BY DEF Phase, Fit

\* A step of the pair is a step of Lifecycle, or none.
LEMMA Simulates ==
  ASSUME IInv, Fits, Fits', StopsCool, Funded, Halvable, [Next]_vars
  PROVE  [Machine!Next]_(Machine!vars)
<1>1. /\ Phase(mem) = mem.st /\ Phase(db) = db.st
      /\ Phase(mem)' = mem'.st /\ Phase(db)' = db'.st
  <2>1. Phase(mem)' = mem'.st /\ Phase(db)' = db'.st
    BY DEF Fits, Fit, Phase
  <2> QED
    BY <2>1, PhaseIs DEF Fits
<1>2. mem.st \in InPosition \cup {"FLAT", "COOLDOWN"}
  BY InvariantParts DEF Books
<1>3. CASE Turn /\ UNCHANGED <<strategy, db>>
  <2>1. Phase(db)' = Phase(db) /\ strategy' = strategy
    BY <1>1, <1>3
  <2> QED
    BY <1>1, <1>2, <1>3, <2>1 DEF Turn, Smart, InPosition, Machine!Next, Machine!vars, Machine!Enter,
       Machine!Refill, Machine!Reduce, Machine!Exit, Machine!Stays, Machine!Out, Machine!Holding
<1>4. CASE UNCHANGED <<strategy, mem>> /\ db'.st \in {db.st, mem.st}
  BY <1>1, <1>4 DEF Machine!Next, Machine!vars, Machine!Save
<1>5. CASE mem' = db /\ UNCHANGED <<strategy, db>>
  BY <1>1, <1>5 DEF Machine!Next, Machine!vars, Machine!Recover, Machine!Stays
<1> QED
  BY <1>3, <1>4, <1>5, FitNext

\* PaperTrading implements Lifecycle: strategy and portfolio never part, and the
\* pair moves along the documented transitions only, for every market, gate,
\* limit, refused order, failed transaction and restart, as long as a stop is
\* followed by a cooldown, an entry is more than one unit and no entry finds the
\* portfolio short of funds.
THEOREM PairKeepsLifecycle == ASSUME StopsCool, Funded, Halvable PROVE Spec => KeepsLifecycle
<1>1. Init => Fits /\ Machine!Init
  BY DEF Init, Fresh, Fits, Fit, InPosition, Machine!Init, Phase
<1>2. IInv /\ Fits /\ [Next]_vars => Fits' /\ [Machine!Next]_(Machine!vars)
  <2> SUFFICES ASSUME IInv, Fits, [Next]_vars PROVE Fits' /\ [Machine!Next]_(Machine!vars)
    OBVIOUS
  <2>1. Fits'
    BY FitNext DEF Fits, Fit
  <2> QED
    BY <2>1, Simulates
<1> QED
  BY <1>1, <1>2, Invariant, PTL DEF Spec, KeepsLifecycle, Machine!Spec
=============================================================================
