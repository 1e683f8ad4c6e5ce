--------------------------- MODULE Dispatch_proofs ---------------------------
(***************************************************************************)
(* From the candle to the decision, for any number of pairs, slots and     *)
(* candles: every value has its type; a load leaves no gaps; without       *)
(* faults every candle is decided upon, and at most twice; and the         *)
(* positions of one process stay within max_concurrent_positions.          *)
(*                                                                         *)
(* What the recursive loops return (Chunks, Listing) is found by induction *)
(* over an interval: the least number for which a claim is false.          *)
(***************************************************************************)
EXTENDS Dispatch, FiniteSetTheorems, TLAPS

-----------------------------------------------------------------------------
(* Numbers, slots and candles                                              *)

\* The least-number principle, from the library's theorem on minimal elements
\* of well-founded relations.
LEMMA LeastOf == ASSUME NEW S \in SUBSET Nat, S # {} PROVE \E m \in S : \A x \in S : m <= x
<1> DEFINE R == {ss \in Nat \X Nat : ss[1] < ss[2]}
<1>1. IsWellFoundedOn(R, Nat)
  BY NatLessThanWellFounded DEF OpToRel
<1>2. \A x, y \in Nat : <<x, y>> \in R <=> x < y
  OBVIOUS
<1> HIDE DEF R
<1>3. PICK m \in S : \A y \in S : ~(<<y, m>> \in R)
  BY <1>1, WFMin
<1>4. \A y \in S : ~(y < m)
  BY <1>2, <1>3
<1> QED
  BY <1>4

LEMMA GreatestOf ==
  ASSUME NEW n \in Nat, NEW S \in SUBSET (0..n), S # {}
  PROVE  \E m \in S : \A x \in S : x <= m
<1> DEFINE T == {n - x : x \in S}
<1>0. \A x \in S : n - x \in Nat
  OBVIOUS
<1>1. T \in SUBSET Nat /\ T # {}
  BY <1>0
<1>2. PICK k \in T : \A y \in T : k <= y
  <2> HIDE DEF T
  <2> QED
    BY <1>1, LeastOf
<1>3. PICK m \in S : k = n - m
  BY <1>2
<1>4. \A x \in S : n - m <= n - x
  BY <1>2, <1>3
<1> QED
  BY <1>4

\* Induction up and down an interval, over the set of the numbers shown so far.
LEMMA Upward ==
  ASSUME NEW n \in Nat, NEW G, 0 \in G, \A k \in 1..n : k - 1 \in G => k \in G
  PROVE  \A k \in 0..n : k \in G
<1> DEFINE Bad == {k \in 0..n : k \notin G}
<1>1. SUFFICES ASSUME Bad # {} PROVE FALSE
  OBVIOUS
<1>2. Bad \in SUBSET Nat
  OBVIOUS
<1>3. PICK m \in Bad : \A x \in Bad : m <= x
  <2> HIDE DEF Bad
  <2> QED
    BY <1>1, <1>2, LeastOf
<1>4. m \in 1..n /\ m \notin G
  BY <1>3
<1>5. m - 1 \in 0..n /\ ~(m <= m - 1)
  BY <1>4
<1>6. m - 1 \notin Bad
  BY <1>3, <1>5
<1> QED
  BY <1>4, <1>5, <1>6

LEMMA Downward ==
  ASSUME NEW n \in Nat, NEW G, \A k \in 0..n : (\A l \in (k + 1)..n : l \in G) => k \in G
  PROVE  \A k \in 0..n : k \in G
<1> DEFINE Bad == {k \in 0..n : k \notin G}
<1>1. SUFFICES ASSUME Bad # {} PROVE FALSE
  OBVIOUS
<1>2. Bad \in SUBSET (0..n)
  OBVIOUS
<1>3. PICK m \in Bad : \A x \in Bad : x <= m
  <2> HIDE DEF Bad
  <2> QED
    BY <1>1, <1>2, GreatestOf
<1>4. \A l \in (m + 1)..n : l \in 0..n /\ ~(l <= m)
  BY <1>2, <1>3
<1>5. \A l \in (m + 1)..n : l \notin Bad
  BY <1>3, <1>4
<1> QED
  BY <1>3, <1>4, <1>5

LEMMA LatestIs ==
  ASSUME NEW S \in SUBSET Candle, S # {}
  PROVE  Latest(S) \in S /\ \A c \in S : c <= Latest(S)
<1>1. \E m \in S : \A x \in S : x <= m
  BY GreatestOf, CandleAssumption DEF Candle
<1> QED
  BY <1>1 DEF Latest

LEMMA Scaled == ASSUME NEW a \in Int, NEW b \in Int, NEW k \in Nat \ {0}, a * k <= b * k PROVE a <= b
<1>1. CASE a >= b + 1
  <2>1. a * k >= (b + 1) * k
    BY <1>1
  <2> QED
    BY <2>1
<1> QED
  BY <1>1

LEMMA Grows == ASSUME NEW a \in Int, NEW b \in Int, NEW k \in Nat \ {0}, a <= b PROVE a * k <= b * k
OBVIOUS

LEMMA Divided == ASSUME NEW n \in Nat, NEW k \in Nat \ {0}
  PROVE  n \div k \in Nat /\ (n \div k) * k <= n /\ n < (n \div k) * k + k
<1>1. n \div k \in Nat
  OBVIOUS
<1>2. (n \div k) * k <= n
  OBVIOUS
<1>3. n < (n \div k) * k + k
  OBVIOUS
<1> QED
  BY <1>1, <1>2, <1>3

LEMMA SlotsOf ==
  /\ Period \in Nat \ {0} /\ Lookback \in Nat \ {0} /\ Last \in Nat
  /\ Lookback * Period + FetchAt \in Slots
  /\ \A t \in Slots : t \in Nat
<1>1. Period \in Nat \ {0} /\ Lookback \in Nat \ {0} /\ Last \in Nat /\ Lookback <= Last /\ FetchAt \in 0..(Period - 1)
  BY CandleAssumption, DispatchAssumption
<1>2. Lookback * Period \in Nat /\ Lookback * Period <= Last * Period
  BY <1>1, Grows
<1>3. (Last + 1) * Period = Last * Period + Period /\ Last * Period \in Nat
  BY <1>1
<1>4. Lookback * Period + FetchAt <= (Last + 1) * Period - 1
  BY <1>1, <1>2, <1>3
<1>5. Lookback * Period + FetchAt \in Slots
  BY <1>1, <1>2, <1>3, <1>4 DEF Slots
<1> QED
  BY <1>1, <1>5, <1>3 DEF Slots

\* A slot belongs to the period of one candle.
LEMMA CandleOf ==
  ASSUME NEW t \in Slots
  PROVE  t \div Period \in Candle /\ (t \div Period) * Period <= t /\ t < (t \div Period) * Period + Period
<1> DEFINE c == t \div Period
<1>1. t \in Nat /\ Period \in Nat \ {0} /\ Last \in Nat /\ t <= (Last + 1) * Period - 1
  BY SlotsOf DEF Slots
<1>2. c \in Nat /\ c * Period <= t /\ t < c * Period + Period
  BY <1>1, Divided
<1> HIDE DEF c
<1>3. Last * Period \in Nat /\ (Last + 1) * Period = Last * Period + Period /\ c * Period \in Nat
  BY <1>1, <1>2
<1>4. c * Period <= (Last + 1) * Period
  BY <1>1, <1>2, <1>3
<1>5. c <= Last + 1
  BY <1>1, <1>2, <1>4, Scaled
<1>6. c # Last + 1
  BY <1>1, <1>2, <1>3
<1>7. c \in Candle
  BY <1>1, <1>2, <1>5, <1>6 DEF Candle
<1> QED
  BY <1>2, <1>7 DEF c

LEMMA CurrentIs ==
  ASSUME clock \in Slots
  PROVE  Current \in Candle /\ Current * Period <= clock /\ clock < Current * Period + Period
BY CandleOf DEF Current

\* The window is at most one candle longer than the lookback.
LEMMA WindowBound ==
  ASSUME clock \in Slots
  PROVE  IsFiniteSet(Window) /\ Cardinality(Window) \in 0..(Lookback + 1)
<1>0. clock \in Nat /\ Period \in Nat \ {0} /\ Lookback \in Nat \ {0} /\ Lookback * Period \in Nat
  BY SlotsOf
<1>1. WindowStart \in Nat /\ clock <= WindowStart + Lookback * Period
  BY <1>0 DEF WindowStart
<1>2. CASE Window = {}
  BY <1>2, FS_EmptySet, <1>0
<1>3. CASE Window # {}
  <2>1. Window \in SUBSET Nat
    BY DEF Window, Candle
  <2>2. PICK e \in Window : \A c \in Window : e <= c
    BY <2>1, <1>3, LeastOf
  <2>3. \A c \in Window : c <= e + Lookback
    <3> SUFFICES ASSUME NEW c \in Window PROVE c <= e + Lookback
      OBVIOUS
    <3>1. c * Period <= WindowStart + Lookback * Period /\ WindowStart <= e * Period /\ c \in Nat /\ e \in Nat
      BY <1>0, <1>1, <2>1 DEF Window
    <3>2. e * Period \in Nat /\ c * Period \in Nat /\ (e + Lookback) * Period = e * Period + Lookback * Period
      BY <1>0, <3>1
    <3>3. c * Period <= (e + Lookback) * Period
      BY <1>0, <1>1, <3>1, <3>2
    <3> QED
      BY <1>0, <3>1, <3>3, Scaled
  <2>4. Window \in SUBSET (e..(e + Lookback))
    BY <2>1, <2>2, <2>3
  <2>5. e \in Nat /\ IsFiniteSet(e..(e + Lookback)) /\ Cardinality(e..(e + Lookback)) = Lookback + 1
    <3>1. e \in Int /\ e + Lookback \in Int /\ ~(e > e + Lookback)
      BY <2>1, <1>0
    <3>2. IsFiniteSet(e..(e + Lookback)) /\ Cardinality(e..(e + Lookback)) = (e + Lookback) - e + 1
      BY <3>1, FS_Interval
    <3> QED
      BY <3>2, <2>1, <1>0
  <2>6. IsFiniteSet(Window) /\ Cardinality(Window) <= Lookback + 1
    BY <2>4, <2>5, FS_Subset
  <2> QED
    BY <2>6, FS_CardinalityType, <1>0
<1> QED
  BY <1>2, <1>3

LEMMA MissingBound ==
  ASSUME clock \in Slots, NEW rows, NEW s
  PROVE  Cardinality(Missing(rows, s)) \in 0..(Lookback + 1)
<1>1. Missing(rows, s) \in SUBSET Window
  BY DEF Missing
<1>2. IsFiniteSet(Window) /\ Cardinality(Window) \in 0..(Lookback + 1)
  BY WindowBound
<1>3. IsFiniteSet(Missing(rows, s)) /\ Cardinality(Missing(rows, s)) <= Cardinality(Window)
  BY <1>1, <1>2, FS_Subset
<1>4. Cardinality(Missing(rows, s)) \in Nat
  BY <1>3, FS_CardinalityType
<1> QED
  BY <1>2, <1>3, <1>4, SlotsOf

-----------------------------------------------------------------------------
(* What a dispatch lists                                                   *)

\* f is the listing of the first n pairs of the registry, and of fewer.
ListsUpTo(f, n) ==
    \A i \in 0..n : f[i] = IF i = 0 THEN <<>>
                           ELSE IF Registry[i] \in enabled THEN Append(f[i - 1], Registry[i]) ELSE f[i - 1]

Lists(q, n) == \A j \in 1..n : Registry[j] \in enabled => \E k \in DOMAIN q : q[k] = Registry[j]

LEMMA ListingExists ==
  ASSUME NEW n \in 0..Len(Registry)
  PROVE  \E f \in [0..n -> Seq(enabled)] : ListsUpTo(f, n) /\ Lists(f[n], n)
<1> DEFINE Good(m) == \E f \in [0..m -> Seq(enabled)] : ListsUpTo(f, m) /\ Lists(f[m], m)
           G == {m \in 0..Len(Registry) : Good(m)}
<1>0. Len(Registry) \in Nat
  BY DispatchAssumption
<1> HIDE DEF Good
<1>1. Good(0)
  <2> DEFINE f == [i \in 0..0 |-> <<>>]
  <2>1. f \in [0..0 -> Seq(enabled)] /\ ListsUpTo(f, 0) /\ Lists(f[0], 0)
    BY DEF ListsUpTo, Lists
  <2> QED
    BY <2>1 DEF Good
<1>2. ASSUME NEW m \in 1..Len(Registry), Good(m - 1) PROVE Good(m)
  <2>1. m - 1 \in 0..Len(Registry) /\ m \in 1..Len(Registry)
    BY <1>0
  <2>3. PICK f \in [0..(m - 1) -> Seq(enabled)] : ListsUpTo(f, m - 1) /\ Lists(f[m - 1], m - 1)
    BY <1>2 DEF Good
  <2> DEFINE last == IF Registry[m] \in enabled THEN Append(f[m - 1], Registry[m]) ELSE f[m - 1]
             g == [i \in 0..m |-> IF i < m THEN f[i] ELSE last]
  <2>4. f[m - 1] \in Seq(enabled) /\ last \in Seq(enabled)
    BY <2>1
  <2>5. g \in [0..m -> Seq(enabled)] /\ g[m] = last
    BY <2>1, <2>4
  <2>6. ListsUpTo(g, m)
    <3> SUFFICES ASSUME NEW i \in 0..m
                 PROVE  g[i] = IF i = 0 THEN <<>>
                               ELSE IF Registry[i] \in enabled THEN Append(g[i - 1], Registry[i]) ELSE g[i - 1]
      BY DEF ListsUpTo
    <3>1. CASE i < m
      <4>1. i \in 0..(m - 1) /\ g[i] = f[i] /\ (i # 0 => g[i - 1] = f[i - 1])
        BY <2>1, <3>1
      <4> QED
        BY <4>1, <2>3 DEF ListsUpTo
    <3>2. CASE i = m
      <4>1. i # 0 /\ g[i] = last /\ g[i - 1] = f[m - 1]
        BY <2>1, <3>2
      <4> QED
        BY <4>1, <3>2
    <3> QED
      BY <2>1, <3>1, <3>2
  <2>7. Lists(last, m)
    <3> SUFFICES ASSUME NEW j \in 1..m, Registry[j] \in enabled PROVE \E k \in DOMAIN last : last[k] = Registry[j]
      BY DEF Lists
    <3>1. CASE j = m
      <4>1. last = Append(f[m - 1], Registry[m])
        BY <3>1
      <4>2. Len(f[m - 1]) + 1 \in DOMAIN last /\ last[Len(f[m - 1]) + 1] = Registry[m]
        BY <2>4, <4>1
      <4> QED
        BY <3>1, <4>2
    <3>2. CASE j # m
      <4>1. j \in 1..(m - 1)
        BY <2>1, <3>2
      <4>2. PICK k \in DOMAIN f[m - 1] : f[m - 1][k] = Registry[j]
        BY <2>3, <4>1 DEF Lists
      <4>3. k \in DOMAIN last /\ last[k] = Registry[j]
        BY <2>4, <4>2
      <4> QED
        BY <4>3
    <3> QED
      BY <3>1, <3>2
  <2> HIDE DEF g, last
  <2> QED
    BY <2>5, <2>6, <2>7 DEF Good
<1>3. \A m \in 0..Len(Registry) : m \in G
  <2>1. 0 \in G
    BY <1>0, <1>1
  <2>2. \A m \in 1..Len(Registry) : m - 1 \in G => m \in G
    BY <1>0, <1>2
  <2> HIDE DEF G
  <2> QED
    BY <1>0, <2>1, <2>2, Upward
<1> QED
  BY <1>3 DEF Good

\* The listing names enabled pairs only, and every enabled one of the registry.
LEMMA ListingIs ==
  /\ Listing \in Seq(enabled)
  /\ \A p \in enabled : (\E j \in DOMAIN Registry : Registry[j] = p) => \E i \in DOMAIN Listing : Listing[i] = p
<1> DEFINE N == Len(Registry)
           upTo[n \in 0..Len(Registry)] ==
               IF n = 0 THEN <<>>
               ELSE IF Registry[n] \in enabled THEN Append(upTo[n - 1], Registry[n]) ELSE upTo[n - 1]
<1>0. N \in Nat /\ DOMAIN Registry = 1..N
  BY DispatchAssumption
<1>1. PICK f \in [0..N -> Seq(enabled)] : ListsUpTo(f, N) /\ Lists(f[N], N)
  BY <1>0, ListingExists
<1>2. f = [n \in 0..N |-> IF n = 0 THEN <<>>
                          ELSE IF Registry[n] \in enabled THEN Append(f[n - 1], Registry[n]) ELSE f[n - 1]]
  BY <1>1 DEF ListsUpTo
<1>3. upTo = [n \in 0..N |-> IF n = 0 THEN <<>>
                             ELSE IF Registry[n] \in enabled THEN Append(upTo[n - 1], Registry[n]) ELSE upTo[n - 1]]
  BY <1>2
<1>4. Listing = upTo[N]
  BY DEF Listing
<1> HIDE DEF upTo
<1>5. \A m \in 0..N : upTo[m] = f[m]
  <2> DEFINE G == {n \in 0..N : upTo[n] = f[n]}
  <2>1. 0 \in G
    BY <1>0, <1>2, <1>3
  <2>2. ASSUME NEW n \in 1..N, n - 1 \in G PROVE n \in G
    <3>1. n # 0 /\ n \in 0..N /\ n - 1 \in 0..N /\ upTo[n - 1] = f[n - 1]
      BY <1>0, <2>2
    <3> QED
      BY <1>2, <1>3, <3>1
  <2>3. \A n \in 0..N : n \in G
    <3> HIDE DEF G
    <3> QED
      BY <1>0, <2>1, <2>2, Upward
  <2> QED
    BY <2>3
<1>6. Listing = f[N] /\ f[N] \in Seq(enabled)
  BY <1>0, <1>4, <1>5
<1> QED
  BY <1>0, <1>1, <1>6 DEF Lists

-----------------------------------------------------------------------------
(* Types                                                                   *)

Tasks == {Fetch, Dispatcher} \cup {Ticks(p) : p \in Pairs}

LEMMA HeadAndTail ==
  ASSUME NEW q, q \in Seq(Tasks), q # <<>>
  PROVE  Head(q) \in Tasks /\ Tail(q) \in Seq(Tasks)
OBVIOUS

LEMMA TaskKinds ==
  /\ Fetch \in Tasks /\ Dispatcher \in Tasks
  /\ \A t \in Tasks : t.kind = "tick" => t.pair \in Pairs
BY DEF Tasks, Fetch, Dispatcher, Ticks

LEMMA RowsType ==
  ASSUME TypeOK, NEW s \in Symbols, NEW failing
  PROVE  /\ Loaded(s, failing) \in [Candle -> {"none", "open", "final"}]
         /\ Historical(s, failing) \in [Candle -> {"none", "open", "final"}]
         /\ \A got : Cached(s, got) \in [Candle -> {"none", "open", "final"}]
<1>1. cache[s] \in [Candle -> {"none", "open", "final"}]
  BY DEF TypeOK
<1>2. \A got : Cached(s, got) \in [Candle -> {"none", "open", "final"}]
  BY <1>1 DEF Cached, Quote
<1> QED
  BY <1>1, <1>2 DEF Loaded, Historical

LEMMA PairParts == ASSUME NEW p \in Pairs PROVE SymbolOf(p) \in Symbols
BY DEF Pairs, SymbolOf

LEMMA AcquireType ==
  ASSUME TypeOK, NEW p \in Pairs, Acquire(p)
  PROVE  lock' \in [Pairs -> [key : Candle \cup {NoCandle}, until : Nat]]
<1>1. Key \in Candle \cup {NoCandle}
  <2> DEFINE all == UNION {Stored(s) : s \in Symbols}
  <2>1. all \in SUBSET Candle
    BY DEF Stored
  <2>2. all # {} => Latest(all) \in Candle
    BY <2>1, LatestIs
  <2> QED
    BY <2>2 DEF Key
<1>2. clock + TTL \in Nat
  BY SlotsOf, DispatchAssumption DEF TypeOK
<1>3. [key |-> Key, until |-> clock + TTL] \in [key : Candle \cup {NoCandle}, until : Nat]
  BY <1>1, <1>2
<1> QED
  BY <1>3 DEF Acquire, TypeOK

LEMMA WorkType ==
  ASSUME TypeOK, NEW p \in Pairs, NEW failing, NEW persists, Work(p, failing, persists)
  PROVE  /\ cache' \in [Symbols -> [Candle -> {"none", "open", "final"}]]
         /\ queue' \in Seq(Tasks) /\ book' \subseteq Pairs
         /\ mem' \in [Pairs -> {"none", "flat", "open"}]
         /\ decided' \in [Pairs -> [candle : Candle \cup {NoCandle}, times : 0..3, gaps : 0..(Lookback + 1),
                                    clean : BOOLEAN]]
         /\ UNCHANGED <<clock, listed, faults, enabled, connected, heard>>
<1> DEFINE s == SymbolOf(p)
           rows == Loaded(s, failing)
           have == {c \in Window : rows[c] # "none"}
           new == [candle |-> Latest(have), times |-> Count(p, Latest(have)),
                   gaps |-> Cardinality(Missing(rows, s)), clean |-> failing = {}]
<1>1. s \in Symbols /\ rows \in [Candle -> {"none", "open", "final"}]
  BY PairParts, RowsType
<1>2. cache' \in [Symbols -> [Candle -> {"none", "open", "final"}]]
  <2>1. cache' = [cache EXCEPT ![s] = rows]
    BY DEF Work
  <2> QED
    BY <1>1, <2>1 DEF TypeOK
<1>3. queue' \in Seq(Tasks)
  <2>1. queue # <<>> /\ queue' = Tail(queue) /\ queue \in Seq(Tasks)
    BY DEF Work, IsNext, TypeOK, Tasks
  <2> QED
    BY <2>1, HeadAndTail
<1>4. have # {} => new \in [candle : Candle \cup {NoCandle}, times : 0..3, gaps : 0..(Lookback + 1), clean : BOOLEAN]
  <2> SUFFICES ASSUME have # {}
               PROVE  new \in [candle : Candle \cup {NoCandle}, times : 0..3, gaps : 0..(Lookback + 1), clean : BOOLEAN]
    OBVIOUS
  <2>1. have \in SUBSET Candle
    BY DEF Window
  <2>2. Latest(have) \in Candle
    BY <2>1, LatestIs
  <2>3. Cardinality(Missing(rows, s)) \in 0..(Lookback + 1)
    BY MissingBound DEF TypeOK
  <2>4. Count(p, Latest(have)) \in 0..3
    <3>1. decided[p].times \in 0..3
      BY DEF TypeOK
    <3> QED
      BY <3>1 DEF Count
  <2> HIDE DEF have, rows
  <2> QED
    BY <2>2, <2>3, <2>4
<1>5. decided' = decided \/ (have # {} /\ decided' = [decided EXCEPT ![p] = new])
  BY DEF Work
<1>6. decided' \in [Pairs -> [candle : Candle \cup {NoCandle}, times : 0..3, gaps : 0..(Lookback + 1),
                              clean : BOOLEAN]]
  <2> HIDE DEF new, have
  <2> QED
    BY <1>4, <1>5 DEF TypeOK
<1>7. book' \subseteq Pairs /\ mem' \in [Pairs -> {"none", "flat", "open"}]
  <2>1. Component(p) \in {"none", "flat", "open"} /\ Outcomes(p) \subseteq {"flat", "open"}
    BY DEF TypeOK, Component, Outcomes
  <2>2. CASE mem' = [mem EXCEPT ![p] = Component(p)] /\ UNCHANGED book
    BY <2>1, <2>2 DEF TypeOK
  <2>3. CASE \E now \in Outcomes(p) :
               /\ mem' = [mem EXCEPT ![p] = now]
               /\ book' = IF ~persists THEN book ELSE IF now = "open" THEN book \cup {p} ELSE book \ {p}
    BY <2>1, <2>3 DEF TypeOK
  <2> QED
    BY <2>2, <2>3 DEF Work
<1> QED
  BY <1>2, <1>3, <1>6, <1>7 DEF Work

LEMMA TypeInit == Init => TypeOK
<1> SUFFICES ASSUME Init PROVE TypeOK
  OBVIOUS
<1>1. clock \in Slots
  BY SlotsOf DEF Init
<1>2. listed \in [Symbols -> Candle] /\ faults \subseteq FaultKinds /\ left \in Nat
  BY ProfileAssumption DEF Init
<1>3. cache \in [Symbols -> [Candle -> {"none", "open", "final"}]] /\ book \subseteq Pairs /\ enabled \subseteq Pairs
      /\ connected \in BOOLEAN /\ heard \subseteq Symbols \X Candle
      /\ mem \in [Pairs -> {"none", "flat", "open"}] /\ queue \in Seq(Tasks)
  BY DEF Init, Tasks
<1>4. lock \in [Pairs -> [key : Candle \cup {NoCandle}, until : Nat]]
  BY DEF Init
<1>5. decided \in [Pairs -> [candle : Candle \cup {NoCandle}, times : 0..3, gaps : 0..(Lookback + 1),
                             clean : BOOLEAN]]
  BY SlotsOf DEF Init
<1> QED
  BY <1>1, <1>2, <1>3, <1>4, <1>5 DEF TypeOK, Tasks

LEMMA FaultType == ASSUME left \in Nat, NEW kind, Fault(kind) \/ NoFault PROVE left' \in Nat
BY DEF Fault, NoFault

LEMMA TypeTick ==
  ASSUME TypeOK, NEW p \in Pairs,
         Tick(p) \/ TickLoadFails(p) \/ TickPersistFails(p) \/ TickUnlocked(p)
  PROVE  TypeOK'
<1>1. PICK failing, persists : Work(p, failing, persists)
  BY DEF Tick, TickLoadFails, TickPersistFails, TickUnlocked
<1>2. left' \in Nat
  BY FaultType DEF TypeOK, Tick, TickLoadFails, TickPersistFails, TickUnlocked
<1>3. lock' \in [Pairs -> [key : Candle \cup {NoCandle}, until : Nat]]
  <2>1. CASE Acquire(p)
    BY <2>1, AcquireType
  <2>2. CASE UNCHANGED lock
    BY <2>2 DEF TypeOK
  <2> QED
    BY <2>1, <2>2 DEF Tick, TickLoadFails, TickPersistFails, TickUnlocked
<1>4. /\ cache' \in [Symbols -> [Candle -> {"none", "open", "final"}]]
      /\ queue' \in Seq(Tasks) /\ book' \subseteq Pairs
      /\ mem' \in [Pairs -> {"none", "flat", "open"}]
      /\ decided' \in [Pairs -> [candle : Candle \cup {NoCandle}, times : 0..3, gaps : 0..(Lookback + 1),
                                 clean : BOOLEAN]]
      /\ UNCHANGED <<clock, listed, faults, enabled, connected, heard>>
  BY <1>1, WorkType
<1> QED
  BY <1>2, <1>3, <1>4 DEF TypeOK, Tasks

LEMMA TypeStep == ASSUME TypeOK, [Next]_vars PROVE TypeOK'
<1> USE DEF TypeOK
<1>0. queue \in Seq(Tasks)
  BY DEF Tasks
<1>1. CASE Advance
  <2>1. clock' \in Slots /\ left' \in Nat
    BY <1>1, FaultType DEF Advance, Slots
  <2>2. Due(clock + 1) \in Seq(Tasks)
    BY TaskKinds DEF Due
  <2>3. queue' \in Seq(Tasks)
    BY <1>0, <1>1, <2>2 DEF Advance
  <2> QED
    BY <1>1, <2>1, <2>3 DEF Advance, Tasks
<1>2. ASSUME NEW s \in Symbols, StreamClose(s) PROVE TypeOK'
  <2>1. Current - 1 \in Candle
    <3>1. Current \in Candle /\ listed[s] \in Candle
      BY CurrentIs
    <3>2. Current > listed[s]
      BY <1>2 DEF StreamClose
    <3> QED
      BY <3>1, <3>2, SlotsOf DEF Candle
  <2>2. queue' \in Seq(Tasks)
    BY <1>0, <1>2, TaskKinds DEF StreamClose
  <2> QED
    BY <1>2, <2>1, <2>2 DEF StreamClose, Tasks
<1>3. CASE Disconnect \/ Reconnect \/ StreamRestart
  <2>1. left' \in Nat
    BY <1>3, FaultType DEF Disconnect, Reconnect, StreamRestart
  <2> QED
    BY <1>3, <2>1 DEF Disconnect, Reconnect, StreamRestart
<1>4. CASE PullHistory
  <2>1. left' \in Nat
    BY <1>4, FaultType DEF PullHistory
  <2>2. cache' \in [Symbols -> [Candle -> {"none", "open", "final"}]]
    BY <1>4, RowsType DEF PullHistory
  <2> QED
    BY <1>4, <2>1, <2>2 DEF PullHistory
<1>5. CASE FetchCandles
  <2>1. left' \in Nat
    BY <1>5, FaultType DEF FetchCandles
  <2>2. cache' \in [Symbols -> [Candle -> {"none", "open", "final"}]]
    <3>1. \A s \in Symbols : Cached(s, Trailing(s)) \in [Candle -> {"none", "open", "final"}]
                              /\ cache[s] \in [Candle -> {"none", "open", "final"}]
      BY RowsType
    <3>2. CASE cache' = [s \in Symbols |-> Cached(s, Trailing(s))]
      BY <3>1, <3>2
    <3>3. ASSUME NEW fetched, cache' = [s \in Symbols |-> IF s \in fetched THEN Cached(s, Trailing(s)) ELSE cache[s]]
          PROVE  cache' \in [Symbols -> [Candle -> {"none", "open", "final"}]]
      BY <3>1, <3>3
    <3> QED
      BY <1>5, <3>2, <3>3 DEF FetchCandles
  <2>3. queue' \in Seq(Tasks)
    BY <1>0, <1>5, HeadAndTail DEF FetchCandles, IsNext
  <2> QED
    BY <1>5, <2>1, <2>2, <2>3 DEF FetchCandles, Tasks
<1>6. CASE FanOut
  <2>1. [i \in DOMAIN Listing |-> Ticks(Listing[i])] \in Seq(Tasks)
    <3>1. Listing \in Seq(Pairs)
      BY ListingIs
    <3>2. Len(Listing) \in Nat /\ DOMAIN Listing = 1..Len(Listing)
      BY <3>1
    <3>3. \A i \in DOMAIN Listing : Ticks(Listing[i]) \in Tasks
      BY <3>1 DEF Tasks
    <3>4. [i \in DOMAIN Listing |-> Ticks(Listing[i])] \in [1..Len(Listing) -> Tasks]
      BY <3>2, <3>3
    <3> QED
      BY <3>2, <3>4
  <2>2. queue' \in Seq(Tasks)
    BY <1>0, <1>6, <2>1, HeadAndTail DEF FanOut, IsNext
  <2> QED
    BY <1>6, <2>2 DEF FanOut, Tasks
<1>7. CASE TickSkipped
  <2>1. queue' \in Seq(Tasks)
    BY <1>0, <1>7, HeadAndTail DEF TickSkipped, IsNext
  <2> QED
    BY <1>7, <2>1 DEF TickSkipped, Tasks
<1>8. CASE Recycle
  BY <1>8, FaultType DEF Recycle
<1>9. ASSUME NEW p \in Pairs, TickCrash(p) PROVE TypeOK'
  <2>1. left' \in Nat /\ lock' \in [Pairs -> [key : Candle \cup {NoCandle}, until : Nat]]
    BY <1>9, FaultType, AcquireType DEF TickCrash
  <2> QED
    BY <1>9, <2>1 DEF TickCrash
<1>10. ASSUME NEW p \in Pairs, Configure(p) PROVE TypeOK'
  <2>1. left' \in Nat /\ enabled' \subseteq Pairs
    BY <1>10, FaultType DEF Configure
  <2> QED
    BY <1>10, <2>1 DEF Configure
<1>11. CASE UNCHANGED vars
  BY <1>11 DEF vars
<1> QED
  BY <1>1, <1>2, <1>3, <1>4, <1>5, <1>6, <1>7, <1>8, <1>9, <1>10, <1>11, TypeTick DEF Next

\* Cache, queue, locks and decisions keep their types: the queue holds tasks of
\* pairs only, no window is longer than the lookback and one candle.
THEOREM TypeCorrect == Spec => []TypeOK
BY TypeInit, TypeStep, PTL DEF Spec

-----------------------------------------------------------------------------
(* The loop over the chunks                                                *)

Kline == [Candle -> {"none", "open", "final"}]
LastFrom == clock + Period
ChunkEnd(from) == IF from + Chunk * Period < clock THEN from + Chunk * Period ELSE clock

\* What one turn of the loop returns when g is what later ones do.
Turn(s, failing, g, from) ==
    LET to == ChunkEnd(from)
        got == Klines(s, from, to)
    IN  IF from >= clock THEN {}
        ELSE IF from \in failing THEN g[to]
        ELSE IF got = {} THEN {}
        ELSE got \cup g[(Latest(got) + 1) * Period]

Turns(s, failing, g, first) == \A from \in first..LastFrom : g[from] = Turn(s, failing, g, from)

\* A turn only asks for later ones.
LEMMA LaterTurns ==
  ASSUME clock \in Slots, listed \in [Symbols -> Candle], NEW s \in Symbols, NEW from \in 0..LastFrom, from < clock
  PROVE  /\ ChunkEnd(from) \in (from + 1)..LastFrom
         /\ LET got == Klines(s, from, ChunkEnd(from))
            IN  got # {} => /\ Latest(got) \in got
                            /\ \A c \in got : c <= Latest(got)
                            /\ (Latest(got) + 1) * Period \in (from + 1)..LastFrom
<1>0. /\ clock \in Nat /\ Period \in Nat \ {0} /\ Chunk \in Nat \ {0} /\ LastFrom = clock + Period
      /\ from \in Nat /\ Chunk * Period \in Nat /\ Chunk * Period > 0
  <2>1. clock \in Nat /\ Period \in Nat \ {0} /\ Chunk \in Nat \ {0}
    BY SlotsOf, CandleAssumption
  <2>2. 1 * Period <= Chunk * Period
    BY <2>1, Grows
  <2> QED
    BY <2>1, <2>2 DEF LastFrom
<1>1. ChunkEnd(from) \in (from + 1)..LastFrom
  BY <1>0 DEF ChunkEnd
<1> DEFINE got == Klines(s, from, ChunkEnd(from))
<1>2. got \in SUBSET Candle /\ \A c \in got : c <= Current /\ from <= c * Period
  BY DEF Klines, Earliest
<1>3. ASSUME got # {}
      PROVE  Latest(got) \in got /\ (\A c \in got : c <= Latest(got)) /\ (Latest(got) + 1) * Period \in (from + 1)..LastFrom
  <2>1. Latest(got) \in got /\ \A c \in got : c <= Latest(got)
    BY <1>2, <1>3, LatestIs
  <2> HIDE DEF got
  <2>2. Latest(got) \in Nat /\ Latest(got) <= Current /\ from <= Latest(got) * Period /\ Current \in Nat
    <3>1. Latest(got) \in Candle /\ Current \in Candle
      BY <1>2, <2>1, CurrentIs
    <3>2. Latest(got) <= Current /\ from <= Latest(got) * Period
      BY <1>2, <2>1
    <3> QED
      BY <3>1, <3>2, SlotsOf DEF Candle
  <2>3. Latest(got) * Period \in Nat /\ Latest(got) * Period <= Current * Period /\ Current * Period <= clock
    BY <1>0, <2>2, Grows, CurrentIs
  <2>4. (Latest(got) + 1) * Period = Latest(got) * Period + Period
    BY <1>0, <2>2
  <2> QED
    BY <1>0, <2>1, <2>2, <2>3, <2>4
<1> QED
  BY <1>1, <1>3

LEMMA TurnsExist ==
  ASSUME clock \in Slots, listed \in [Symbols -> Candle], NEW s \in Symbols, NEW failing, NEW k \in 0..LastFrom
  PROVE  \E g \in [(LastFrom - k)..LastFrom -> SUBSET Candle] : Turns(s, failing, g, LastFrom - k)
<1> DEFINE Good(n) == \E g \in [(LastFrom - n)..LastFrom -> SUBSET Candle] : Turns(s, failing, g, LastFrom - n)
           G == {n \in 0..LastFrom : Good(n)}
<1>0. LastFrom \in Nat /\ LastFrom > clock /\ clock \in Nat
  BY SlotsOf DEF LastFrom
<1> HIDE DEF Good
<1>1. Good(0)
  <2> DEFINE g == [from \in LastFrom..LastFrom |-> {}]
  <2>1. g \in [LastFrom..LastFrom -> SUBSET Candle]
    OBVIOUS
  <2>2. \A from \in LastFrom..LastFrom : from >= clock
    BY <1>0
  <2>3. Turns(s, failing, g, LastFrom)
    BY <2>2 DEF Turns, Turn
  <2>4. LastFrom - 0 = LastFrom
    BY <1>0
  <2> HIDE DEF g
  <2> QED
    BY <2>1, <2>3, <2>4 DEF Good
<1>2. ASSUME NEW n \in 1..LastFrom, Good(n - 1) PROVE Good(n)
  <2> DEFINE here == LastFrom - n
  <2>3. here \in 0..LastFrom /\ LastFrom - (n - 1) = here + 1
    BY <1>0
  <2>4. PICK f \in [(here + 1)..LastFrom -> SUBSET Candle] : Turns(s, failing, f, here + 1)
    BY <1>2, <2>3 DEF Good
  <2> DEFINE g == [from \in here..LastFrom |-> IF from = here THEN Turn(s, failing, f, here) ELSE f[from]]
  <2> HIDE DEF here
  <2>5. ASSUME NEW from \in here..LastFrom
        PROVE  Turn(s, failing, g, from) = Turn(s, failing, f, from)
    <3>1. CASE from >= clock
      BY <3>1 DEF Turn
    <3>2. CASE ~(from >= clock)
      <4> DEFINE to == ChunkEnd(from)
                 got == Klines(s, from, ChunkEnd(from))
                 next == (Latest(got) + 1) * Period
      <4>0. from \in 0..LastFrom /\ from < clock /\ from \in Nat
        BY <2>3, <3>2, <1>0
      <4>1. to \in (from + 1)..LastFrom /\ (got # {} => next \in (from + 1)..LastFrom)
        BY <4>0, LaterTurns
      <4>2. \A x \in (from + 1)..LastFrom : g[x] = f[x]
        BY <2>3, <4>0
      <4> HIDE DEF g
      <4>3. g[to] = f[to] /\ (got # {} => g[next] = f[next])
        BY <4>1, <4>2
      <4> QED
        BY <4>3, <3>2 DEF Turn
    <3> QED
      BY <3>1, <3>2
  <2>6. Turn(s, failing, f, here) \in SUBSET Candle
    <3>1. CASE here >= clock
      BY <3>1 DEF Turn
    <3>2. CASE ~(here >= clock)
      <4> DEFINE to == ChunkEnd(here)
                 got == Klines(s, here, ChunkEnd(here))
                 next == (Latest(got) + 1) * Period
      <4>0. here \in 0..LastFrom /\ here < clock /\ here \in Nat
        BY <2>3, <3>2, <1>0
      <4>1. to \in (here + 1)..LastFrom /\ (got # {} => next \in (here + 1)..LastFrom)
        BY <4>0, LaterTurns
      <4>2. got \in SUBSET Candle
        BY DEF Klines, Earliest
      <4>3. f[to] \in SUBSET Candle /\ (got # {} => f[next] \in SUBSET Candle)
        BY <4>1
      <4> QED
        BY <4>2, <4>3, <3>2 DEF Turn
    <3> QED
      BY <3>1, <3>2
  <2>7. g \in [here..LastFrom -> SUBSET Candle]
    BY <2>3, <2>6
  <2>8. Turns(s, failing, g, here)
    <3> SUFFICES ASSUME NEW from \in here..LastFrom PROVE g[from] = Turn(s, failing, f, from)
      BY <2>5 DEF Turns
    <3>1. CASE from = here
      BY <3>1
    <3>2. CASE from # here
      <4>1. from \in (here + 1)..LastFrom
        BY <3>2, <2>3
      <4> QED
        BY <4>1, <3>2, <2>4 DEF Turns
    <3> QED
      BY <3>1, <3>2
  <2> HIDE DEF g
  <2> QED
    BY <2>7, <2>8 DEF Good, here
<1>3. \A n \in 0..LastFrom : n \in G
  <2>1. 0 \in G
    BY <1>0, <1>1
  <2>2. \A n \in 1..LastFrom : n - 1 \in G => n \in G
    BY <1>0, <1>2
  <2> HIDE DEF G
  <2> QED
    BY <1>0, <2>1, <2>2, Upward
<1> QED
  BY <1>3 DEF Good

\* Chunks is what its loop computes turn by turn.
LEMMA ChunksTurn ==
  ASSUME clock \in Slots, listed \in [Symbols -> Candle], NEW s \in Symbols, NEW failing
  PROVE  \E g : /\ Turns(s, failing, g, 0)
                /\ \A start \in 0..LastFrom : Chunks(s, start, failing) = g[start]
<1> DEFINE rest[from \in 0..(clock + Period)] ==
               LET to == IF from + Chunk * Period < clock THEN from + Chunk * Period ELSE clock
                   got == Klines(s, from, to)
               IN  IF from >= clock THEN {}
                   ELSE IF from \in failing THEN rest[to]
                   ELSE IF got = {} THEN {}
                   ELSE got \cup rest[(Latest(got) + 1) * Period]
<1>0. LastFrom \in Nat /\ LastFrom - LastFrom = 0
  BY SlotsOf DEF LastFrom
<1>1. PICK g \in [0..LastFrom -> SUBSET Candle] : Turns(s, failing, g, 0)
  <2>1. LastFrom \in 0..LastFrom
    BY <1>0
  <2> QED
    BY <1>0, <2>1, TurnsExist
<1>2. g = [from \in 0..(clock + Period) |->
               LET to == IF from + Chunk * Period < clock THEN from + Chunk * Period ELSE clock
                   got == Klines(s, from, to)
               IN  IF from >= clock THEN {}
                   ELSE IF from \in failing THEN g[to]
                   ELSE IF got = {} THEN {}
                   ELSE got \cup g[(Latest(got) + 1) * Period]]
  BY <1>1 DEF Turns, Turn, ChunkEnd, LastFrom
<1>3. rest = [from \in 0..(clock + Period) |->
               LET to == IF from + Chunk * Period < clock THEN from + Chunk * Period ELSE clock
                   got == Klines(s, from, to)
               IN  IF from >= clock THEN {}
                   ELSE IF from \in failing THEN rest[to]
                   ELSE IF got = {} THEN {}
                   ELSE got \cup rest[(Latest(got) + 1) * Period]]
  BY <1>2
<1>4. \A start : Chunks(s, start, failing) = rest[start]
  BY DEF Chunks
<1> HIDE DEF rest
<1>5. Turns(s, failing, rest, 0)
  BY <1>3 DEF Turns, Turn, ChunkEnd, LastFrom
<1> QED
  BY <1>4, <1>5

\* The loop returns no candle of the future.
LEMMA ChunksPast ==
  ASSUME clock \in Slots, listed \in [Symbols -> Candle], NEW s \in Symbols, NEW failing, NEW start \in 0..LastFrom
  PROVE  \A c \in Chunks(s, start, failing) : c <= Current
<1>0. LastFrom \in Nat /\ clock \in Nat
  BY SlotsOf DEF LastFrom
<1>1. PICK g : /\ Turns(s, failing, g, 0)
               /\ \A from \in 0..LastFrom : Chunks(s, from, failing) = g[from]
  BY ChunksTurn
<1> DEFINE G == {from \in 0..LastFrom : \A c \in g[from] : c <= Current}
<1>2. ASSUME NEW from \in 0..LastFrom, \A later \in (from + 1)..LastFrom : later \in G
      PROVE  from \in G
  <2> DEFINE to == ChunkEnd(from)
             got == Klines(s, from, to)
             next == (Latest(got) + 1) * Period
  <2>1. g[from] = Turn(s, failing, g, from)
    BY <1>1 DEF Turns
  <2>2. CASE from >= clock
    BY <2>1, <2>2 DEF Turn
  <2>3. CASE ~(from >= clock)
    <3>1. from < clock
      BY <1>0, <2>3
    <3>2. to \in (from + 1)..LastFrom /\ (got # {} => next \in (from + 1)..LastFrom)
      BY <3>1, LaterTurns
    <3>3. \A c \in g[to] : c <= Current
      BY <1>2, <3>2
    <3>4. got # {} => \A c \in g[next] : c <= Current
      BY <1>2, <3>2
    <3>5. \A c \in got : c <= Current
      BY DEF Klines, Earliest
    <3>6. g[from] = IF from \in failing THEN g[to] ELSE IF got = {} THEN {} ELSE got \cup g[next]
      BY <2>1, <2>3 DEF Turn
    <3> HIDE DEF got, to, next
    <3> QED
      BY <3>3, <3>4, <3>5, <3>6
  <2> QED
    BY <2>2, <2>3
<1>3. \A from \in 0..LastFrom : from \in G
  <2>1. \A from \in 0..LastFrom : (\A later \in (from + 1)..LastFrom : later \in G) => from \in G
    BY <1>2
  <2> HIDE DEF G
  <2> QED
    BY <1>0, <2>1, Downward
<1> QED
  BY <1>1, <1>3

\* A load finds the candles of s at all: a chunk without candles ends it.
InReach(s) == listed[s] <= Chunk \/ Lookback <= Chunk
Reaches(s, from) == listed[s] * Period <= from + Chunk * Period \/ clock <= from + Chunk * Period

Available(s, from) == {c \in Candle : listed[s] <= c /\ from <= c * Period /\ c * Period < clock}

\* The chunk at from is not empty as long as there is a candle to load.
LEMMA ChunkNotEmpty ==
  ASSUME clock \in Slots, listed \in [Symbols -> Candle], NEW s \in Symbols, NEW from \in Nat, from < clock,
         Reaches(s, from), NEW c \in Available(s, from)
  PROVE  \E e \in Candle : /\ listed[s] <= e /\ e <= Current
                           /\ from <= e * Period /\ e * Period <= ChunkEnd(from)
<1>0. /\ clock \in Nat /\ Period \in Nat \ {0} /\ Chunk \in Nat \ {0} /\ c \in Nat /\ listed[s] \in Nat
      /\ c <= Last /\ Chunk * Period \in Nat /\ Period <= Chunk * Period /\ c * Period \in Nat
  <2>1. clock \in Nat /\ Period \in Nat \ {0} /\ Chunk \in Nat \ {0}
    BY SlotsOf, CandleAssumption
  <2>2. 1 * Period <= Chunk * Period
    BY <2>1, Grows
  <2>3. c \in Candle /\ listed[s] \in Candle
    BY DEF Available
  <2>4. c \in Nat /\ listed[s] \in Nat /\ c <= Last
    BY <2>3, SlotsOf DEF Candle
  <2> QED
    BY <2>1, <2>2, <2>4
<1>1. listed[s] <= c /\ from <= c * Period /\ c * Period < clock
  BY DEF Available
<1>2. c <= Current
  <2>1. Current \in Nat /\ clock < Current * Period + Period
    BY CurrentIs, SlotsOf DEF Candle
  <2>2. Current * Period + Period = (Current + 1) * Period /\ Current * Period \in Nat
    BY <1>0, <2>1
  <2>3. c * Period <= (Current + 1) * Period
    BY <1>0, <1>1, <2>1, <2>2
  <2>4. c <= Current + 1
    BY <1>0, <2>1, <2>3, Scaled
  <2>5. c # Current + 1
    BY <1>0, <1>1, <2>1, <2>2
  <2> QED
    BY <1>0, <2>1, <2>4, <2>5
<1>3. CASE c * Period <= from + Chunk * Period
  <2>1. c * Period <= ChunkEnd(from)
    BY <1>0, <1>1, <1>3 DEF ChunkEnd
  <2> QED
    BY <1>1, <1>2, <2>1 DEF Available
<1>4. CASE ~(c * Period <= from + Chunk * Period)
  <2>1. listed[s] * Period <= from + Chunk * Period /\ ChunkEnd(from) = from + Chunk * Period
    BY <1>0, <1>1, <1>4 DEF Reaches, ChunkEnd
  <2> DEFINE S == {x \in Nat : listed[s] <= x /\ from <= x * Period}
  <2>2. c \in S
    BY <1>0, <1>1
  <2>3. PICK e \in S : \A x \in S : e <= x
    <3>1. S \in SUBSET Nat /\ S # {}
      BY <2>2
    <3> HIDE DEF S
    <3> QED
      BY <3>1, LeastOf
  <2>4. e \in Nat /\ listed[s] <= e /\ from <= e * Period /\ e <= c
    BY <2>2, <2>3
  <2>5. e * Period <= from + Chunk * Period
    <3>1. CASE e = listed[s]
      BY <2>1, <3>1
    <3>2. CASE e # listed[s]
      <4>1. e - 1 \in Nat /\ listed[s] <= e - 1
        BY <1>0, <2>4, <3>2
      <4>2. ~(from <= (e - 1) * Period)
        <5>1. e - 1 \notin S
          BY <2>3, <2>4, <4>1
        <5> QED
          BY <4>1, <5>1
      <4>3. e * Period = (e - 1) * Period + Period /\ (e - 1) * Period \in Nat
        BY <1>0, <4>1, <2>4
      <4> QED
        BY <1>0, <4>2, <4>3
    <3> QED
      BY <3>1, <3>2
  <2>6. e \in Candle /\ e <= Current
    <3>1. Current \in Nat
      BY CurrentIs, SlotsOf DEF Candle
    <3> QED
      BY <1>0, <1>2, <2>4, <3>1, SlotsOf DEF Candle
  <2> QED
    BY <2>1, <2>4, <2>5, <2>6
<1> QED
  BY <1>3, <1>4

\* What a chunk returns has no holes: of a set of candles, the earliest n are
\* all those up to the latest of them.
LEMMA EarliestIs ==
  ASSUME NEW R \in SUBSET Candle, R # {}, NEW n \in Nat \ {0}
  PROVE  /\ Earliest(R, n) \in SUBSET R /\ Earliest(R, n) # {}
         /\ \A c \in Earliest(R, n) : \A d \in R : d <= c => d \in Earliest(R, n)
<1>0. R \in SUBSET Nat /\ IsFiniteSet(R)
  <2>1. Candle \in SUBSET Nat /\ IsFiniteSet(Candle)
    BY SlotsOf, FS_Interval DEF Candle
  <2> QED
    BY <2>1, FS_Subset
<1>1. PICK m \in R : \A x \in R : m <= x
  BY <1>0, LeastOf
<1> USE <1>0
<1>2. {d \in R : d < m} = {}
  <2>1. \A x \in R : x \in Nat /\ m \in Nat /\ m <= x
    BY <1>1
  <2>2. \A x \in R : ~(x < m)
    BY <2>1
  <2> QED
    BY <2>2
<1>3. m \in Earliest(R, n)
  BY <1>2, FS_EmptySet DEF Earliest
<1>4. ASSUME NEW c \in Earliest(R, n), NEW d \in R, d <= c
      PROVE  d \in Earliest(R, n)
  <2>1. c \in R /\ Cardinality({x \in R : x < c}) < n
    BY DEF Earliest
  <2>2. {x \in R : x < d} \in SUBSET {x \in R : x < c}
    <3>1. c \in Nat /\ d \in Nat /\ \A x \in R : x \in Nat
      BY <2>1
    <3>2. \A x \in R : x < d => x < c
      BY <1>4, <3>1
    <3> QED
      BY <3>2
  <2>3. IsFiniteSet({x \in R : x < c}) /\ Cardinality({x \in R : x < c}) \in Nat
    BY <1>0, FS_Subset, FS_CardinalityType
  <2>4. IsFiniteSet({x \in R : x < d}) /\ Cardinality({x \in R : x < d}) <= Cardinality({x \in R : x < c})
    BY <2>2, <2>3, FS_Subset
  <2>5. Cardinality({x \in R : x < d}) \in Nat
    BY <2>4, FS_CardinalityType
  <2>6. Cardinality({x \in R : x < d}) < n
    BY <2>1, <2>3, <2>4, <2>5
  <2> QED
    BY <2>6 DEF Earliest
<1> QED
  BY <1>3, <1>4 DEF Earliest

\* Without a failed chunk, the loop brings every candle that opened before now.
LEMMA ChunksCover ==
  ASSUME clock \in Slots, listed \in [Symbols -> Candle], NEW s \in Symbols,
         NEW start \in 0..LastFrom, Reaches(s, start)
  PROVE  Available(s, start) \subseteq Chunks(s, start, {})
<1>0. LastFrom \in Nat /\ clock \in Nat /\ clock < LastFrom /\ Period \in Nat \ {0} /\ Chunk \in Nat \ {0}
  BY SlotsOf, CandleAssumption DEF LastFrom
<1>1. PICK g : /\ Turns(s, {}, g, 0)
               /\ \A from \in 0..LastFrom : Chunks(s, from, {}) = g[from]
  BY ChunksTurn
<1> DEFINE Good(from) == Reaches(s, from) => Available(s, from) \subseteq g[from]
           G == {from \in 0..LastFrom : Good(from)}
<1>2. ASSUME NEW from \in 0..LastFrom, \A later \in (from + 1)..LastFrom : Good(later)
      PROVE  Good(from)
  <2> SUFFICES ASSUME Reaches(s, from), NEW c \in Available(s, from) PROVE c \in g[from]
    OBVIOUS
  <2> HIDE DEF Good
  <2> DEFINE to == ChunkEnd(from)
             R == {x \in Candle : listed[s] <= x /\ x <= Current /\ from <= x * Period /\ x * Period <= to}
             got == Klines(s, from, to)
             l == Latest(got)
             next == (l + 1) * Period
  <2>1. c \in Candle /\ listed[s] <= c /\ from <= c * Period /\ c * Period < clock /\ c \in Nat /\ c * Period \in Nat
    <3>1. c \in Candle /\ listed[s] <= c /\ from <= c * Period /\ c * Period < clock
      BY DEF Available
    <3>2. c \in Nat
      BY <3>1, SlotsOf DEF Candle
    <3> QED
      BY <1>0, <3>1, <3>2
  <2>2. from < clock /\ from \in Nat
    BY <1>0, <2>1
  <2>3. R # {}
    BY <2>2, ChunkNotEmpty
  <2>4. got = Earliest(R, Chunk)
    BY DEF Klines
  <2>5. /\ got \in SUBSET R /\ got # {}
        /\ \A x \in got : \A d \in R : d <= x => d \in got
    <3>1. R \in SUBSET Candle
      OBVIOUS
    <3> HIDE DEF R, got
    <3> QED
      BY <1>0, <2>3, <2>4, <3>1, EarliestIs
  <2>6. l \in got /\ next \in (from + 1)..LastFrom
    BY <2>2, <2>5, LaterTurns
  <2>7. g[from] = got \cup g[next]
    <3>1. g[from] = Turn(s, {}, g, from)
      BY <1>1 DEF Turns
    <3>2. ~(from >= clock)
      BY <2>2, <1>0
    <3> QED
      BY <2>5, <3>1, <3>2 DEF Turn
  <2>8. l \in Candle /\ listed[s] <= l /\ l * Period <= to /\ l <= Current
    BY <2>5, <2>6
  <2>9. l \in Nat /\ l * Period \in Nat /\ next = l * Period + Period /\ Current \in Nat
    <3>1. l \in Nat /\ Current \in Nat
      BY <2>8, CurrentIs, SlotsOf DEF Candle
    <3> QED
      BY <1>0, <3>1
  <2> HIDE DEF got, l
  <2>10. CASE c <= l
    <3>1. c * Period <= l * Period
      BY <1>0, <2>1, <2>9, <2>10, Grows
    <3>2. c * Period <= to
      BY <2>1, <2>8, <2>9, <3>1, <1>0, <2>2 DEF ChunkEnd
    <3>3. c <= Current
      BY <2>1, <2>8, <2>9, <2>10
    <3>4. c \in R
      BY <2>1, <3>2, <3>3
    <3> HIDE DEF R
    <3> QED
      BY <2>5, <2>6, <2>7, <2>10, <3>4
  <2>11. CASE ~(c <= l)
    <3>1. l + 1 <= c
      BY <2>1, <2>9, <2>11
    <3>2. next <= c * Period
      BY <1>0, <2>1, <2>9, <3>1, Grows
    <3>3. c \in Available(s, next)
      BY <2>1, <3>2 DEF Available
    <3>4. Reaches(s, next)
      <4>1. listed[s] \in Nat
        BY SlotsOf DEF Candle
      <4>2. listed[s] * Period <= l * Period
        BY <1>0, <2>8, <2>9, <4>1, Grows
      <4>3. Chunk * Period \in Nat /\ listed[s] * Period \in Nat
        BY <1>0, <4>1
      <4> QED
        BY <1>0, <2>9, <4>2, <4>3 DEF Reaches
    <3>5. Good(next)
      BY <1>2, <2>6
    <3> QED
      BY <2>7, <3>3, <3>4, <3>5 DEF Good
  <2> QED
    BY <2>10, <2>11
<1>3. \A from \in 0..LastFrom : from \in G
  <2> HIDE DEF Good
  <2>1. \A from \in 0..LastFrom : (\A later \in (from + 1)..LastFrom : later \in G) => from \in G
    BY <1>2
  <2> HIDE DEF G
  <2> QED
    BY <1>0, <2>1, Downward
<1>4. Good(start)
  <2> HIDE DEF Good
  <2> QED
    BY <1>3
<1> QED
  BY <1>1, <1>4

-----------------------------------------------------------------------------
(* Complete data                                                           *)

Reachable == \A s \in Symbols : InReach(s)
Full == \A p \in Pairs : decided[p].clean => 10 * (decided[p].gaps - 1) <= Lookback

LEMMA WindowReached ==
  ASSUME TypeOK, NEW s \in Symbols, InReach(s)
  PROVE  WindowStart \in 0..LastFrom /\ Reaches(s, WindowStart)
<1>1. /\ clock \in Nat /\ Period \in Nat \ {0} /\ Lookback \in Nat /\ Chunk \in Nat /\ listed[s] \in Nat
      /\ Lookback * Period \in Nat /\ Chunk * Period \in Nat
  <2>1. clock \in Nat /\ Period \in Nat \ {0} /\ Lookback \in Nat /\ Chunk \in Nat
    BY SlotsOf, CandleAssumption DEF TypeOK
  <2>2. listed[s] \in Nat
    BY SlotsOf DEF TypeOK, Candle
  <2> QED
    BY <2>1, <2>2
<1>2. WindowStart \in Nat /\ WindowStart <= clock /\ clock <= WindowStart + Lookback * Period
  BY <1>1 DEF WindowStart
<1>3. WindowStart \in 0..LastFrom
  BY <1>1, <1>2 DEF LastFrom
<1>4. CASE listed[s] <= Chunk
  <2>1. listed[s] * Period <= Chunk * Period /\ listed[s] * Period \in Nat
    BY <1>1, <1>4, Grows
  <2> QED
    BY <1>1, <1>2, <1>3, <2>1 DEF Reaches
<1>5. CASE Lookback <= Chunk
  <2>1. Lookback * Period <= Chunk * Period
    BY <1>1, <1>5, Grows
  <2> QED
    BY <1>1, <1>2, <1>3, <2>1 DEF Reaches
<1> QED
  BY <1>4, <1>5 DEF InReach

\* A load whose chunks do not fail leaves out at most the candle that opens now.
LEMMA LoadIsFull ==
  ASSUME TypeOK, NEW s \in Symbols, InReach(s), NEW c \in Window, listed[s] <= c, c * Period # clock
  PROVE  Historical(s, {})[c] # "none"
<1>1. c \in Available(s, WindowStart)
  <2>1. c \in Candle /\ WindowStart <= c * Period /\ c * Period <= clock
    BY DEF Window
  <2>2. c * Period \in Nat /\ clock \in Nat
    BY <2>1, SlotsOf DEF TypeOK, Candle
  <2> QED
    BY <2>1, <2>2 DEF Available
<1>2. c \in Chunks(s, WindowStart, {})
  BY <1>1, WindowReached, ChunksCover DEF TypeOK
<1> QED
  BY <1>1, <1>2 DEF Historical, Cached, Quote, Available

LEMMA AloneIsOne == ASSUME NEW x PROVE IsFiniteSet({x}) /\ Cardinality({x}) = 1
<1>1. IsFiniteSet({}) /\ Cardinality({}) = 0 /\ x \notin {}
  BY FS_EmptySet
<1>2. Cardinality({} \cup {x}) = Cardinality({}) + 1 /\ IsFiniteSet({} \cup {x})
  BY <1>1, FS_AddElement
<1> QED
  BY <1>1, <1>2

LEMMA FewMissing ==
  ASSUME TypeOK, NEW s \in Symbols, InReach(s)
  PROVE  10 * (Cardinality(Missing(Loaded(s, {}), s)) - 1) <= Lookback
<1> DEFINE rows == Loaded(s, {})
           gone == Missing(rows, s)
<1>0. /\ IsFiniteSet(Window) /\ Cardinality(Window) \in Nat /\ Cardinality(Window) <= Lookback + 1
      /\ Lookback \in Nat \ {0} /\ clock \in Slots
  BY WindowBound, SlotsOf DEF TypeOK
<1>1. gone \in SUBSET Window
  BY DEF Missing
<1>2. CASE Incomplete(s)
  <2>1. \A c \in gone : c * Period = clock
    BY <1>2, LoadIsFull DEF Missing, Loaded
  <2>2. \A c, d \in gone : c = d
    <3> SUFFICES ASSUME NEW c \in gone, NEW d \in gone PROVE c = d
      OBVIOUS
    <3>1. c * Period = d * Period
      BY <2>1
    <3>2. c \in Nat /\ d \in Nat /\ Period \in Nat \ {0}
      BY <1>1, SlotsOf DEF Window, Candle
    <3>3. c * Period <= d * Period /\ d * Period <= c * Period
      BY <3>1, <3>2
    <3>4. c <= d /\ d <= c
      BY <3>2, <3>3, Scaled
    <3> QED
      BY <3>2, <3>4
  <2> HIDE DEF gone
  <2>3. CASE gone = {}
    <3>1. Cardinality(gone) = 0
      BY <2>3, FS_EmptySet
    <3> QED
      BY <1>0, <3>1 DEF gone
  <2>4. CASE gone # {}
    <3>1. PICK c \in gone : gone = {c}
      BY <2>2, <2>4
    <3>2. Cardinality(gone) = 1
      BY <3>1, AloneIsOne
    <3> QED
      BY <1>0, <3>2 DEF gone
  <2> QED
    BY <2>3, <2>4
<1>3. CASE ~Incomplete(s)
  <2> DEFINE have == Stored(s) \cap Window
  <2>1. 10 * Cardinality(have) >= 9 * Lookback
    <3>1. IsFiniteSet(have) /\ Cardinality(have) \in Nat
      BY <1>0, FS_Subset, FS_CardinalityType
    <3> QED
      BY <1>0, <1>3, <3>1 DEF Incomplete
  <2>2. gone \in SUBSET (Window \ Stored(s))
    BY <1>3 DEF Missing, Loaded, Stored, Window
  <2>3. IsFiniteSet(Window \ Stored(s)) /\ Cardinality(Window \ Stored(s)) = Cardinality(Window) - Cardinality(have)
    <3>1. Window \cap Stored(s) = have
      OBVIOUS
    <3> QED
      BY <1>0, <3>1, FS_Difference
  <2> HIDE DEF gone
  <2>4. IsFiniteSet(gone) /\ Cardinality(gone) <= Cardinality(Window) - Cardinality(have)
    BY <2>2, <2>3, FS_Subset
  <2>5. Cardinality(gone) \in Nat /\ Cardinality(have) \in Nat
    BY <1>0, <2>4, FS_Subset, FS_CardinalityType
  <2>6. 10 * (Cardinality(gone) - 1) <= Lookback
    BY <1>0, <2>1, <2>4, <2>5
  <2> QED
    BY <2>6 DEF gone
<1> QED
  BY <1>2, <1>3

LEMMA FullWork ==
  ASSUME TypeOK, Reachable, Full, NEW p \in Pairs, NEW failing, NEW persists, Work(p, failing, persists)
  PROVE  Full'
<1> DEFINE s == SymbolOf(p)
           rows == Loaded(s, failing)
           have == {c \in Window : rows[c] # "none"}
           new == [candle |-> Latest(have), times |-> Count(p, Latest(have)),
                   gaps |-> Cardinality(Missing(rows, s)), clean |-> failing = {}]
<1>1. decided' = decided \/ decided' = [decided EXCEPT ![p] = new]
  BY DEF Work
<1>2. new.clean => 10 * (new.gaps - 1) <= Lookback
  BY PairParts, FewMissing DEF Reachable
<1>3. decided \in [Pairs -> [candle : Candle \cup {NoCandle}, times : 0..3, gaps : 0..(Lookback + 1), clean : BOOLEAN]]
  BY DEF TypeOK
<1> HIDE DEF new
<1> QED
  BY <1>1, <1>2, <1>3 DEF Full

LEMMA FullStep == ASSUME TypeOK, Reachable, Full, [Next]_vars PROVE Reachable' /\ Full'
<1>1. Reachable'
  <2>1. UNCHANGED listed
    BY DEF Next, vars, Advance, Disconnect, Reconnect, StreamRestart, PullHistory, FetchCandles, FanOut,
           TickSkipped, Recycle, StreamClose, Tick, TickLoadFails, TickPersistFails, TickUnlocked, TickCrash,
           Configure, Work
  <2> QED
    BY <2>1 DEF Reachable, InReach
<1>2. ASSUME NEW p \in Pairs, Tick(p) \/ TickLoadFails(p) \/ TickPersistFails(p) \/ TickUnlocked(p)
      PROVE  Full'
  BY <1>2, FullWork DEF Tick, TickLoadFails, TickPersistFails, TickUnlocked
<1>3. ASSUME UNCHANGED decided PROVE Full'
  BY <1>3 DEF Full
<1>4. ASSUME Advance \/ Disconnect \/ Reconnect \/ StreamRestart \/ PullHistory \/ FetchCandles \/ FanOut
             \/ TickSkipped \/ Recycle
      PROVE  Full'
  BY <1>3, <1>4 DEF Advance, Disconnect, Reconnect, StreamRestart, PullHistory, FetchCandles, FanOut,
                    TickSkipped, Recycle
<1>5. ASSUME (\E s \in Symbols : StreamClose(s)) \/ \E p \in Pairs : TickCrash(p) \/ Configure(p)
      PROVE  Full'
  BY <1>3, <1>5 DEF StreamClose, TickCrash, Configure
<1>6. ASSUME UNCHANGED vars PROVE Full'
  BY <1>3, <1>6 DEF vars
<1> QED
  BY <1>1, <1>2, <1>4, <1>5, <1>6 DEF Next

\* A decision whose load did not fail lacks at most a tenth of the window, and
\* the candle that opens with it: whatever fetches failed before, however the
\* lookback is cut into chunks, and whatever else the process went through.
THEOREM DataSuffices == ASSUME ListedInReach PROVE Spec => []DataComplete
<1>1. Init => Reachable /\ Full
  <2> SUFFICES ASSUME Init PROVE Reachable /\ Full
    OBVIOUS
  <2>1. Reachable
    BY DEF Init, ListedInReach, Reachable, InReach
  <2>2. Full
    BY SlotsOf DEF Init, Full
  <2> QED
    BY <2>1, <2>2
<1>2. Full => DataComplete
  BY DEF Full, DataComplete
<1> QED
  BY <1>1, <1>2, TypeInit, TypeStep, FullStep, PTL DEF Spec

-----------------------------------------------------------------------------
(* The timetable of a period                                               *)

Slot == clock - Current * Period

Members(q) == {q[i] : i \in DOMAIN q}

LEMMA SlotIs ==
  ASSUME clock \in Slots
  PROVE  /\ Slot \in 0..(Period - 1) /\ clock % Period = Slot /\ clock = Current * Period + Slot
         /\ Current \in Nat /\ Current * Period \in Nat /\ clock \in Nat
<1>1. Current \in Nat /\ Period \in Nat \ {0} /\ clock \in Nat /\ Current * Period <= clock /\ clock < Current * Period + Period
  BY CurrentIs, SlotsOf DEF Candle
<1>2. Current * Period \in Nat
  BY <1>1
<1>3. clock % Period = clock - Current * Period
  BY <1>1 DEF Current
<1> QED
  BY <1>1, <1>2, <1>3 DEF Slot

LEMMA CurrentIsThe ==
  ASSUME NEW n \in Nat, NEW k \in Nat \ {0}, NEW t \in Nat, n * k <= t, t < n * k + k
  PROVE  t \div k = n
<1>1. t \div k \in Nat /\ (t \div k) * k <= t /\ t < (t \div k) * k + k
  BY Divided
<1> DEFINE m == t \div k
<1>2. m \in Nat /\ m * k <= t /\ t < m * k + k
  BY <1>1
<1> HIDE DEF m
<1>3. m <= n
  <2>1. CASE m >= n + 1
    <3>1. (n + 1) * k <= m * k
      BY <1>2, <2>1, Grows
    <3>2. (n + 1) * k = n * k + k /\ n * k \in Nat /\ m * k \in Nat
      BY <1>2
    <3> QED
      BY <1>2, <3>1, <3>2
  <2> QED
    BY <1>2, <2>1
<1>4. n <= m
  <2>1. CASE n >= m + 1
    <3>1. (m + 1) * k <= n * k
      BY <1>2, <2>1, Grows
    <3>2. (m + 1) * k = m * k + k /\ n * k \in Nat /\ m * k \in Nat
      BY <1>2
    <3> QED
      BY <1>2, <3>1, <3>2
  <2> QED
    BY <1>2, <2>1
<1>5. m = n
  BY <1>2, <1>3, <1>4
<1> QED
  BY <1>5 DEF m

\* The next slot is of the same period, or the first of the next one.
LEMMA SlotNext ==
  ASSUME clock \in Slots, clock' = clock + 1
  PROVE  \/ Slot + 1 < Period /\ Current' = Current /\ Slot' = Slot + 1
         \/ Slot + 1 = Period /\ Current' = Current + 1 /\ Slot' = 0
<1>1. /\ Slot \in 0..(Period - 1) /\ clock = Current * Period + Slot
      /\ Current \in Nat /\ Current * Period \in Nat /\ clock \in Nat /\ Period \in Nat \ {0}
  BY SlotIs, SlotsOf
<1>2. CASE Slot + 1 < Period
  <2>1. (clock + 1) \div Period = Current
    <3>1. clock + 1 \in Nat /\ Current * Period <= clock + 1 /\ clock + 1 < Current * Period + Period
      BY <1>1, <1>2
    <3> QED
      BY <1>1, <3>1, CurrentIsThe
  <2>2. Current' = Current
    BY <2>1 DEF Current
  <2> QED
    BY <1>1, <1>2, <2>2 DEF Slot
<1>3. CASE ~(Slot + 1 < Period)
  <2>1. Slot + 1 = Period /\ clock + 1 = Current * Period + Period /\ (Current + 1) * Period = Current * Period + Period
    BY <1>1, <1>3
  <2>2. (clock + 1) \div Period = Current + 1
    <3>1. /\ clock + 1 \in Nat /\ Current + 1 \in Nat
          /\ (Current + 1) * Period <= clock + 1 /\ clock + 1 < (Current + 1) * Period + Period
      BY <1>1, <2>1
    <3> QED
      BY <1>1, <3>1, CurrentIsThe
  <2>3. Current' = Current + 1
    BY <2>2 DEF Current
  <2>4. Slot' = (clock + 1) - (Current + 1) * Period
    BY <2>3 DEF Slot
  <2> QED
    BY <1>1, <2>1, <2>3, <2>4
<1> QED
  BY <1>2, <1>3

LEMMA MembersOf ==
  ASSUME NEW q, q \in Seq(Tasks)
  PROVE  /\ q # <<>> => Members(q) = {Head(q)} \cup Members(Tail(q)) /\ Head(q) = q[1]
         /\ \A r \in Seq(Tasks) : Members(q \o r) = Members(q) \cup Members(r)
         /\ \A t \in Tasks : Members(Append(q, t)) = Members(q) \cup {t}
<1>1. ASSUME q # <<>> PROVE Members(q) = {Head(q)} \cup Members(Tail(q)) /\ Head(q) = q[1]
  <2>1. /\ Len(q) \in Nat \ {0} /\ DOMAIN q = 1..Len(q) /\ DOMAIN Tail(q) = 1..(Len(q) - 1)
        /\ \A i \in 1..(Len(q) - 1) : Tail(q)[i] = q[i + 1]
    BY <1>1
  <2>2. \A i \in 1..Len(q) : i = 1 \/ (i - 1 \in 1..(Len(q) - 1) /\ (i - 1) + 1 = i)
    BY <2>1
  <2>3. Members(q) \subseteq {q[1]} \cup Members(Tail(q))
    <3> SUFFICES ASSUME NEW i \in 1..Len(q) PROVE q[i] \in {q[1]} \cup Members(Tail(q))
      BY <2>1 DEF Members
    <3>1. CASE i = 1
      BY <3>1
    <3>2. CASE i # 1
      <4>1. i - 1 \in DOMAIN Tail(q) /\ Tail(q)[i - 1] = q[i]
        BY <2>1, <2>2, <3>2
      <4> QED
        BY <4>1 DEF Members
    <3> QED
      BY <3>1, <3>2
  <2>4. {q[1]} \cup Members(Tail(q)) \subseteq Members(q)
    BY <2>1 DEF Members
  <2> QED
    BY <1>1, <2>3, <2>4
<1>2. ASSUME NEW r \in Seq(Tasks) PROVE Members(q \o r) = Members(q) \cup Members(r)
  <2>1. /\ Len(q) \in Nat /\ Len(r) \in Nat /\ DOMAIN q = 1..Len(q) /\ DOMAIN r = 1..Len(r)
        /\ DOMAIN (q \o r) = 1..(Len(q) + Len(r))
        /\ \A i \in 1..(Len(q) + Len(r)) : (q \o r)[i] = IF i <= Len(q) THEN q[i] ELSE r[i - Len(q)]
    BY <1>2
  <2>2. Members(q \o r) \subseteq Members(q) \cup Members(r)
    <3> SUFFICES ASSUME NEW i \in 1..(Len(q) + Len(r)) PROVE (q \o r)[i] \in Members(q) \cup Members(r)
      BY <2>1 DEF Members
    <3>1. CASE i <= Len(q)
      BY <2>1, <3>1 DEF Members
    <3>2. CASE ~(i <= Len(q))
      <4>1. i - Len(q) \in 1..Len(r)
        BY <2>1, <3>2
      <4> QED
        BY <2>1, <3>2, <4>1 DEF Members
    <3> QED
      BY <3>1, <3>2
  <2>3. Members(q) \subseteq Members(q \o r)
    BY <2>1 DEF Members
  <2>4. Members(r) \subseteq Members(q \o r)
    <3> SUFFICES ASSUME NEW i \in 1..Len(r) PROVE r[i] \in Members(q \o r)
      BY <2>1 DEF Members
    <3>1. i + Len(q) \in 1..(Len(q) + Len(r)) /\ ~(i + Len(q) <= Len(q)) /\ (i + Len(q)) - Len(q) = i
      BY <2>1
    <3>2. (q \o r)[i + Len(q)] = r[i]
      BY <2>1, <3>1
    <3> QED
      BY <2>1, <3>1, <3>2 DEF Members
  <2> QED
    BY <2>2, <2>3, <2>4
<1>3. ASSUME NEW t \in Tasks PROVE Members(Append(q, t)) = Members(q) \cup {t}
  <2>1. /\ Len(q) \in Nat /\ DOMAIN q = 1..Len(q) /\ DOMAIN Append(q, t) = 1..(Len(q) + 1)
        /\ \A i \in 1..Len(q) : Append(q, t)[i] = q[i]
        /\ Append(q, t)[Len(q) + 1] = t
    BY <1>3
  <2>2. \A i \in 1..(Len(q) + 1) : i \in 1..Len(q) \/ i = Len(q) + 1
    BY <2>1
  <2>3. Len(q) + 1 \in 1..(Len(q) + 1)
    BY <2>1
  <2>4. \A i \in 1..Len(q) : i \in 1..(Len(q) + 1)
    BY <2>1
  <2> QED
    BY <2>1, <2>2, <2>3, <2>4 DEF Members
<1> QED
  BY <1>1, <1>2, <1>3

\* A fetch is only ever the first task that waits.
HeadOnly(q) == \A i \in DOMAIN q : q[i] = Fetch => i = 1

LEMMA HeadOnlyIs ==
  ASSUME NEW q, q \in Seq(Tasks)
  PROVE  /\ HeadOnly(q) /\ q # <<>> => Fetch \notin Members(Tail(q))
         /\ HeadOnly(q) => \A t \in Tasks : t # Fetch => HeadOnly(Append(q, t))
         /\ Fetch \notin Members(q) => HeadOnly(q)
<1>1. ASSUME HeadOnly(q), q # <<>>, Fetch \in Members(Tail(q)) PROVE FALSE
  <2>1. PICK i \in DOMAIN Tail(q) : Tail(q)[i] = Fetch
    BY <1>1 DEF Members
  <2>2. i \in 1..(Len(q) - 1) /\ Len(q) \in Nat /\ i + 1 \in DOMAIN q /\ q[i + 1] = Fetch
    BY <1>1, <2>1
  <2> QED
    BY <1>1, <2>2 DEF HeadOnly
<1>2. ASSUME HeadOnly(q), NEW t \in Tasks, t # Fetch PROVE HeadOnly(Append(q, t))
  <2>1. /\ Len(q) \in Nat /\ DOMAIN q = 1..Len(q) /\ DOMAIN Append(q, t) = 1..(Len(q) + 1)
        /\ \A i \in 1..Len(q) : Append(q, t)[i] = q[i]
        /\ Append(q, t)[Len(q) + 1] = t
    OBVIOUS
  <2>2. \A i \in 1..(Len(q) + 1) : i \in 1..Len(q) \/ i = Len(q) + 1
    BY <2>1
  <2> QED
    BY <1>2, <2>1, <2>2 DEF HeadOnly
<1> QED
  BY <1>1, <1>2 DEF HeadOnly, Members

LEMMA TasksDiffer ==
  /\ Fetch # Dispatcher /\ \A p : Ticks(p) # Fetch /\ Ticks(p) # Dispatcher
  /\ \A p : Ticks(p).kind = "tick" /\ Ticks(p).pair = p
  /\ Fetch.kind = "fetch" /\ Dispatcher.kind = "dispatch"
  /\ \A t \in Tasks : /\ t.kind = "fetch" => t = Fetch
                      /\ t.kind = "dispatch" => t = Dispatcher
                      /\ t.kind = "tick" => t = Ticks(t.pair)
<1>1. Fetch.kind = "fetch" /\ Dispatcher.kind = "dispatch"
  BY DEF Fetch, Dispatcher
<1>2. \A p : Ticks(p).kind = "tick" /\ Ticks(p).pair = p
  BY DEF Ticks
<1>3. "fetch" # "dispatch" /\ "fetch" # "tick" /\ "dispatch" # "tick"
  OBVIOUS
<1>4. Fetch # Dispatcher /\ \A p : Ticks(p) # Fetch /\ Ticks(p) # Dispatcher
  BY <1>1, <1>2, <1>3
<1>5. ASSUME NEW t \in Tasks
      PROVE  /\ t.kind = "fetch" => t = Fetch
             /\ t.kind = "dispatch" => t = Dispatcher
             /\ t.kind = "tick" => t = Ticks(t.pair)
  <2>1. t = Fetch \/ t = Dispatcher \/ \E p \in Pairs : t = Ticks(p)
    BY DEF Tasks
  <2> QED
    BY <2>1, <1>1, <1>2, <1>3
<1> QED
  BY <1>1, <1>2, <1>4, <1>5

Quiet == faults = {}

\* The candle of the period has been fetched.
Fetched == Slot > FetchAt \/ (Slot = FetchAt /\ Fetch \notin Members(queue))

\* What a worker that keeps up has done, slot by slot.
OnTime ==
    /\ enabled = Pairs /\ \A s \in Symbols : listed[s] <= Current
    /\ HeadOnly(queue)
    /\ \A t \in Members(queue) : IF t = Fetch THEN Slot = FetchAt ELSE Slot \in {0, TickAt}
    /\ Fetched => \A s \in Symbols : cache[s][Current] # "none"
    /\ Slot = TickAt => \A p \in Pairs : \/ decided[p].candle = Current
                                         \/ Dispatcher \in Members(queue) \/ Ticks(p) \in Members(queue)
    /\ Slot > TickAt => \A p \in Pairs : decided[p].candle = Current
    /\ \A p \in Pairs : /\ lock[p].until <= clock + TTL
                        /\ lock[p].until > Current * Period + TTL => decided[p].candle = Current

LEMMA Numbers ==
  ASSUME TypeOK
  PROVE  /\ clock \in Slots /\ clock \in Nat /\ Current \in Nat /\ Current \in Candle /\ Current * Period \in Nat
         /\ clock = Current * Period + Slot /\ Slot \in 0..(Period - 1) /\ clock % Period = Slot
         /\ Period \in Nat \ {0} /\ FetchAt \in Nat /\ TickAt \in Nat /\ TTL \in Nat /\ Lookback \in Nat \ {0}
         /\ FetchAt <= Period - 1 /\ TickAt <= Period - 1
         /\ \A p \in Pairs : lock[p].until \in Nat
         /\ \A s \in Symbols : listed[s] \in Nat
<1>1. clock \in Slots /\ \A p \in Pairs : lock[p].until \in Nat
  BY DEF TypeOK
<1>2. Period \in Nat \ {0} /\ Lookback \in Nat \ {0} /\ FetchAt \in 0..(Period - 1) /\ TickAt \in 0..(Period - 1) /\ TTL \in Nat
  BY SlotsOf, DispatchAssumption
<1>3. \A s \in Symbols : listed[s] \in Nat
  BY SlotsOf DEF TypeOK, Candle
<1>4. Current \in Candle
  BY <1>1, CurrentIs
<1> QED
  BY <1>1, <1>2, <1>3, <1>4, SlotIs

LEMMA OnTimeInit == ASSUME Timetable, AllTraded, Init, Quiet PROVE OnTime
<1>1. TypeOK
  BY TypeInit
<1>2. clock = Lookback * Period + FetchAt /\ queue = <<Fetch>> /\ enabled = Pairs
  BY DEF Init
<1>3. Current = Lookback /\ Slot = FetchAt
  <2>1. /\ Lookback * Period \in Nat /\ clock \in Nat /\ Lookback * Period <= clock
        /\ clock < Lookback * Period + Period
    BY <1>1, <1>2, Numbers
  <2>2. clock \div Period = Lookback
    BY <1>1, <2>1, Numbers, CurrentIsThe
  <2>3. Current = Lookback
    BY <2>2 DEF Current
  <2> QED
    BY <2>3, <1>1, <1>2, <2>1, Numbers DEF Slot
<1>4. \A s \in Symbols : listed[s] <= Current
  BY <1>3 DEF Init, AllTraded, Quiet
<1>5. Members(queue) = {Fetch} /\ HeadOnly(queue)
  BY <1>2 DEF Members, HeadOnly
<1>6. ~Fetched
  BY <1>1, <1>3, <1>5, Numbers DEF Fetched
<1>7. \A p \in Pairs : lock[p].until = 0
  BY DEF Init
<1>8. \A p \in Pairs : lock[p].until <= clock + TTL /\ ~(lock[p].until > Current * Period + TTL)
  BY <1>1, <1>7, Numbers
<1>9. Slot # TickAt /\ ~(Slot > TickAt)
  BY <1>1, <1>3, Numbers DEF Timetable
<1> QED
  BY <1>2, <1>3, <1>4, <1>5, <1>6, <1>8, <1>9 DEF OnTime

LEMMA OnTimeAdvance == ASSUME Timetable, TypeOK, Quiet, OnTime, Advance PROVE OnTime'
<1>0. queue = <<>> /\ clock' = clock + 1 /\ queue' = queue \o Due(clock + 1) /\ clock' \in Slots
      /\ UNCHANGED <<listed, cache, lock, enabled, decided>>
  BY DEF Advance, Fault, Quiet
<1>1. Members(queue) = {}
  BY <1>0 DEF Members
<1>2. /\ clock \in Nat /\ Current \in Nat /\ Current * Period \in Nat /\ Slot \in 0..(Period - 1)
      /\ Period \in Nat \ {0} /\ FetchAt \in Nat /\ TickAt \in Nat /\ TTL \in Nat /\ clock = Current * Period + Slot
      /\ (\A p \in Pairs : lock[p].until \in Nat) /\ (\A s \in Symbols : listed[s] \in Nat)
      /\ FetchAt < TickAt /\ TTL <= TickAt
  BY Numbers DEF Timetable
<1>3. (clock + 1) % Period = Slot'
  <2>1. (clock % Period)' = Slot'
    <3>1. clock' \in Slots => (clock % Period)' = Slot'
      <4>1. clock' \in Slots => clock' % Period = clock' - (clock' \div Period) * Period
        BY SlotsOf
      <4> QED
        BY <4>1 DEF Slot, Current
    <3> QED
      BY <3>1, <1>0
  <2> QED
    BY <2>1, <1>0
<1>4. queue' = IF Slot' = FetchAt THEN <<Fetch>> ELSE IF Slot' = TickAt THEN <<Dispatcher>> ELSE <<>>
  <2>1. Due(clock + 1) = (IF Slot' = FetchAt THEN <<Fetch>> ELSE <<>>)
                             \o (IF Slot' = TickAt THEN <<Dispatcher>> ELSE <<>>)
    BY <1>3 DEF Due
  <2>2. FetchAt # TickAt
    BY <1>2
  <2>3. queue' = Due(clock + 1)
    <3>1. Due(clock + 1) \in Seq(Tasks)
      BY TaskKinds, <2>1
    <3> QED
      BY <1>0, <3>1
  <2>4. CASE Slot' = FetchAt
    BY <2>1, <2>2, <2>3, <2>4
  <2>5. CASE Slot' = TickAt
    BY <2>1, <2>2, <2>3, <2>5
  <2>6. CASE Slot' # FetchAt /\ Slot' # TickAt
    BY <2>1, <2>3, <2>6
  <2> QED
    BY <2>4, <2>5, <2>6
<1>5. Members(queue') = IF Slot' = FetchAt THEN {Fetch} ELSE IF Slot' = TickAt THEN {Dispatcher} ELSE {}
  BY <1>4 DEF Members
<1>6. HeadOnly(queue')
  BY <1>4 DEF HeadOnly
<1>7. \A t \in Members(queue') : IF t = Fetch THEN Slot' = FetchAt ELSE Slot' \in {0, TickAt}
  BY <1>5, TasksDiffer
<1>8. CASE Slot + 1 < Period /\ Current' = Current /\ Slot' = Slot + 1
  <2>1. Fetched' => Fetched
    <3>1. Fetched' => Slot' > FetchAt
      BY <1>5, <1>2, <1>8 DEF Fetched
    <3> QED
      BY <3>1, <1>1, <1>2, <1>8 DEF Fetched
  <2>2. Slot' = TickAt => Dispatcher \in Members(queue')
    BY <1>2, <1>5
  <2>3. Slot' > TickAt => \A p \in Pairs : decided[p].candle = Current
    BY <1>1, <1>2, <1>8 DEF OnTime
  <2>4. \A p \in Pairs : lock[p].until <= clock' + TTL
    <3> SUFFICES ASSUME NEW p \in Pairs PROVE lock[p].until <= clock' + TTL
      OBVIOUS
    <3>1. lock[p].until <= clock + TTL
      BY DEF OnTime
    <3>2. lock[p].until \in Nat /\ clock \in Nat /\ TTL \in Nat /\ clock' = clock + 1
      BY <1>0, <1>2
    <3> QED
      BY <3>1, <3>2
  <2> QED
    BY <1>0, <1>6, <1>7, <1>8, <2>1, <2>2, <2>3, <2>4 DEF OnTime
<1>9. CASE Slot + 1 = Period /\ Current' = Current + 1 /\ Slot' = 0
  <2>1. ~Fetched'
    BY <1>2, <1>5, <1>9 DEF Fetched
  <2>2. Slot' # TickAt /\ ~(Slot' > TickAt)
    BY <1>2, <1>9
  <2>3. Current' * Period = clock + 1
    <3>1. (Current + 1) * Period = Current * Period + Period
      BY <1>2
    <3> QED
      BY <1>2, <1>9, <3>1
  <2>4. \A p \in Pairs : lock[p].until <= clock + TTL
    BY DEF OnTime
  <2>5. \A p \in Pairs : lock[p].until <= clock' + TTL /\ ~(lock[p].until > Current' * Period + TTL)
    BY <1>0, <1>2, <2>3, <2>4
  <2>6. \A s \in Symbols : listed[s] <= Current'
    BY <1>2, <1>9 DEF OnTime
  <2> QED
    BY <1>0, <1>6, <1>7, <2>1, <2>2, <2>5, <2>6 DEF OnTime
<1> QED
  BY <1>0, <1>8, <1>9, SlotNext DEF TypeOK

\* The worker takes the first task; no fetch waits behind it.
LEMMA Popped ==
  ASSUME TypeOK, OnTime, queue # <<>>
  PROVE  /\ Head(queue) \in Tasks /\ Tail(queue) \in Seq(Tasks)
         /\ Members(queue) = {Head(queue)} \cup Members(Tail(queue))
         /\ Fetch \notin Members(Tail(queue)) /\ HeadOnly(Tail(queue))
         /\ IF Head(queue) = Fetch THEN Slot = FetchAt ELSE Slot \in {0, TickAt}
         /\ Head(queue) # Fetch => Fetch \notin Members(queue)
<1>1. queue \in Seq(Tasks) /\ HeadOnly(queue)
  BY DEF TypeOK, Tasks, OnTime
<1>2. Head(queue) \in Tasks /\ Tail(queue) \in Seq(Tasks)
  BY <1>1, HeadAndTail
<1>3. Members(queue) = {Head(queue)} \cup Members(Tail(queue)) /\ Fetch \notin Members(Tail(queue))
  BY <1>1, MembersOf, HeadOnlyIs
<1>4. HeadOnly(Tail(queue))
  BY <1>2, <1>3, HeadOnlyIs
<1> QED
  BY <1>2, <1>3, <1>4 DEF OnTime

LEMMA OnTimeClose == ASSUME Timetable, TypeOK, Quiet, OnTime, NEW s \in Symbols, StreamClose(s) PROVE OnTime'
<1>1. /\ clock % Period = 0 /\ queue' = Append(queue, Dispatcher)
      /\ UNCHANGED <<clock, listed, cache, lock, enabled, decided>>
  BY DEF StreamClose
<1>2. queue \in Seq(Tasks) /\ Dispatcher \in Tasks /\ Dispatcher # Fetch
  BY TaskKinds, TasksDiffer DEF TypeOK, Tasks
<1>3. Members(queue') = Members(queue) \cup {Dispatcher} /\ HeadOnly(queue')
  BY <1>1, <1>2, MembersOf, HeadOnlyIs DEF OnTime
<1>4. Slot = 0 /\ Slot' = Slot /\ Current' = Current
  BY <1>1, Numbers DEF Slot, Current
<1>5. Fetched' => Fetched
  BY <1>3, <1>4 DEF Fetched
<1>6. \A t \in Members(queue') : IF t = Fetch THEN Slot = FetchAt ELSE Slot \in {0, TickAt}
  BY <1>2, <1>3, <1>4 DEF OnTime
<1> QED
  BY <1>1, <1>3, <1>4, <1>5, <1>6 DEF OnTime

LEMMA OnTimeFetch == ASSUME Timetable, TypeOK, Quiet, OnTime, FetchCandles PROVE OnTime'
<1>1. /\ queue # <<>> /\ Head(queue).kind = "fetch" /\ queue' = Tail(queue)
      /\ cache' = [s \in Symbols |-> Cached(s, Trailing(s))]
      /\ UNCHANGED <<clock, listed, lock, enabled, decided>>
  BY DEF FetchCandles, IsNext, Fault, Quiet
<1>2. Head(queue) = Fetch /\ Slot = FetchAt
  BY <1>1, Popped, TasksDiffer
<1>3. /\ Members(queue') \subseteq Members(queue) /\ HeadOnly(queue')
  BY <1>1, Popped
<1>4. Slot' = Slot /\ Current' = Current
  BY <1>1 DEF Slot, Current
<1>5. \A s \in Symbols : cache'[s][Current] # "none"
  <2> SUFFICES ASSUME NEW s \in Symbols PROVE cache'[s][Current] # "none"
    OBVIOUS
  <2>1. Current \in Trailing(s)
    <3>1. Current \in Candle /\ Current \in Nat /\ listed[s] <= Current /\ FetchLimit \in Nat \ {0}
      BY Numbers, CandleAssumption DEF OnTime
    <3> QED
      BY <3>1 DEF Trailing
  <2>2. cache'[s][Current] = Cached(s, Trailing(s))[Current]
    BY <1>1
  <2> QED
    BY <2>1, <2>2, Numbers DEF Cached, Quote
<1>6. Slot # TickAt /\ ~(Slot > TickAt)
  BY <1>2, Numbers DEF Timetable
<1> QED
  BY <1>1, <1>3, <1>4, <1>5, <1>6 DEF OnTime

LEMMA OnTimeFanOut == ASSUME Timetable, AllTraded, TypeOK, Quiet, OnTime, FanOut PROVE OnTime'
<1> DEFINE ts == [i \in DOMAIN Listing |-> Ticks(Listing[i])]
<1>1. /\ queue # <<>> /\ Head(queue).kind = "dispatch" /\ queue' = Tail(queue) \o ts
      /\ UNCHANGED <<clock, listed, cache, lock, enabled, decided>>
  BY DEF FanOut, IsNext
<1>2. Head(queue) = Dispatcher /\ Slot \in {0, TickAt} /\ Fetch \notin Members(queue)
  BY <1>1, Popped, TasksDiffer
<1>3. ts \in Seq(Tasks) /\ (\A i \in DOMAIN ts : \E p \in Pairs : ts[i] = Ticks(p))
      /\ \A p \in Pairs : \E i \in DOMAIN ts : ts[i] = Ticks(p)
  <2>1. Listing \in Seq(Pairs) /\ \A p \in Pairs : \E i \in DOMAIN Listing : Listing[i] = p
    BY ListingIs DEF OnTime, AllTraded
  <2>2. Len(Listing) \in Nat /\ DOMAIN Listing = 1..Len(Listing)
    BY <2>1
  <2>3. \A i \in DOMAIN Listing : Listing[i] \in Pairs /\ Ticks(Listing[i]) \in Tasks
    BY <2>1 DEF Tasks
  <2>4. ts \in [1..Len(Listing) -> Tasks]
    BY <2>2, <2>3
  <2> QED
    BY <2>1, <2>2, <2>3, <2>4
<1>4. Members(queue') = Members(Tail(queue)) \cup Members(ts)
  BY <1>1, <1>3, Popped, MembersOf
<1> HIDE DEF ts
<1>5. /\ \A t \in Members(ts) : \E p \in Pairs : t = Ticks(p)
      /\ \A p \in Pairs : Ticks(p) \in Members(ts)
  BY <1>3 DEF Members
<1>6. Members(Tail(queue)) \subseteq Members(queue)
  BY <1>1, Popped
<1>7. Fetch \notin Members(queue')
  BY <1>2, <1>4, <1>5, <1>6, TasksDiffer
<1>8. queue' \in Seq(Tasks)
  BY <1>1, <1>3, Popped
<1>9. HeadOnly(queue')
  BY <1>7, <1>8, HeadOnlyIs
<1>10. Slot' = Slot /\ Current' = Current
  BY <1>1 DEF Slot, Current
<1>11. \A t \in Members(queue') : IF t = Fetch THEN Slot = FetchAt ELSE Slot \in {0, TickAt}
  BY <1>2, <1>7
<1>12. Fetched' => Fetched
  BY <1>2, <1>10 DEF Fetched
<1> QED
  BY <1>1, <1>4, <1>5, <1>9, <1>10, <1>11, <1>12 DEF OnTime

LEMMA OnTimeSkip == ASSUME Timetable, TypeOK, Quiet, OnTime, TickSkipped PROVE OnTime'
<1> DEFINE q == Head(queue).pair
<1>1. /\ queue # <<>> /\ Head(queue).kind = "tick" /\ queue' = Tail(queue) /\ Held(q)
      /\ UNCHANGED <<clock, listed, cache, lock, enabled, decided>>
  BY DEF TickSkipped, IsNext
<1>2. Head(queue) = Ticks(q) /\ Slot \in {0, TickAt} /\ Fetch \notin Members(queue) /\ q \in Pairs
  BY <1>1, Popped, TasksDiffer, TaskKinds
<1> HIDE DEF q
<1>3. Members(queue) = {Ticks(q)} \cup Members(queue') /\ HeadOnly(queue')
  BY <1>1, <1>2, Popped
<1>4. Slot' = Slot /\ Current' = Current
  BY <1>1 DEF Slot, Current
<1>5. Fetched' => Fetched
  BY <1>2, <1>4 DEF Fetched
<1>6. Slot = TickAt => decided[q].candle = Current
  <2> SUFFICES ASSUME Slot = TickAt PROVE decided[q].candle = Current
    OBVIOUS
  <2>1. clock < lock[q].until /\ lock[q].until \in Nat
    BY <1>1, <1>2, Numbers DEF Held
  <2>2. lock[q].until > Current * Period + TTL
    <3>1. clock = Current * Period + Slot /\ Current * Period \in Nat /\ TTL \in Nat /\ TickAt \in Nat /\ TTL <= TickAt
      BY Numbers DEF Timetable
    <3> QED
      BY <2>1, <3>1
  <2> QED
    BY <1>2, <2>2 DEF OnTime
<1>7. \A p \in Pairs : Ticks(p) \in Members(queue) => p = q \/ Ticks(p) \in Members(queue')
  BY <1>3, TasksDiffer
<1>8. Dispatcher \in Members(queue) => Dispatcher \in Members(queue')
  BY <1>3, TasksDiffer
<1> QED
  BY <1>1, <1>3, <1>4, <1>5, <1>6, <1>7, <1>8 DEF OnTime

\* A pair whose symbol has the current candle decides on it.
LEMMA DecidesOnCurrent ==
  ASSUME TypeOK, NEW p \in Pairs, Work(p, {}, TRUE), cache[SymbolOf(p)][Current] # "none"
  PROVE  decided'[p].candle = Current
<1> DEFINE s == SymbolOf(p)
           rows == Loaded(s, {})
           have == {c \in Window : rows[c] # "none"}
<1>1. rows[Current] # "none"
  BY Numbers DEF Loaded, Historical, Cached, Quote
<1>2. Current \in Window
  <2>1. WindowStart <= Current * Period
    <3>1. 1 * Period <= Lookback * Period
      BY Numbers, Grows
    <3>2. Lookback * Period \in Nat
      BY Numbers
    <3> QED
      BY <3>1, <3>2, Numbers DEF WindowStart
  <2>2. Current * Period <= clock
    BY Numbers
  <2> QED
    BY <2>1, <2>2, Numbers DEF Window
<1>3. \A c \in Window : c <= Current
  <2> SUFFICES ASSUME NEW c \in Window PROVE c <= Current
    OBVIOUS
  <2>1. c \in Nat /\ c * Period <= clock
    BY SlotsOf DEF Window, Candle
  <2>0. Current \in Nat /\ Period \in Nat
    BY Numbers
  <2>2. (Current + 1) * Period = Current * Period + Period /\ c * Period \in Nat
    BY <2>0, <2>1
  <2>3. c * Period <= (Current + 1) * Period
    BY <2>1, <2>2, Numbers
  <2>4. c <= Current + 1
    BY <2>1, <2>3, Numbers, Scaled
  <2>5. c # Current + 1
    BY <2>1, <2>2, Numbers
  <2> QED
    BY <2>1, <2>4, <2>5, Numbers
<1>4. Current \in have /\ have \in SUBSET Candle /\ \A c \in have : c <= Current
  BY <1>1, <1>2, <1>3 DEF Window
<1>5. have # {} /\ Latest(have) = Current
  <2> HIDE DEF have
  <2>1. have # {} /\ have \in SUBSET Candle
    BY <1>4
  <2>2. Latest(have) \in have /\ \A c \in have : c <= Latest(have)
    BY <2>1, LatestIs
  <2>3. Current <= Latest(have) /\ Latest(have) <= Current /\ Latest(have) \in Candle
    BY <1>4, <2>2
  <2>4. Latest(have) \in Nat
    BY <2>3, SlotsOf DEF Candle
  <2>5. Current \in Nat
    BY Numbers
  <2> QED
    BY <2>1, <2>3, <2>4, <2>5
<1>6. decided' = [decided EXCEPT ![p] =
                     [candle |-> Latest(have), times |-> Count(p, Latest(have)),
                      gaps |-> Cardinality(Missing(rows, s)), clean |-> {} = {}]]
  BY <1>5 DEF Work
<1> HIDE DEF have, rows
<1> QED
  BY <1>5, <1>6 DEF TypeOK

\* A tick concerns its own pair.
LEMMA TickDisturbs ==
  ASSUME TypeOK, NEW q \in Pairs, Work(q, {}, TRUE), Acquire(q)
  PROVE  \A p \in Pairs \ {q} : decided'[p] = decided[p] /\ lock'[p] = lock[p]
<1>1. lock' = lock \/ lock' = [lock EXCEPT ![q] = [key |-> Key, until |-> clock + TTL]]
  BY DEF Acquire
<1>2. \E new : decided' = decided \/ decided' = [decided EXCEPT ![q] = new]
  BY DEF Work
<1> QED
  BY <1>1, <1>2 DEF TypeOK

LEMMA OnTimeTick == ASSUME Timetable, TypeOK, Quiet, OnTime, NEW q \in Pairs, Tick(q) PROVE OnTime'
<1>1. /\ queue # <<>> /\ Head(queue).kind = "tick" /\ Head(queue).pair = q /\ queue' = Tail(queue)
      /\ UNCHANGED <<clock, listed, enabled>>
      /\ cache' = [cache EXCEPT ![SymbolOf(q)] = Loaded(SymbolOf(q), {})]
      /\ Work(q, {}, TRUE) /\ Acquire(q)
  BY DEF Tick, Work, IsNext
<1>2. Head(queue) = Ticks(q) /\ Slot \in {0, TickAt} /\ Fetch \notin Members(queue)
  BY <1>1, Popped, TasksDiffer
<1>3. Members(queue) = {Ticks(q)} \cup Members(queue') /\ HeadOnly(queue')
  BY <1>1, <1>2, Popped
<1>4. Slot' = Slot /\ Current' = Current
  BY <1>1 DEF Slot, Current
<1>5. Fetched' => Fetched
  BY <1>2, <1>4 DEF Fetched
<1>6. ASSUME NEW s \in Symbols, cache[s][Current] # "none" PROVE cache'[s][Current] # "none"
  <2>1. Loaded(s, {})[Current] # "none"
    BY <1>6, Numbers DEF Loaded, Historical, Cached, Quote
  <2> QED
    BY <1>1, <1>6, <2>1 DEF TypeOK
<1>7. \A p \in Pairs \ {q} : decided'[p] = decided[p] /\ lock'[p] = lock[p]
  BY <1>1, TickDisturbs
<1>8. Slot = TickAt => decided'[q].candle = Current
  <2> SUFFICES ASSUME Slot = TickAt PROVE decided'[q].candle = Current
    OBVIOUS
  <2>1. Fetched
    BY Numbers DEF Fetched, Timetable
  <2> QED
    BY <1>1, <2>1, PairParts, DecidesOnCurrent DEF OnTime
<1>9. /\ lock'[q].until <= clock + TTL
      /\ lock'[q].until > Current * Period + TTL => decided'[q].candle = Current
  <2>1. lock'[q].until <= clock + TTL
    <3>1. lock' = lock \/ lock' = [lock EXCEPT ![q] = [key |-> Key, until |-> clock + TTL]]
      BY <1>1 DEF Acquire
    <3>2. clock + TTL <= clock + TTL
      BY Numbers
    <3>3. CASE lock' = lock
      BY <3>3 DEF OnTime
    <3>4. CASE lock' = [lock EXCEPT ![q] = [key |-> Key, until |-> clock + TTL]]
      BY <3>2, <3>4 DEF TypeOK
    <3> QED
      BY <3>1, <3>3, <3>4
  <2>2. CASE Slot = 0
    <3>1. clock = Current * Period
      BY <2>2, Numbers
    <3>2. lock'[q].until <= Current * Period + TTL
      BY <2>1, <3>1
    <3>3. lock'[q].until \in Nat
      BY <1>1, AcquireType
    <3> QED
      BY <2>1, <3>2, <3>3, Numbers
  <2>3. CASE Slot = TickAt
    BY <2>1, <2>3, <1>8
  <2> QED
    BY <1>2, <2>2, <2>3
<1>10. ~(Slot > TickAt)
  BY <1>2, Numbers
<1>11. \A p \in Pairs : Ticks(p) \in Members(queue) => p = q \/ Ticks(p) \in Members(queue')
  BY <1>3, TasksDiffer
<1>12. Dispatcher \in Members(queue) => Dispatcher \in Members(queue')
  BY <1>3, TasksDiffer
<1>13. \A t \in Members(queue') : IF t = Fetch THEN Slot = FetchAt ELSE Slot \in {0, TickAt}
  BY <1>3 DEF OnTime
<1>14. Slot = TickAt => \A p \in Pairs : \/ decided'[p].candle = Current
                                         \/ Dispatcher \in Members(queue') \/ Ticks(p) \in Members(queue')
  BY <1>7, <1>8, <1>11, <1>12 DEF OnTime
<1>15. \A p \in Pairs : /\ lock'[p].until <= clock + TTL
                        /\ lock'[p].until > Current * Period + TTL => decided'[p].candle = Current
  BY <1>7, <1>9 DEF OnTime
<1> QED
  BY <1>1, <1>3, <1>4, <1>5, <1>6, <1>10, <1>13, <1>14, <1>15 DEF OnTime

LEMMA OnTimeStep == ASSUME Timetable, AllTraded, TypeOK, Quiet, OnTime, [Next]_vars PROVE OnTime'
<1>1. \A kind : ~Fault(kind)
  BY DEF Fault, Quiet
<1>2. CASE Reconnect
  BY <1>2 DEF Reconnect, OnTime, Slot, Current, Fetched
<1>3. CASE Disconnect \/ StreamRestart \/ PullHistory \/ Recycle
  BY <1>1, <1>3 DEF Disconnect, StreamRestart, PullHistory, Recycle
<1>4. CASE \E p \in Pairs : TickLoadFails(p) \/ TickPersistFails(p) \/ TickUnlocked(p) \/ TickCrash(p) \/ Configure(p)
  BY <1>1, <1>4 DEF TickLoadFails, TickPersistFails, TickUnlocked, TickCrash, Configure
<1>5. CASE UNCHANGED vars
  BY <1>5 DEF vars, OnTime, Slot, Current, Fetched
<1> QED
  BY <1>2, <1>3, <1>4, <1>5, OnTimeAdvance, OnTimeClose, OnTimeFetch, OnTimeFanOut, OnTimeSkip, OnTimeTick DEF Next

LEMMA QuietStays == ASSUME [Next]_vars, Quiet' PROVE Quiet
<1>1. UNCHANGED faults
  BY DEF Next, vars, Advance, Disconnect, Reconnect, StreamRestart, PullHistory, FetchCandles, FanOut,
         TickSkipped, Recycle, StreamClose, Tick, TickLoadFails, TickPersistFails, TickUnlocked, TickCrash,
         Configure, Work
<1> QED
  BY <1>1 DEF Quiet

\* Without faults no candle goes by undecided: each is in the cache before the
\* beat's dispatch, and no lock that is still held stands for an older one.
THEOREM NoneSkipped == ASSUME Timetable, AllTraded PROVE Spec => []EveryCandleDecided
<1>1. Init => (Quiet => OnTime)
  BY OnTimeInit
<1>2. TypeOK /\ (Quiet => OnTime) /\ [Next]_vars => (Quiet => OnTime)'
  BY OnTimeStep, QuietStays
<1>3. TypeOK /\ (Quiet => OnTime) => EveryCandleDecided
  BY Numbers DEF OnTime, Quiet, EveryCandleDecided
<1> QED
  BY <1>1, <1>2, <1>3, TypeInit, TypeStep, PTL DEF Spec

-----------------------------------------------------------------------------
(* Twice per candle                                                        *)

\* Nine tenths of the lookback up to k are stored.
Ready(s, k) == 10 * Cardinality(Stored(s) \cap ((k + 1 - Lookback)..k)) >= 9 * Lookback

\* After the beat's tick a pair has decided once, and its symbol's window is good
\* enough not to be loaded at the next boundary; there the older candle is the
\* newest that is stored, so that all closes of a boundary ask for one lock.
Counted ==
    /\ Lookback <= Current /\ \A s \in Symbols : listed[s] = 0
    /\ \A s \in Symbols : \A c \in Candle : c > Current => cache[s][c] = "none"
    /\ ~Fetched => \A s \in Symbols : cache[s][Current] = "none"
    /\ Slot = 0 => /\ \A s \in Symbols : cache[s][Current - 1] # "none"
                   /\ \A p \in Pairs : /\ Ready(SymbolOf(p), Current - 1)
                                       /\ decided[p].candle = Current - 1
                                       /\ \/ decided[p].times = 1
                                          \/ lock[p].key = Current - 1 /\ clock < lock[p].until
    /\ Slot < TickAt => \A p \in Pairs : decided[p].candle # Current
    /\ Slot >= TickAt => \A p \in Pairs : decided[p].candle = Current =>
           /\ decided[p].times = 1 /\ Ready(SymbolOf(p), Current)
           /\ Slot = TickAt => lock[p].key = Current /\ clock < lock[p].until
    /\ \A p \in Pairs : decided[p].times <= 2

LEMMA RangeCount ==
  ASSUME NEW S, NEW a \in Int, NEW b \in Int
  PROVE  IsFiniteSet(S \cap (a..b)) /\ Cardinality(S \cap (a..b)) \in Nat
<1>1. IsFiniteSet(a..b)
  BY FS_Interval
<1> QED
  BY <1>1, FS_Subset, FS_CardinalityType

\* At a boundary the window reaches back to the lookback's first candle.
LEMMA ReadyIsComplete ==
  ASSUME TypeOK, NEW s \in Symbols, Slot = 0, Lookback <= Current, Ready(s, Current - 1)
  PROVE  ~Incomplete(s)
<1> DEFINE near == Stored(s) \cap ((Current - 1 + 1 - Lookback)..(Current - 1))
           have == Stored(s) \cap Window
<1>1. near \in SUBSET have
  <2> SUFFICES ASSUME NEW c \in near PROVE c \in have
    OBVIOUS
  <2>1. c \in Candle /\ c \in Stored(s) /\ c >= Current - 1 + 1 - Lookback /\ c <= Current - 1
    BY DEF Stored
  <2>2. c \in Nat /\ Current \in Nat /\ Period \in Nat \ {0} /\ Lookback \in Nat
    BY <2>1, Numbers, SlotsOf DEF Candle
  <2>3. Current - Lookback <= c /\ c <= Current
    BY <2>1, <2>2
  <2>4. (Current - Lookback) * Period <= c * Period /\ c * Period <= Current * Period
    BY <2>2, <2>3, Grows
  <2>5. (Current - Lookback) * Period = Current * Period - Lookback * Period
        /\ Current * Period \in Nat /\ Lookback * Period \in Nat /\ c * Period \in Nat
    BY <2>2
  <2>6. clock = Current * Period
    BY Numbers
  <2>7. WindowStart <= c * Period /\ c * Period <= clock
    BY <2>4, <2>5, <2>6 DEF WindowStart
  <2> QED
    BY <2>1, <2>7 DEF Window
<1>2. IsFiniteSet(have) /\ Cardinality(have) \in Nat
  <2>1. IsFiniteSet(Window)
    BY WindowBound, Numbers
  <2> QED
    BY <2>1, FS_Subset, FS_CardinalityType
<1>3. Cardinality(near) <= Cardinality(have)
  BY <1>1, <1>2, FS_Subset
<1>4. Cardinality(near) \in Nat
  BY <1>1, <1>2, FS_Subset, FS_CardinalityType
<1>5. 10 * Cardinality(near) >= 9 * Lookback
  BY DEF Ready
<1> HIDE DEF near
<1>6. Cardinality(have) # 0 /\ ~(10 * Cardinality(have) < 9 * Lookback)
  <2>1. Lookback \in Nat \ {0}
    BY Numbers
  <2> HIDE DEF have
  <2> QED
    BY <1>2, <1>3, <1>4, <1>5, <2>1
<1> QED
  BY <1>6 DEF Incomplete

\* Between boundaries the window is the lookback up to the current candle.
LEMMA WindowIs ==
  ASSUME TypeOK, Slot > 0, Lookback <= Current
  PROVE  Window = (Current + 1 - Lookback)..Current /\ \A c \in Window : c * Period # clock
<1>0. /\ clock \in Nat /\ Current \in Nat /\ Period \in Nat \ {0} /\ Lookback \in Nat \ {0} /\ clock = Current * Period + Slot
      /\ Slot \in 0..(Period - 1) /\ Current * Period \in Nat /\ Lookback * Period \in Nat /\ Current \in Candle
  BY Numbers
<1>1. Lookback * Period <= Current * Period
  BY <1>0, Grows
<1>2. WindowStart = clock - Lookback * Period
  BY <1>0, <1>1 DEF WindowStart
<1>3. \A c \in Nat : c * Period \in Nat
  BY <1>0
<1>4. ASSUME NEW c \in Window PROVE c \in (Current + 1 - Lookback)..Current /\ c * Period # clock
  <2>1. c \in Nat /\ c * Period <= clock /\ clock - Lookback * Period <= c * Period
    BY <1>2, SlotsOf DEF Window, Candle
  <2>2. (Current + 1) * Period = Current * Period + Period
        /\ (Current - Lookback) * Period = Current * Period - Lookback * Period
    BY <1>0
  <2>3. c * Period <= (Current + 1) * Period /\ (Current - Lookback) * Period <= c * Period
    BY <1>0, <1>3, <2>1, <2>2
  <2>4. c <= Current + 1 /\ Current - Lookback <= c
    BY <1>0, <2>1, <2>3, Scaled
  <2>5. c # Current + 1 /\ c # Current - Lookback
    BY <1>0, <1>3, <2>1, <2>2
  <2>6. c <= Current /\ Current + 1 - Lookback <= c
    BY <1>0, <2>1, <2>4, <2>5
  <2>7. c * Period <= Current * Period
    BY <1>0, <2>1, <2>6, Grows
  <2> QED
    BY <1>0, <1>3, <2>1, <2>6, <2>7
<1>5. ASSUME NEW c \in (Current + 1 - Lookback)..Current PROVE c \in Window
  <2>1. c \in Nat /\ c \in Candle /\ Current + 1 - Lookback <= c /\ c <= Current
    BY <1>0, SlotsOf DEF Candle
  <2>2. (Current + 1 - Lookback) * Period <= c * Period /\ c * Period <= Current * Period
    <3>1. Current + 1 - Lookback \in Int
      BY <1>0
    <3> QED
      BY <1>0, <2>1, <3>1, Grows
  <2>3. (Current + 1 - Lookback) * Period = Current * Period + Period - Lookback * Period
    BY <1>0
  <2>4. WindowStart <= c * Period /\ c * Period <= clock
    BY <1>0, <1>2, <1>3, <2>1, <2>2, <2>3
  <2> QED
    BY <2>1, <2>4 DEF Window
<1> QED
  BY <1>4, <1>5

\* A tick between boundaries leaves its symbol with enough.
LEMMA LoadedIsReady ==
  ASSUME TypeOK, NEW s \in Symbols, listed[s] = 0, Slot > 0, Lookback <= Current,
         UNCHANGED clock, cache' = [cache EXCEPT ![s] = Loaded(s, {})]
  PROVE  Ready(s, Current)'
<1> DEFINE near == (Current + 1 - Lookback)..Current
           rows == Loaded(s, {})
<1>0. /\ Current \in Nat /\ Lookback \in Nat \ {0} /\ Current \in Candle /\ IsFiniteSet(near) /\ Cardinality(near) = Lookback
  <2>1. Current \in Nat /\ Lookback \in Nat \ {0} /\ Current \in Candle
    BY Numbers
  <2>2. Current + 1 - Lookback \in Int /\ Current \in Int /\ ~(Current + 1 - Lookback > Current)
    BY <2>1
  <2>3. IsFiniteSet(near) /\ Cardinality(near) = Current - (Current + 1 - Lookback) + 1
    BY <2>2, FS_Interval
  <2> QED
    BY <2>1, <2>3
<1>1. Window = near /\ \A c \in Window : c * Period # clock
  BY WindowIs
<1>2. cache'[s] = rows
  BY DEF TypeOK
<1>3. Stored(s)' = {c \in Candle : rows[c] # "none"}
  BY <1>2 DEF Stored
<1>6. 10 * Cardinality(Stored(s)' \cap near) >= 9 * Lookback => Ready(s, Current)'
  <2>1. Current' = Current
    BY DEF Current
  <2> QED
    BY <2>1 DEF Ready
<1> HIDE DEF near
<1>4. CASE Incomplete(s)
  <2>1. rows = Historical(s, {})
    BY <1>4 DEF Loaded
  <2>2. \A c \in Window : rows[c] # "none"
    <3>1. InReach(s)
      BY CandleAssumption DEF InReach
    <3>2. \A c \in Window : listed[s] <= c
      BY SlotsOf DEF Window, Candle
    <3> QED
      BY <1>1, <2>1, <3>1, <3>2, LoadIsFull
  <2>3. Window \in SUBSET Candle
    BY DEF Window
  <2>4. Stored(s)' \cap near = near
    BY <1>1, <1>3, <2>2, <2>3
  <2>5. 10 * Cardinality(Stored(s)' \cap near) >= 9 * Lookback
    BY <1>0, <2>4
  <2> QED
    BY <2>5, <1>6
<1>5. CASE ~Incomplete(s)
  <2>1. rows = cache[s]
    BY <1>5 DEF Loaded
  <2>2. Stored(s)' = Stored(s)
    BY <1>2, <2>1 DEF Stored
  <2>3. Cardinality(Stored(s) \cap near) \in Nat
    BY <1>0, FS_Subset, FS_CardinalityType
  <2>4. 10 * Cardinality(Stored(s) \cap near) >= 9 * Lookback
    <3>1. ~(10 * Cardinality(Stored(s) \cap near) < 9 * Lookback)
      BY <1>1, <1>5 DEF Incomplete
    <3> QED
      BY <1>0, <2>3, <3>1
  <2> QED
    BY <2>2, <2>4, <1>6
<1> QED
  BY <1>4, <1>5

LEMMA ReadyGrows ==
  ASSUME NEW s, NEW k \in Int, Lookback \in Nat, Ready(s, k), Stored(s) \subseteq Stored(s)'
  PROVE  Ready(s, k)'
<1> DEFINE near == Stored(s) \cap ((k + 1 - Lookback)..k)
           later == Stored(s)' \cap ((k + 1 - Lookback)..k)
<1>0. k + 1 - Lookback \in Int
  OBVIOUS
<1>1. near \in SUBSET later
  OBVIOUS
<1>2. IsFiniteSet(later) /\ Cardinality(later) \in Nat
  BY <1>0, RangeCount
<1>3. Cardinality(near) <= Cardinality(later)
  BY <1>1, <1>2, FS_Subset
<1>4. Cardinality(near) \in Nat
  BY <1>0, RangeCount
<1>5. 10 * Cardinality(near) >= 9 * Lookback
  BY DEF Ready
<1>6. 10 * Cardinality(later) >= 9 * Lookback
  <2> HIDE DEF near, later
  <2> QED
    BY <1>2, <1>3, <1>4, <1>5
<1> QED
  BY <1>6 DEF Ready

LEMMA KeyIs ==
  ASSUME TypeOK, NEW s \in Symbols, NEW k \in Candle, cache[s][k] # "none",
         \A r \in Symbols : \A c \in Candle : c > k => cache[r][c] = "none"
  PROVE  Key = k
<1> DEFINE all == UNION {Stored(r) : r \in Symbols}
<1>1. all \in SUBSET Candle /\ k \in all
  BY DEF Stored
<1>2. \A c \in all : ~(c > k)
  BY DEF Stored
<1>3. Latest(all) \in all /\ k <= Latest(all)
  BY <1>1, LatestIs
<1> HIDE DEF all
<1>4. Latest(all) \in Nat /\ k \in Nat
  <2>1. Latest(all) \in Candle
    BY <1>1, <1>3
  <2> QED
    BY <2>1, SlotsOf DEF Candle
<1>5. Latest(all) = k
  BY <1>2, <1>3, <1>4
<1>6. all # {}
  BY <1>1
<1> QED
  BY <1>5, <1>6 DEF Key, all

LEMMA CountedInit == ASSUME Timetable, Apart, AllTraded, Init, Quiet, \A s \in Symbols : listed[s] = 0 PROVE Counted
<1>1. TypeOK
  BY TypeInit
<1>2. clock = Lookback * Period + FetchAt /\ queue = <<Fetch>>
  BY DEF Init
<1>3. Current = Lookback /\ Slot = FetchAt
  <2>1. /\ Lookback * Period \in Nat /\ clock \in Nat /\ Lookback * Period <= clock
        /\ clock < Lookback * Period + Period
    BY <1>1, <1>2, Numbers
  <2>2. clock \div Period = Lookback
    BY <1>1, <2>1, Numbers, CurrentIsThe
  <2>3. Current = Lookback
    BY <2>2 DEF Current
  <2> QED
    BY <2>3, <1>1, <1>2, <2>1, Numbers DEF Slot
<1>4. \A s \in Symbols : \A c \in Candle : cache[s][c] = "none"
  BY DEF Init
<1>5. \A p \in Pairs : decided[p].candle = NoCandle /\ decided[p].times = 0
  BY DEF Init
<1>6. Current \in Candle /\ NoCandle \notin Candle
  BY <1>1, Numbers, DispatchAssumption
<1>7. Lookback <= Current /\ Slot # 0 /\ ~(Slot >= TickAt)
  BY <1>1, <1>3, Numbers DEF Timetable, Apart
<1>8. \A p \in Pairs : decided[p].candle # Current /\ decided[p].times <= 2
  BY <1>5, <1>6
<1> QED
  BY <1>4, <1>6, <1>7, <1>8 DEF Counted

LEMMA CountedAdvance == ASSUME Timetable, Apart, TypeOK, Quiet, OnTime, Counted, Advance PROVE Counted'
<1>0. queue = <<>> /\ clock' = clock + 1 /\ clock' \in Slots
      /\ UNCHANGED <<listed, cache, lock, decided>>
  BY DEF Advance, Fault, Quiet
<1>1. Members(queue) = {}
  BY <1>0 DEF Members
<1>2. /\ clock \in Nat /\ Current \in Nat /\ Slot \in 0..(Period - 1) /\ Lookback \in Nat
      /\ Period \in Nat \ {0} /\ FetchAt \in Nat /\ TickAt \in Nat /\ TTL \in Nat
      /\ FetchAt < TickAt /\ FetchAt > 0 /\ TickAt <= Period - 1
  BY Numbers DEF Timetable, Apart
<1>4. \A s : Stored(s)' = Stored(s)
  BY <1>0 DEF Stored
<1>5. \A s, k : Ready(s, k) => 10 * Cardinality(Stored(s)' \cap ((k + 1 - Lookback)..k)) >= 9 * Lookback
  BY <1>4 DEF Ready
<1>8. CASE Slot + 1 < Period /\ Current' = Current /\ Slot' = Slot + 1
  <2>1. ~Fetched' => ~Fetched
    BY <1>1, <1>2, <1>8 DEF Fetched
  <2>2. Slot' # 0
    BY <1>2, <1>8
  <2>3. Slot' < TickAt => Slot < TickAt
    BY <1>2, <1>8
  <2>4. Slot' >= TickAt => (Slot >= TickAt /\ Slot' # TickAt) \/ Slot < TickAt
    BY <1>2, <1>8
  <2>5. \A p \in Pairs : Slot' >= TickAt /\ decided[p].candle = Current =>
            decided[p].times = 1 /\ Ready(SymbolOf(p), Current)' /\ Slot' # TickAt
    BY <1>5, <1>8, <2>4 DEF Counted, Ready
  <2> QED
    BY <1>0, <1>8, <2>1, <2>2, <2>3, <2>5 DEF Counted
<1>9. CASE Slot + 1 = Period /\ Current' = Current + 1 /\ Slot' = 0
  <2>1. Slot >= TickAt /\ Fetched
    BY <1>2, <1>9 DEF Fetched
  <2>2. \A p \in Pairs : decided[p].candle = Current
    <3>1. CASE Slot = TickAt
      BY <1>1, <3>1 DEF OnTime
    <3>2. CASE Slot > TickAt
      BY <3>2 DEF OnTime
    <3> QED
      BY <1>2, <2>1, <3>1, <3>2
  <2>3. \A p \in Pairs : decided[p].times = 1 /\ Ready(SymbolOf(p), Current)
    BY <2>1, <2>2 DEF Counted
  <2>4. Current' - 1 = Current /\ Lookback <= Current' /\ Slot' < TickAt /\ Current' # Current
    BY <1>2, <1>9 DEF Counted
  <2>5. \A p \in Pairs : Ready(SymbolOf(p), Current - 1)'
    BY <1>5, <2>3, <2>4 DEF Ready
  <2>6. Current' \in Candle
    BY <1>0, CandleOf DEF Current
  <2>7. \A s \in Symbols : \A c \in Candle : c >= Current' => cache[s][c] = "none"
    <3> SUFFICES ASSUME NEW s \in Symbols, NEW c \in Candle, c >= Current' PROVE cache[s][c] = "none"
      OBVIOUS
    <3>1. c > Current
      BY <1>2, <1>9, SlotsOf DEF Candle
    <3> QED
      BY <3>1 DEF Counted
  <2> QED
    BY <1>0, <1>9, <2>1, <2>2, <2>3, <2>4, <2>5, <2>6, <2>7 DEF Counted, OnTime
<1> QED
  BY <1>0, <1>8, <1>9, SlotNext DEF TypeOK

LEMMA CountedClose == ASSUME Timetable, Apart, TypeOK, Counted, NEW s \in Symbols, StreamClose(s) PROVE Counted'
<1>1. /\ clock % Period = 0 /\ queue' = Append(queue, Dispatcher)
      /\ UNCHANGED <<clock, listed, cache, lock, decided>>
  BY DEF StreamClose
<1>2. Slot = 0 /\ FetchAt > 0 /\ FetchAt \in Nat
  BY <1>1, Numbers DEF Apart
<1>3. Slot' = Slot /\ Current' = Current
  BY <1>1 DEF Slot, Current
<1>4. ~Fetched
  BY <1>2 DEF Fetched
<1>5. \A t, k : Ready(t, k)' <=> Ready(t, k)
  BY <1>1 DEF Ready, Stored
<1> QED
  BY <1>1, <1>3, <1>4, <1>5 DEF Counted

\* Fetches take no candle of the future.
LEMMA CountedFetch == ASSUME Timetable, Apart, TypeOK, Quiet, OnTime, Counted, FetchCandles PROVE Counted'
<1>1. /\ queue # <<>> /\ Head(queue).kind = "fetch" /\ queue' = Tail(queue)
      /\ cache' = [s \in Symbols |-> Cached(s, Trailing(s))]
      /\ UNCHANGED <<clock, listed, lock, decided>>
  BY DEF FetchCandles, IsNext, Fault, Quiet
<1>2. Head(queue) = Fetch /\ Slot = FetchAt /\ Fetch \notin Members(queue')
  BY <1>1, Popped, TasksDiffer
<1>3. Slot' = Slot /\ Current' = Current
  BY <1>1 DEF Slot, Current
<1>4. Slot # 0 /\ ~(Slot >= TickAt)
  BY <1>2, Numbers DEF Timetable, Apart
<1>5. Fetched'
  BY <1>2, <1>3 DEF Fetched
<1>6. \A s \in Symbols : \A c \in Candle : c > Current => cache'[s][c] = "none"
  <2> SUFFICES ASSUME NEW s \in Symbols, NEW c \in Candle, c > Current PROVE cache'[s][c] = "none"
    OBVIOUS
  <2>1. ~(c <= Current)
    BY Numbers, SlotsOf DEF Candle
  <2>2. c \notin Trailing(s)
    BY <2>1 DEF Trailing
  <2> QED
    BY <1>1, <2>2 DEF Cached, Counted
<1> QED
  BY <1>1, <1>3, <1>4, <1>5, <1>6 DEF Counted

LEMMA CountedFanOut == ASSUME Timetable, Apart, TypeOK, Quiet, OnTime, Counted, FanOut \/ TickSkipped PROVE Counted'
<1>1. /\ queue # <<>> /\ Head(queue).kind # "fetch" /\ UNCHANGED <<clock, listed, cache, lock, decided>>
  BY DEF FanOut, TickSkipped, IsNext
<1>2. Fetch \notin Members(queue) /\ Slot \in {0, TickAt}
  BY <1>1, Popped, TasksDiffer
<1>3. Slot' = Slot /\ Current' = Current
  BY <1>1 DEF Slot, Current
<1>5. \A t, k : Ready(t, k)' <=> Ready(t, k)
  BY <1>1 DEF Ready, Stored
<1>6. ~Fetched' => ~Fetched
  <2>0. FetchAt \in Nat /\ TickAt \in Nat /\ FetchAt > 0 /\ TickAt > FetchAt
    BY Numbers DEF Apart, Timetable
  <2>1. CASE Slot = 0
    <3>1. ~(Slot > FetchAt) /\ Slot # FetchAt
      BY <2>0, <2>1
    <3> QED
      BY <3>1 DEF Fetched
  <2>2. CASE Slot = TickAt
    <3>1. Slot > FetchAt
      BY <2>0, <2>2
    <3> QED
      BY <1>3, <3>1 DEF Fetched
  <2> QED
    BY <1>2, <2>1, <2>2
<1> QED
  BY <1>1, <1>3, <1>5, <1>6 DEF Counted

\* A tick decides on the newest candle of its window, and counts it.
LEMMA DecidesOnNewest ==
  ASSUME TypeOK, NEW p \in Pairs, Work(p, {}, TRUE), NEW k \in Window, Loaded(SymbolOf(p), {})[k] # "none",
         \A c \in Window : c > k => Loaded(SymbolOf(p), {})[c] = "none"
  PROVE  decided'[p].candle = k /\ decided'[p].times = Count(p, k)
<1> DEFINE s == SymbolOf(p)
           rows == Loaded(s, {})
           have == {c \in Window : rows[c] # "none"}
<1>1. k \in have /\ have \in SUBSET Candle /\ \A c \in have : ~(c > k)
  BY DEF Window
<1>2. have # {} /\ Latest(have) = k
  <2> HIDE DEF have
  <2>1. have # {} /\ have \in SUBSET Candle
    BY <1>1
  <2>2. Latest(have) \in have /\ k <= Latest(have) /\ ~(Latest(have) > k)
    BY <1>1, <2>1, LatestIs
  <2>3. Latest(have) \in Candle /\ k \in Candle
    BY <1>1, <2>2
  <2>4. Latest(have) \in Nat /\ k \in Nat
    BY <2>3, SlotsOf DEF Candle
  <2> QED
    BY <2>1, <2>2, <2>4
<1>3. decided' = [decided EXCEPT ![p] =
                     [candle |-> Latest(have), times |-> Count(p, Latest(have)),
                      gaps |-> Cardinality(Missing(rows, s)), clean |-> {} = {}]]
  BY <1>2 DEF Work
<1> HIDE DEF have, rows
<1> QED
  BY <1>2, <1>3 DEF TypeOK

\* The lock of a boundary's tick: the older candle is the newest that is stored.
LEMMA CountedTickEarly ==
  ASSUME Timetable, Apart, TypeOK, Quiet, OnTime, Counted, NEW q \in Pairs, Tick(q), Slot = 0
  PROVE  Counted'
<1> DEFINE s == SymbolOf(q)
           k == Current - 1
<1>1. /\ queue # <<>> /\ UNCHANGED <<clock, listed>>
      /\ cache' = [cache EXCEPT ![s] = Loaded(s, {})]
      /\ Work(q, {}, TRUE) /\ Acquire(q)
  BY DEF Tick, Work, IsNext
<1>2. /\ Current \in Nat /\ Lookback \in Nat \ {0} /\ Period \in Nat \ {0} /\ Lookback <= Current
      /\ FetchAt \in Nat /\ TickAt \in Nat /\ FetchAt > 0 /\ FetchAt < TickAt /\ TTL \in Nat \ {0}
      /\ clock \in Nat /\ clock = Current * Period /\ Current \in Candle
  <2>1. clock = Current * Period + 0 /\ Current * Period \in Nat
    BY Numbers
  <2>2. clock = Current * Period
    BY <2>1
  <2>3. TTL \in Nat /\ TTL > 0
    BY Numbers DEF Apart
  <2> QED
    BY <2>2, <2>3, Numbers DEF Counted, Timetable, Apart
<1>3. s \in Symbols /\ k \in Candle
  BY <1>2, PairParts, SlotsOf DEF Candle
<1>4. Slot' = Slot /\ Current' = Current
  BY <1>1 DEF Slot, Current
<1>5. ~Fetched /\ ~Fetched'
  <2>1. ~(Slot > FetchAt) /\ Slot # FetchAt
    BY <1>2
  <2> QED
    BY <1>4, <2>1 DEF Fetched
<1>6. Loaded(s, {}) = cache[s]
  <2>1. Ready(s, Current - 1)
    BY DEF Counted
  <2>2. ~Incomplete(s)
    BY <1>2, <1>3, <2>1, ReadyIsComplete
  <2> QED
    BY <2>2 DEF Loaded
<1>7. cache' = cache
  BY <1>1, <1>3, <1>6 DEF TypeOK
<1>8. \A r \in Symbols : \A c \in Candle : c > k => cache[r][c] = "none"
  <2> SUFFICES ASSUME NEW r \in Symbols, NEW c \in Candle, c > k PROVE cache[r][c] = "none"
    OBVIOUS
  <2>1. c = Current \/ c > Current
    BY <1>2, SlotsOf DEF Candle
  <2> QED
    BY <1>5, <2>1 DEF Counted
<1>9. cache[s][k] # "none"
  BY <1>3 DEF Counted
<1>10. Key = k
  BY <1>3, <1>8, <1>9, KeyIs
<1>11. k \in Window
  <2>1. k * Period = Current * Period - Period
    BY <1>2
  <2>2. 1 * Period <= Lookback * Period /\ Lookback * Period \in Nat
    BY <1>2, Grows
  <2>3. k * Period <= clock /\ WindowStart <= k * Period
    <3>1. 1 * Period = Period /\ 1 * Period <= clock
      <4>1. 1 * Period <= Current * Period
        BY <1>2, Grows
      <4> QED
        BY <1>2, <4>1
    <3> QED
      BY <1>2, <2>1, <2>2, <3>1 DEF WindowStart
  <2> QED
    BY <1>3, <2>3 DEF Window
<1>12. decided'[q].candle = k /\ decided'[q].times = Count(q, k)
  <2>1. \A c \in Window : c > k => Loaded(s, {})[c] = "none"
    BY <1>3, <1>6, <1>8 DEF Window
  <2> HIDE DEF k
  <2> QED
    BY <1>1, <1>6, <1>9, <1>11, <2>1, DecidesOnNewest
<1>13. Key # NoCandle
  BY <1>3, <1>10, DispatchAssumption
<1>14. decided[q].candle = k /\ decided[q].times = 1
  <2>1. ~(lock[q].key = k /\ clock < lock[q].until)
    BY <1>1, <1>10, <1>13 DEF Acquire, Held
  <2> QED
    BY <2>1 DEF Counted
<1>15. decided'[q].times = 2
  BY <1>12, <1>14 DEF Count
<1>16. lock'[q].key = k /\ clock < lock'[q].until
  <2>1. lock' = [lock EXCEPT ![q] = [key |-> k, until |-> clock + TTL]]
    BY <1>1, <1>10, <1>13 DEF Acquire
  <2>2. lock'[q] = [key |-> k, until |-> clock + TTL]
    BY <2>1 DEF TypeOK
  <2> QED
    BY <1>2, <2>2
<1>17. \A p \in Pairs \ {q} : decided'[p] = decided[p] /\ lock'[p] = lock[p]
  BY <1>1, TickDisturbs
<1>18. \A t, c : Ready(t, c)' <=> Ready(t, c)
  BY <1>7 DEF Ready, Stored
<1>19. \A p \in Pairs : /\ decided'[p].candle = k /\ decided'[p].times <= 2
                        /\ decided'[p].times = 1 \/ (lock'[p].key = k /\ clock < lock'[p].until)
  <2> SUFFICES ASSUME NEW p \in Pairs
               PROVE  /\ decided'[p].candle = k /\ decided'[p].times <= 2
                      /\ decided'[p].times = 1 \/ (lock'[p].key = k /\ clock < lock'[p].until)
    OBVIOUS
  <2>1. CASE p = q
    BY <1>12, <1>15, <1>16, <2>1
  <2>2. CASE p # q
    BY <1>17, <2>2 DEF Counted
  <2> QED
    BY <2>1, <2>2
<1>20. k # Current /\ ~(Slot >= TickAt)
  BY <1>2
<1>21. \A p \in Pairs : decided'[p].candle # Current
  BY <1>19, <1>20
<1> QED
  BY <1>1, <1>4, <1>5, <1>7, <1>18, <1>19, <1>20, <1>21 DEF Counted

\* The beat's tick is the first on the current candle.
LEMMA CountedTickLate ==
  ASSUME Timetable, Apart, TypeOK, Quiet, OnTime, Counted, NEW q \in Pairs, Tick(q), Slot = TickAt
  PROVE  Counted'
<1> DEFINE s == SymbolOf(q)
<1>1. /\ queue # <<>> /\ UNCHANGED <<clock, listed>>
      /\ cache' = [cache EXCEPT ![s] = Loaded(s, {})]
      /\ Work(q, {}, TRUE) /\ Acquire(q)
  BY DEF Tick, Work, IsNext
<1>2. /\ Current \in Nat /\ Lookback <= Current /\ Lookback \in Nat \ {0} /\ Current \in Candle
      /\ FetchAt \in Nat /\ TickAt \in Nat /\ FetchAt > 0 /\ FetchAt < TickAt /\ TTL \in Nat \ {0}
      /\ clock \in Nat /\ Slot > 0 /\ Slot # 0 /\ ~(Slot < TickAt)
  <2>1. TTL \in Nat /\ TTL > 0 /\ FetchAt \in Nat /\ TickAt \in Nat /\ FetchAt > 0 /\ FetchAt < TickAt
    BY Numbers DEF Apart, Timetable
  <2> QED
    BY <2>1, Numbers DEF Counted
<1>3. s \in Symbols /\ listed[s] = 0
  BY PairParts DEF Counted
<1>4. Slot' = Slot /\ Current' = Current
  BY <1>1 DEF Slot, Current
<1>5. Fetched /\ Fetched'
  BY <1>2, <1>4 DEF Fetched
<1>6. cache[s][Current] # "none"
  BY <1>3, <1>5 DEF OnTime
<1>7. \A r \in Symbols : \A c \in Candle : c > Current => cache[r][c] = "none"
  BY DEF Counted
<1>8. Key = Current
  BY <1>2, <1>3, <1>6, <1>7, KeyIs
<1>9. decided[q].candle # Current
  <2>1. Key # NoCandle
    BY <1>2, <1>8, DispatchAssumption
  <2>2. ~(lock[q].key = Current /\ clock < lock[q].until)
    BY <1>1, <1>8, <2>1 DEF Acquire, Held
  <2>3. Slot >= TickAt
    BY <1>2
  <2> QED
    BY <2>2, <2>3 DEF Counted
<1>10. \A c \in Candle : Loaded(s, {})[c] # "none" => cache[s][c] # "none" \/ c <= Current
  <2> SUFFICES ASSUME NEW c \in Candle, Loaded(s, {})[c] # "none", cache[s][c] = "none" PROVE c <= Current
    OBVIOUS
  <2>1. c \in Chunks(s, WindowStart, {})
    BY DEF Loaded, Historical, Cached
  <2>2. WindowStart \in 0..LastFrom
    <3>1. InReach(s)
      BY <1>3, CandleAssumption DEF InReach
    <3> QED
      BY <1>3, <3>1, WindowReached
  <2> QED
    BY <1>3, <2>1, <2>2, ChunksPast DEF TypeOK
<1>11. \A c \in Candle : c > Current => Loaded(s, {})[c] = "none"
  <2> SUFFICES ASSUME NEW c \in Candle, c > Current PROVE Loaded(s, {})[c] = "none"
    OBVIOUS
  <2>1. ~(c <= Current)
    BY <1>2, SlotsOf DEF Candle
  <2> QED
    BY <1>3, <1>7, <1>10, <2>1
<1>12. \A c \in Candle : cache[s][c] # "none" => Loaded(s, {})[c] # "none"
  BY DEF Loaded, Historical, Cached, Quote
<1>13. decided'[q].candle = Current /\ decided'[q].times = Count(q, Current)
  <2>1. Current \in Window
    <3>1. Window = (Current + 1 - Lookback)..Current
      BY <1>2, WindowIs
    <3> QED
      BY <1>2, <3>1
  <2>2. \A c \in Window : c > Current => Loaded(s, {})[c] = "none"
    BY <1>11 DEF Window
  <2> QED
    BY <1>1, <1>2, <1>6, <1>12, <2>1, <2>2, DecidesOnNewest
<1>14. decided'[q].times = 1
  BY <1>9, <1>13 DEF Count
<1>15. lock'[q].key = Current /\ clock < lock'[q].until
  <2>1. lock' = [lock EXCEPT ![q] = [key |-> Current, until |-> clock + TTL]]
    BY <1>1, <1>2, <1>8, DispatchAssumption DEF Acquire
  <2>2. lock'[q] = [key |-> Current, until |-> clock + TTL]
    BY <2>1 DEF TypeOK
  <2> QED
    BY <1>2, <2>2
<1>16. \A p \in Pairs \ {q} : decided'[p] = decided[p] /\ lock'[p] = lock[p]
  BY <1>1, TickDisturbs
<1>17. \A r \in Symbols : Stored(r) \subseteq Stored(r)'
  BY <1>1, <1>12 DEF Stored, TypeOK
<1>18. \A p \in Pairs : decided'[p].candle = Current =>
           /\ decided'[p].times = 1 /\ Ready(SymbolOf(p), Current)'
           /\ lock'[p].key = Current /\ clock < lock'[p].until
  <2> SUFFICES ASSUME NEW p \in Pairs, decided'[p].candle = Current
               PROVE  /\ decided'[p].times = 1 /\ Ready(SymbolOf(p), Current)'
                      /\ lock'[p].key = Current /\ clock < lock'[p].until
    OBVIOUS
  <2>1. CASE p = q
    <3>1. Ready(s, Current)'
      BY <1>1, <1>2, <1>3, LoadedIsReady
    <3> QED
      BY <1>14, <1>15, <2>1, <3>1
  <2>2. CASE p # q
    <3>1. decided[p].candle = Current /\ lock'[p] = lock[p] /\ decided'[p] = decided[p]
      BY <1>16, <2>2
    <3>2. Slot >= TickAt
      BY <1>2
    <3>3. decided[p].times = 1 /\ Ready(SymbolOf(p), Current) /\ lock[p].key = Current /\ clock < lock[p].until
      BY <3>1, <3>2 DEF Counted
    <3>4. Ready(SymbolOf(p), Current)'
      <4>1. SymbolOf(p) \in Symbols /\ Stored(SymbolOf(p)) \subseteq Stored(SymbolOf(p))'
        BY <1>17, PairParts
      <4> DEFINE k == Current
      <4>2. k \in Int /\ k' = k /\ Ready(SymbolOf(p), k)
        BY <1>2, <1>4, <3>3
      <4> HIDE DEF k
      <4>3. 10 * Cardinality(Stored(SymbolOf(p))' \cap ((k + 1 - Lookback)..k)) >= 9 * Lookback
        BY <1>2, <4>1, <4>2, ReadyGrows DEF Ready
      <4> QED
        BY <1>4, <4>2, <4>3 DEF Ready, k
    <3> QED
      BY <3>1, <3>3, <3>4
  <2> QED
    BY <2>1, <2>2
<1>19. \A p \in Pairs : decided'[p].times <= 2
  BY <1>14, <1>16 DEF Counted
<1>20. \A r \in Symbols : \A c \in Candle : c > Current => cache'[r][c] = "none"
  BY <1>1, <1>3, <1>7, <1>11 DEF TypeOK
<1> QED
  BY <1>1, <1>2, <1>4, <1>5, <1>18, <1>19, <1>20 DEF Counted

LEMMA CountedTick == ASSUME Timetable, Apart, TypeOK, Quiet, OnTime, Counted, NEW q \in Pairs, Tick(q) PROVE Counted'
<1>1. queue # <<>> /\ Head(queue).kind # "fetch"
  BY DEF Tick, Work, IsNext
<1>2. Slot = 0 \/ Slot = TickAt
  BY <1>1, Popped, TasksDiffer
<1> QED
  BY <1>2, CountedTickEarly, CountedTickLate

LEMMA CountedStep == ASSUME Timetable, Apart, TypeOK, Quiet, OnTime, Counted, [Next]_vars PROVE Counted'
<1>1. \A kind : ~Fault(kind)
  BY DEF Fault, Quiet
<1>2. CASE UNCHANGED vars \/ Reconnect
  <2>1. UNCHANGED <<clock, listed, cache, queue, lock, decided>>
    BY <1>2 DEF vars, Reconnect
  <2>2. Slot' = Slot /\ Current' = Current /\ (Fetched' <=> Fetched)
    BY <2>1 DEF Slot, Current, Fetched
  <2>3. \A t, k : Ready(t, k)' <=> Ready(t, k)
    BY <2>1 DEF Ready, Stored
  <2> QED
    BY <2>1, <2>2, <2>3 DEF Counted
<1>3. CASE Disconnect \/ StreamRestart \/ PullHistory \/ Recycle
  BY <1>1, <1>3 DEF Disconnect, StreamRestart, PullHistory, Recycle
<1>4. CASE \E p \in Pairs : TickLoadFails(p) \/ TickPersistFails(p) \/ TickUnlocked(p) \/ TickCrash(p) \/ Configure(p)
  BY <1>1, <1>4 DEF TickLoadFails, TickPersistFails, TickUnlocked, TickCrash, Configure
<1> QED
  BY <1>2, <1>3, <1>4, CountedAdvance, CountedClose, CountedFetch, CountedFanOut, CountedTick DEF Next

LEMMA ListedStays == ASSUME [Next]_vars PROVE UNCHANGED listed
BY DEF Next, vars, Advance, Disconnect, Reconnect, StreamRestart, PullHistory, FetchCandles, FanOut,
       TickSkipped, Recycle, StreamClose, Tick, TickLoadFails, TickPersistFails, TickUnlocked, TickCrash,
       Configure, Work

ListedBefore == \A s \in Symbols : listed[s] = 0

\* Without faults a pair decides once on the current candle, at the beat's tick, and
\* once more at the boundary that closes it, however many closes are announced
\* there: the second tick of a boundary finds the lock of the first, since none of
\* them stores the new candle; and at the beat's tick a boundary's lock stands for
\* the older candle.
THEOREM FirstCallerDecides == ASSUME Timetable, Apart, AllTraded PROVE Spec => []FirstCallerWins
<1> DEFINE Inv == Quiet /\ ListedBefore => OnTime /\ Counted
<1>1. Init => Inv
  BY OnTimeInit, CountedInit DEF ListedBefore
<1>2. TypeOK /\ Inv /\ [Next]_vars => Inv'
  <2> SUFFICES ASSUME TypeOK, Inv, [Next]_vars, Quiet', ListedBefore' PROVE OnTime' /\ Counted'
    OBVIOUS
  <2>1. Quiet /\ ListedBefore
    BY QuietStays, ListedStays DEF ListedBefore
  <2> QED
    BY <2>1, OnTimeStep, CountedStep
<1>3. TypeOK /\ Inv => FirstCallerWins
  <2> SUFFICES ASSUME TypeOK, Counted, NEW p \in Pairs
               PROVE  decided[p].times <= IF decided[p].candle = Current THEN 1 ELSE 2
    BY DEF FirstCallerWins, Quiet, ListedBefore
  <2>1. Slot \in Nat /\ TickAt \in Nat
    BY SlotIs, DispatchAssumption DEF TypeOK
  <2>2. decided[p].times <= 2 /\ (decided[p].candle = Current => decided[p].times = 1)
    BY <2>1 DEF Counted
  <2> QED
    BY <2>2
<1> QED
  BY <1>1, <1>2, <1>3, TypeInit, TypeStep, PTL DEF Spec

-----------------------------------------------------------------------------
(* The limit on positions                                                  *)

Undisturbed == faults \cap {"crash", "config"} = {}

OpenPairs == {p \in Pairs : mem[p] = "open"}

\* A pair with a position row has components, nobody is evicted, and the open
\* ones are what the limit counts.
Limited ==
    /\ mem \in [Pairs -> {"none", "flat", "open"}] /\ book \subseteq Pairs
    /\ Undisturbed => /\ enabled = Pairs
                      /\ \A p \in Pairs : mem[p] = "none" => p \notin book
                      /\ Cardinality(OpenPairs) <= MaxPositions

-----------------------------------------------------------------------------

LEMMA PairsFinite == IsFiniteSet(Pairs)
  BY PairAssumption, FS_Product DEF Pairs

LEMMA OpenFinite == IsFiniteSet(OpenPairs) /\ Cardinality(OpenPairs) \in Nat
<1>1. OpenPairs \subseteq Pairs
  BY DEF OpenPairs
<1> QED
  BY <1>1, PairsFinite, FS_Subset, FS_CardinalityType

LEMMA ComponentIs ==
  ASSUME Limited, NEW p \in Pairs
  PROVE  /\ Component(p) \in {"flat", "open"}
         /\ Undisturbed => (Component(p) = "open" <=> mem[p] = "open")
  BY DEF Component, Limited

LEMMA LimitInit == Init => Limited
<1> SUFFICES ASSUME Init PROVE Limited
  OBVIOUS
<1>1. mem \in [Pairs -> {"none", "flat", "open"}] /\ book = {} /\ enabled = Pairs
  BY DEF Init
<1>2. OpenPairs = {}
  BY DEF Init, OpenPairs
<1>3. Cardinality(OpenPairs) = 0
  BY <1>2, FS_EmptySet
<1> QED
  BY <1>1, <1>3, DispatchAssumption DEF Limited

\* One pair's entry is counted before it is made.
LEMMA EntryCounted ==
  ASSUME Limited, Undisturbed, NEW p \in Pairs, NEW now \in Outcomes(p),
         mem' = [mem EXCEPT ![p] = now]
  PROVE  Cardinality(OpenPairs') <= MaxPositions
<1> DEFINE others == {q \in Pairs \ {p} : mem[q] = "open"}
<1>0. /\ mem \in [Pairs -> {"none", "flat", "open"}] /\ Cardinality(OpenPairs) <= MaxPositions
      /\ MaxPositions \in Nat
  BY DispatchAssumption DEF Limited
<1>1. others \subseteq OpenPairs /\ IsFiniteSet(others) /\ Cardinality(others) \in Nat
      /\ Cardinality(others) <= Cardinality(OpenPairs)
  <2>1. others \subseteq OpenPairs
    BY DEF OpenPairs
  <2> QED
    BY <2>1, OpenFinite, FS_Subset, FS_CardinalityType
<1>2. CASE now = "open" /\ mem[p] = "open"
  <2>1. OpenPairs' = OpenPairs
    BY <1>0, <1>2 DEF OpenPairs
  <2> QED
    BY <1>0, <2>1
<1>3. CASE now = "open" /\ mem[p] # "open"
  <2>1. Component(p) # "open" /\ OpenPositions(p) < MaxPositions
    BY <1>3, ComponentIs DEF Outcomes
  <2>2. {q \in {p} : Component(q) = "open"} = {}
    BY <2>1
  <2>3. OpenPositions(p) = Cardinality(others)
    BY <2>2 DEF OpenPositions
  <2>4. OpenPairs' = others \cup {p} /\ p \notin others
    BY <1>0, <1>3 DEF OpenPairs
  <2>5. Cardinality(OpenPairs') = Cardinality(others) + 1
    BY <1>1, <2>4, FS_AddElement
  <2> QED
    BY <1>0, <1>1, <2>1, <2>3, <2>5
<1>4. CASE now # "open"
  <2>1. OpenPairs' = others
    BY <1>0, <1>4 DEF OpenPairs
  <2> QED
    BY <1>0, <1>1, <2>1, OpenFinite
<1> QED
  BY <1>2, <1>3, <1>4

LEMMA WorkLimited ==
  ASSUME Limited, NEW p \in Pairs, NEW failing, NEW persists, Work(p, failing, persists)
  PROVE  Limited'
<1>1. UNCHANGED <<faults, enabled>>
  BY DEF Work
<1>2. PICK now \in {"flat", "open"} :
         /\ mem' = [mem EXCEPT ![p] = now]
         /\ \/ now = Component(p) /\ UNCHANGED book
            \/ /\ now \in Outcomes(p)
               /\ book' \in {book, book \cup {p}, book \ {p}}
  <2>1. CASE mem' = [mem EXCEPT ![p] = Component(p)] /\ UNCHANGED book
    BY <2>1, ComponentIs
  <2>2. CASE \E now \in Outcomes(p) :
               /\ mem' = [mem EXCEPT ![p] = now]
               /\ book' = IF ~persists THEN book ELSE IF now = "open" THEN book \cup {p} ELSE book \ {p}
    BY <2>2 DEF Outcomes
  <2> QED
    BY <2>1, <2>2 DEF Work
<1>3. mem' \in [Pairs -> {"none", "flat", "open"}] /\ book' \subseteq Pairs
  BY <1>2 DEF Limited
<1>4. ASSUME Undisturbed
      PROVE  \A q \in Pairs : mem'[q] = "none" => q \notin book'
  BY <1>2, <1>4 DEF Limited
<1>5. ASSUME Undisturbed PROVE Cardinality(OpenPairs') <= MaxPositions
  <2>1. CASE now \in Outcomes(p)
    BY <1>2, <1>5, <2>1, EntryCounted
  <2>2. CASE now = Component(p)
    <3>1. now \in Outcomes(p)
      BY <1>2, <2>2 DEF Outcomes
    <3> QED
      BY <1>2, <1>5, <3>1, EntryCounted
  <2> QED
    BY <1>2, <2>1, <2>2
<1> QED
  BY <1>1, <1>3, <1>4, <1>5 DEF Limited, Undisturbed

LEMMA LimitNext == ASSUME Limited, [Next]_vars PROVE Limited'
<1>1. CASE UNCHANGED <<faults, mem, book, enabled>>
  BY <1>1 DEF Limited, Undisturbed, OpenPairs
<1>2. CASE FanOut
  <2>1. /\ UNCHANGED <<faults, book, enabled>>
        /\ mem' = [p \in Pairs |-> IF p \in enabled \/ Listing = <<>> THEN mem[p] ELSE "none"]
    BY <1>2 DEF FanOut
  <2>2. mem' \in [Pairs -> {"none", "flat", "open"}]
    BY <2>1 DEF Limited
  <2>3. Undisturbed => mem' = mem
    BY <2>1 DEF Limited
  <2> QED
    BY <2>1, <2>2, <2>3 DEF Limited, Undisturbed, OpenPairs
<1>3. ASSUME NEW p \in Pairs, Tick(p) \/ TickLoadFails(p) \/ TickPersistFails(p) \/ TickUnlocked(p)
      PROVE  Limited'
  BY <1>3, WorkLimited DEF Tick, TickLoadFails, TickPersistFails, TickUnlocked
<1>4. CASE Recycle \/ \E p \in Pairs : TickCrash(p)
  <2>1. ~Undisturbed /\ UNCHANGED <<faults, book>> /\ mem' = [p \in Pairs |-> "none"]
    BY <1>4 DEF Recycle, TickCrash, Fault, Undisturbed
  <2> QED
    BY <2>1 DEF Limited, Undisturbed
<1>5. ASSUME NEW p \in Pairs, Configure(p) PROVE Limited'
  <2>1. ~Undisturbed /\ UNCHANGED <<faults, mem, book>>
    BY <1>5 DEF Configure, Fault, Undisturbed
  <2> QED
    BY <2>1 DEF Limited, Undisturbed
<1>6. CASE Advance \/ Disconnect \/ Reconnect \/ StreamRestart \/ PullHistory \/ FetchCandles
           \/ TickSkipped \/ \E s \in Symbols : StreamClose(s)
  BY <1>1, <1>6 DEF Advance, Disconnect, Reconnect, StreamRestart, PullHistory, FetchCandles,
                    TickSkipped, StreamClose
<1>7. CASE UNCHANGED vars
  BY <1>1, <1>7 DEF vars
<1> QED
  BY <1>2, <1>3, <1>4, <1>5, <1>6, <1>7 DEF Next

\* max_concurrent_positions holds in a process that is neither replaced nor
\* reconfigured: components made late, failed rows, lost locks and ticks that run
\* twice included (_count_global_open_positions).
THEOREM PositionsLimited == Spec => []PositionLimit
<1>1. Limited => PositionLimit
  <2> SUFFICES ASSUME Limited, Undisturbed
               PROVE  Cardinality({p \in Pairs : Component(p) = "open"}) <= MaxPositions
    BY DEF PositionLimit, Undisturbed
  <2>1. {p \in Pairs : Component(p) = "open"} = OpenPairs
    BY ComponentIs DEF OpenPairs
  <2> QED
    BY <2>1 DEF Limited
<1> QED
  BY <1>1, LimitInit, LimitNext, PTL DEF Spec
=============================================================================
