----------------------- MODULE LivePosition_proofs -----------------------
(***************************************************************************)
(* The book of a live position and the account agree: the strategy knows   *)
(* whether there is a position, no stop order is forgotten, and nothing    *)
(* that was bought is left out, for every size, profile and fault the      *)
(* properties allow.                                                       *)
(***************************************************************************)
EXTENDS LivePosition, TLAPS

-----------------------------------------------------------------------------
(* The invariant                                                           *)

Exiting == {"balance", "sell", "sold"}

\* Where the tick is tells what the book looks like.
Shape ==
    /\ pc \in Exiting => mem.size > 0 /\ why # "none"
    /\ pc \in {"sell", "reduce"} => mem.stop = NoId
    /\ pc = "open" => mem.size = 0
    /\ pc \in {"scaleIn", "reduceCancel", "reduce"} => mem.size > 0
    /\ pc = "scaleIn" => mem.scaled < profile.scaleIns
    /\ pc \in {"reduceCancel", "reduce"} => mem.size % 2 = 0
    /\ pc \in {"status", "move", "place", "guard", "scaleCancel"} => ExchangeStops /\ mem.size > 0
    /\ pc \in {"status", "move", "scaleCancel", "reduceCancel"} => mem.stop # NoId

\* Only a position has a stop order, and only when stop orders are enabled.
Bare(b) == b.stop # NoId => ExchangeStops /\ b.size > 0

Agrees(b) == b.size > 0 <=> b.strat \in InPosition

\* The strategy and the book part only while an order decides between them; the
\* state to go back to then agrees with the book as it is.
Opinion ==
    /\ Agrees(db)
    /\ pc \notin Exiting \cup {"open"} => Agrees(mem)
    /\ pc = "open" => mem.strat \in InPosition /\ pre \notin InPosition
    /\ pc \in {"scaleIn", "reduceCancel", "reduce"} => mem.strat \in InPosition /\ pre \in InPosition
    /\ pc \in Exiting => IF why = "signal" THEN mem.strat = "COOLDOWN" /\ pre \in InPosition
                         ELSE mem.strat \in InPosition

\* At most one stop order lives, the one of the book.
Stops ==
    /\ ~up => mem = Flat /\ db = Flat /\ Live = {} /\ free = 0 /\ pc = "idle"
    /\ \A i \in Live : mem.stop = i
    /\ pc \in {"place", "guard"} => Live = {}

Held == IF mem.stop \in Live THEN stops[mem.stop].qty ELSE 0
Filled == mem.stop \in Ids /\ stops[mem.stop].status = "FILLED"

\* The account holds no more than the book; a live stop order locks all of it.
Amounts ==
    /\ free + Held <= mem.size
    /\ Live # {} /\ free # 0 => pc = "scaleCancel" /\ profile.scaleIns > 0
    /\ pc = "sold" => free = 0 /\ Live = {}
    /\ Filled => free = 0 /\ (profile.scaleIns = 0 \/ pc \in {"idle", "status"})

\* A stop that fills under a scale-in, or is not known to have filled, leaves
\* its id to a position that is larger than what it sold.
Foreseen == profile.scaleIns = 0 \/ profile.faults \cap {"race", "status"} = {}

-----------------------------------------------------------------------------
(* Arithmetic and records                                                  *)

LEMMA LotsFit == ASSUME NEW q \in Nat, NEW l \in Nat \ {0} PROVE (q \div l) * l \in Nat /\ (q \div l) * l <= q
<1>1. (q \div l) * l <= q
  OBVIOUS
<1>2. q \div l \in Nat
  OBVIOUS
<1> QED
  BY <1>1, <1>2

LEMMA FloorType == ASSUME NEW q \in Nat PROVE Floor(q) \in Nat /\ Floor(q) <= q
BY LotsFit, SizeAssumption DEF Floor

LEMMA FloorExact == ASSUME NoDust, NEW q \in Nat PROVE Floor(q) = q
BY DEF Floor, NoDust

LEMMA SmallerType ==
    ASSUME NEW a \in Nat, NEW b \in Nat
    PROVE Smaller(a, b) \in Nat /\ Smaller(a, b) <= a /\ Smaller(a, b) <= b /\ Smaller(a, b) \in {a, b}
BY DEF Smaller

LEMMA HalfType ==
    ASSUME NEW q \in Nat
    PROVE /\ q \div 2 \in Nat /\ q \div 2 <= q
          /\ q % 2 = 0 => q = 2 * (q \div 2)
OBVIOUS

Orders == [qty : Nat, status : {"NEW", "FILLED", "CANCELED"}]
Places == {"idle", "status", "decide", "place", "move", "strategy", "balance", "sell",
           "sold", "open", "scaleIn", "scaleCancel", "guard", "reduceCancel", "reduce",
           "persist", "persistFill"}
Causes == {"none", "stop", "forced", "signal"}

LEMMA FlatBook == /\ Flat.size = 0 /\ Flat.stop = NoId /\ Flat.strat = "FLAT" /\ Flat.scaled = 0
                  /\ profile \in Profiles => Flat \in Books
<1>1. Flat.size = 0 /\ Flat.stop = NoId /\ Flat.strat = "FLAT" /\ Flat.scaled = 0
  BY DEF Flat
<1>2. profile \in Profiles => 0 \in 0..profile.scaleIns
  BY ProfileAssumption
<1> QED
  BY <1>1, <1>2 DEF Flat, Books, StratStates

-----------------------------------------------------------------------------
(* What a call to the exchange leaves                                      *)

Account ==
    free \in Nat /\ stops \in [Ids -> Orders] /\ profile \in Profiles /\ budget \in 0..profile.max

LEMMA SpentBudget ==
    ASSUME Account, profile' = profile, NoFault \/ \E f \in FaultKinds : Fault(f)
    PROVE  budget' \in 0..profile.max
<1>1. profile.max \in Nat
  BY ProfileAssumption DEF Account
<1> QED
  BY <1>1 DEF Account, NoFault, Fault

LEMMA CancelAccount ==
    ASSUME Account, profile' = profile, NEW i, CancelIgnored(i)
    PROVE  Account'
<1>1. budget' \in 0..profile.max
  BY SpentBudget DEF CancelIgnored, CancelOk, CancelFails, FaultKinds
<1>2. CASE i \in Live /\ CancelOk(i)
  <2>1. stops[i] \in Orders /\ i \in Ids
    BY <1>2 DEF Account, Live
  <2>2. stops' = [stops EXCEPT ![i].status = "CANCELED"] /\ free' = free + stops[i].qty
    BY <1>2 DEF CancelOk
  <2>3. [stops[i] EXCEPT !.status = "CANCELED"] \in Orders
    BY <2>1 DEF Orders
  <2>4. stops' = [stops EXCEPT ![i] = [stops[i] EXCEPT !.status = "CANCELED"]]
    BY <2>2
  <2>5. stops' \in [Ids -> Orders]
    BY <2>1, <2>3, <2>4 DEF Account
  <2>6. free' \in Nat
    BY <2>1, <2>2 DEF Account, Orders
  <2> QED
    BY <1>1, <2>5, <2>6 DEF Account
<1>3. CASE ~(i \in Live /\ CancelOk(i))
  BY <1>1, <1>3 DEF CancelIgnored, CancelOk, CancelFails, Account
<1> QED
  BY <1>2, <1>3

LEMMA FreshIsFree ==
    ASSUME NEW q, NEW i, StopPlaced(q, i)
    PROVE  i \in Ids /\ i \notin Live /\ i # mem.stop /\ i # db.stop
BY DEF StopPlaced, Fresh

LEMMA PlacedAccount ==
    ASSUME Account, profile' = profile, NEW q \in Nat, NEW i, StopPlaced(q, i)
    PROVE  Account'
<1>1. budget' \in 0..profile.max
  BY SpentBudget DEF StopPlaced
<1>2. Floor(q) \in Nat /\ i \in Ids
  BY FloorType, FreshIsFree
<1>3. [qty |-> Floor(q), status |-> "NEW"] \in Orders
  BY <1>2 DEF Orders
<1> QED
  BY <1>1, <1>2, <1>3 DEF StopPlaced, Account

LEMMA RefusedAccount ==
    ASSUME Account, profile' = profile, NEW q, StopNotPlaced(q) \/ StopWouldTrigger(q)
    PROVE  Account'
<1>1. budget' \in 0..profile.max
  BY SpentBudget DEF StopNotPlaced, StopWouldTrigger, FaultKinds
<1> QED
  BY <1>1 DEF StopNotPlaced, StopWouldTrigger, Account

\* No call: the account is as it was, some money apart.
LEMMA QuietAccount ==
    ASSUME Account, profile' = profile, free' \in Nat, UNCHANGED stops,
           NoFault \/ \E f \in FaultKinds : Fault(f)
    PROVE  Account'
BY SpentBudget DEF Account

-----------------------------------------------------------------------------
(* Types and the shape of a tick                                           *)

Core == TypeOK /\ Shape /\ Bare(mem) /\ Bare(db)

\* The worker's side of the types
Worker == /\ up \in BOOLEAN /\ mem \in Books /\ db \in Books
          /\ pc \in Places /\ why \in Causes /\ pre \in StratStates

LEMMA CoreParts ==
    /\ Core <=> Account /\ Worker /\ Shape /\ Bare(mem) /\ Bare(db)
    /\ Core' <=> Account' /\ Worker' /\ Shape' /\ Bare(mem)' /\ Bare(db)'
BY DEF Core, Account, Worker, TypeOK, Orders, Places, Causes

LEMMA ReduceType ==
    ASSUME Account, mem.size \in Nat
    PROVE  ReduceQty \in Nat /\ ReduceQty <= free /\ ReduceQty <= mem.size \div 2
<1> DEFINE h == mem.size \div 2
           m == Smaller(free, h)
<1>1. h \in Nat /\ free \in Nat
  BY HalfType DEF Account
<1>2. m \in Nat /\ m <= free /\ m <= h
  <2> HIDE DEF h
  <2> QED BY <1>1, SmallerType
<1>3. ReduceQty = Floor(m)
  BY DEF ReduceQty
<1> HIDE DEF h, m
<1>4. Floor(m) \in Nat /\ Floor(m) <= m
  BY <1>2, FloorType
<1>5. ReduceQty \in Nat /\ ReduceQty <= free /\ ReduceQty <= h
  BY <1>1, <1>2, <1>3, <1>4
<1> QED
  BY <1>5 DEF h

LEMMA CloseType ==
    ASSUME Account, mem.size \in Nat, NEW k \in BOOLEAN
    PROVE  CloseQty(k) \in Nat /\ Floor(CloseQty(k)) \in Nat
BY FloorType, SmallerType DEF CloseQty, Account

LEMMA ExitedBook ==
    ASSUME Account, mem.strat \in StratStates
    PROVE  /\ Exited \in Books /\ Exited.size = 0 /\ Exited.stop = NoId
           /\ Exited.strat = IF why = "forced" \/ (why = "stop" /\ Cooldown) THEN "COOLDOWN" ELSE mem.strat
<1> DEFINE s == IF why = "forced" \/ (why = "stop" /\ Cooldown) THEN "COOLDOWN" ELSE mem.strat
<1>1. Exited = [Flat EXCEPT !.strat = s]
  BY DEF Exited
<1>2. s \in StratStates
  BY DEF StratStates
<1>3. Flat \in Books
  BY FlatBook DEF Account
<1> HIDE DEF s
<1>4. Exited \in Books /\ Exited.size = 0 /\ Exited.stop = NoId /\ Exited.strat = s
  BY <1>1, <1>2, <1>3 DEF Flat, Books
<1> QED
  BY <1>4 DEF s

LEMMA CoreInit == Init => Core
<1> SUFFICES ASSUME Init PROVE Core
  OBVIOUS
<1>1. profile.max \in Nat /\ profile.scaleIns \in Nat /\ profile \in Profiles
  BY ProfileAssumption DEF Init
<1>2. Account
  BY <1>1 DEF Init, Account, Orders
<1>3. Worker
  BY <1>1, FlatBook DEF Init, Worker, Places, Causes, StratStates
<1>4. Shape /\ Bare(mem) /\ Bare(db)
  BY DEF Init, Shape, Exiting, Bare, Flat
<1> QED
  BY <1>2, <1>3, <1>4, CoreParts

LEMMA CoreTickStart ==
    ASSUME Core, profile' = profile, TickStart
    PROVE  Core'
<1>0. Account /\ Worker /\ Shape /\ Bare(mem) /\ Bare(db)
  BY CoreParts
<1>s. profile.scaleIns \in Nat
  BY <1>0, ProfileAssumption DEF Account
<1>1. Account'
  BY <1>0, QuietAccount DEF TickStart, FaultKinds, Account
<1>2. Worker'
  BY <1>0, <1>s DEF TickStart, Worker, Books, Places, Causes, StratStates
<1>3. (Shape /\ Bare(mem) /\ Bare(db))'
  BY <1>0 DEF TickStart, Shape, Exiting, Bare, Worker, Books
<1> QED
  BY <1>1, <1>2, <1>3, CoreParts

LEMMA CoreStatusFilled ==
    ASSUME Core, profile' = profile, StatusFilled
    PROVE  Core'
<1>0. Account /\ Worker /\ Shape /\ Bare(mem) /\ Bare(db)
  BY CoreParts
<1>s. profile.scaleIns \in Nat
  BY <1>0, ProfileAssumption DEF Account
<1>1. Account'
  BY <1>0, QuietAccount DEF StatusFilled, FaultKinds, Account, Flat
<1>2. Worker'
  BY <1>0, <1>s DEF StatusFilled, Worker, Books, Places, Causes, StratStates, Flat
<1>3. (Shape /\ Bare(mem) /\ Bare(db))'
  BY <1>0 DEF StatusFilled, Shape, Exiting, Bare, Worker, Books, Flat
<1> QED
  BY <1>1, <1>2, <1>3, CoreParts

LEMMA CoreStatusNotFilled ==
    ASSUME Core, profile' = profile, StatusNotFilled
    PROVE  Core'
<1>0. Account /\ Worker /\ Shape /\ Bare(mem) /\ Bare(db)
  BY CoreParts
<1>s. profile.scaleIns \in Nat
  BY <1>0, ProfileAssumption DEF Account
<1>1. Account'
  BY <1>0, QuietAccount DEF StatusNotFilled, FaultKinds, Account
<1>2. Worker'
  BY <1>0, <1>s DEF StatusNotFilled, Worker, Books, Places, Causes, StratStates
<1>3. (Shape /\ Bare(mem) /\ Bare(db))'
  BY <1>0 DEF StatusNotFilled, Shape, Exiting, Bare, Worker, Books
<1> QED
  BY <1>1, <1>2, <1>3, CoreParts

LEMMA CoreStatusUnknown ==
    ASSUME Core, profile' = profile, StatusUnknown
    PROVE  Core'
<1>0. Account /\ Worker /\ Shape /\ Bare(mem) /\ Bare(db)
  BY CoreParts
<1>s. profile.scaleIns \in Nat
  BY <1>0, ProfileAssumption DEF Account
<1>1. Account'
  BY <1>0, QuietAccount DEF StatusUnknown, FaultKinds, Account
<1>2. Worker'
  BY <1>0, <1>s DEF StatusUnknown, Worker, Books, Places, Causes, StratStates
<1>3. (Shape /\ Bare(mem) /\ Bare(db))'
  BY <1>0 DEF StatusUnknown, Shape, Exiting, Bare, Worker, Books
<1> QED
  BY <1>1, <1>2, <1>3, CoreParts

LEMMA CoreStopHit ==
    ASSUME Core, profile' = profile, StopHit
    PROVE  Core'
<1>0. Account /\ Worker /\ Shape /\ Bare(mem) /\ Bare(db)
  BY CoreParts
<1>s. profile.scaleIns \in Nat
  BY <1>0, ProfileAssumption DEF Account
<1>1. Account'
  BY <1>0, QuietAccount DEF StopHit, FaultKinds, Account
<1>2. Worker'
  BY <1>0, <1>s DEF StopHit, Worker, Books, Places, Causes, StratStates
<1>3. (Shape /\ Bare(mem) /\ Bare(db))'
  BY <1>0 DEF StopHit, Shape, Exiting, Bare, Worker, Books
<1> QED
  BY <1>1, <1>2, <1>3, CoreParts

LEMMA CoreNoStopHit ==
    ASSUME Core, profile' = profile, NEW r \in BOOLEAN, NoStopHit(r)
    PROVE  Core'
<1>0. Account /\ Worker /\ Shape /\ Bare(mem) /\ Bare(db)
  BY CoreParts
<1>s. profile.scaleIns \in Nat
  BY <1>0, ProfileAssumption DEF Account
<1>1. Account'
  BY <1>0, QuietAccount DEF NoStopHit, FaultKinds, Account
<1>2. Worker'
  BY <1>0, <1>s DEF NoStopHit, Worker, Books, Places, Causes, StratStates
<1>3. (Shape /\ Bare(mem) /\ Bare(db))'
  BY <1>0 DEF NoStopHit, Shape, Exiting, Bare, Worker, Books
<1> QED
  BY <1>1, <1>2, <1>3, CoreParts

LEMMA CoreDecide ==
    ASSUME Core, profile' = profile, DecideHold \/ DecideSell \/ DecideReduce \/ DecideBuy
    PROVE  Core'
<1>0. Account /\ Worker /\ Shape /\ Bare(mem) /\ Bare(db)
  BY CoreParts
<1>s. profile.scaleIns \in Nat
  BY <1>0, ProfileAssumption DEF Account
<1>1. Account'
  BY <1>0, QuietAccount DEF DecideHold, DecideSell, DecideReduce, DecideBuy, Signalled, FaultKinds, Account, InPosition, Flat
<1>2. Worker'
  BY <1>0, <1>s DEF DecideHold, DecideSell, DecideReduce, DecideBuy, Signalled, Worker, Books, Places, Causes, StratStates, InPosition, Flat
<1>3. (Shape /\ Bare(mem) /\ Bare(db))'
  BY <1>0 DEF DecideHold, DecideSell, DecideReduce, DecideBuy, Signalled, Shape, Exiting, Bare, Worker, Books, InPosition, Flat
<1> QED
  BY <1>1, <1>2, <1>3, CoreParts

LEMMA CoreMoveCancel ==
    ASSUME Core, profile' = profile, MoveCancel
    PROVE  Core'
<1>0. Account /\ Worker /\ Shape /\ Bare(mem) /\ Bare(db)
  BY CoreParts
<1>s. profile.scaleIns \in Nat
  BY <1>0, ProfileAssumption DEF Account
<1>1. Account'
  BY <1>0, CancelAccount DEF MoveCancel, CancelIgnored
<1>2. Worker'
  BY <1>0, <1>s DEF MoveCancel, Worker, Books, Places, Causes, StratStates
<1>3. (Shape /\ Bare(mem) /\ Bare(db))'
  BY <1>0 DEF MoveCancel, Shape, Exiting, Bare, Worker, Books
<1> QED
  BY <1>1, <1>2, <1>3, CoreParts

LEMMA CoreScaleInCancel ==
    ASSUME Core, profile' = profile, ScaleInCancel
    PROVE  Core'
<1>0. Account /\ Worker /\ Shape /\ Bare(mem) /\ Bare(db)
  BY CoreParts
<1>s. profile.scaleIns \in Nat
  BY <1>0, ProfileAssumption DEF Account
<1>1. Account'
  BY <1>0, CancelAccount DEF ScaleInCancel
<1>2. Worker'
  BY <1>0, <1>s DEF ScaleInCancel, Worker, Books, Places, Causes, StratStates
<1>3. (Shape /\ Bare(mem) /\ Bare(db))'
  BY <1>0 DEF ScaleInCancel, Shape, Exiting, Bare, Worker, Books
<1> QED
  BY <1>1, <1>2, <1>3, CoreParts

LEMMA CoreReduceCancel ==
    ASSUME Core, profile' = profile, ReduceCancel
    PROVE  Core'
<1>0. Account /\ Worker /\ Shape /\ Bare(mem) /\ Bare(db)
  BY CoreParts
<1>s. profile.scaleIns \in Nat
  BY <1>0, ProfileAssumption DEF Account
<1>1. Account'
  BY <1>0, CancelAccount DEF ReduceCancel
<1>2. Worker'
  BY <1>0, <1>s DEF ReduceCancel, Worker, Books, Places, Causes, StratStates
<1>3. (Shape /\ Bare(mem) /\ Bare(db))'
  BY <1>0 DEF ReduceCancel, Shape, Exiting, Bare, Worker, Books
<1> QED
  BY <1>1, <1>2, <1>3, CoreParts

LEMMA CoreCloseUnlock ==
    ASSUME Core, profile' = profile, CloseUnlock
    PROVE  Core'
<1>0. Account /\ Worker /\ Shape /\ Bare(mem) /\ Bare(db)
  BY CoreParts
<1>s. profile.scaleIns \in Nat
  BY <1>0, ProfileAssumption DEF Account
<1>1. Account'
  BY <1>0, CancelAccount DEF CloseUnlock
<1>2. Worker'
  BY <1>0, <1>s DEF CloseUnlock, Worker, Books, Places, Causes, StratStates
<1>3. (Shape /\ Bare(mem) /\ Bare(db))'
  BY <1>0 DEF CloseUnlock, Shape, Exiting, Bare, Worker, Books
<1> QED
  BY <1>1, <1>2, <1>3, CoreParts

LEMMA CorePlace ==
    ASSUME Core, profile' = profile, Place
    PROVE  Core'
<1>0. Account /\ Worker /\ Shape /\ Bare(mem) /\ Bare(db)
  BY CoreParts
<1>s. profile.scaleIns \in Nat
  BY <1>0, ProfileAssumption DEF Account
<1>1. Account'
  BY <1>0, PlacedAccount, RefusedAccount DEF Place, Worker, Books
<1>2. Worker'
  BY <1>0, <1>s, FreshIsFree, IdsAssumption DEF Place, Worker, Books, Places, Causes, StratStates
<1>3. (Shape /\ Bare(mem) /\ Bare(db))'
  BY <1>0, FreshIsFree, IdsAssumption DEF Place, Shape, Exiting, Bare, Worker, Books
<1> QED
  BY <1>1, <1>2, <1>3, CoreParts

LEMMA CoreGuard ==
    ASSUME Core, profile' = profile, Guard
    PROVE  Core'
<1>0. Account /\ Worker /\ Shape /\ Bare(mem) /\ Bare(db)
  BY CoreParts
<1>s. profile.scaleIns \in Nat
  BY <1>0, ProfileAssumption DEF Account
<1>1. Account'
  BY <1>0, PlacedAccount, RefusedAccount DEF Guard, Worker, Books
<1>2. Worker'
  BY <1>0, <1>s, FreshIsFree, IdsAssumption DEF Guard, Worker, Books, Places, Causes, StratStates
<1>3. (Shape /\ Bare(mem) /\ Bare(db))'
  BY <1>0, FreshIsFree, IdsAssumption DEF Guard, Shape, Exiting, Bare, Worker, Books
<1> QED
  BY <1>1, <1>2, <1>3, CoreParts

LEMMA CoreBuyRefused ==
    ASSUME Core, profile' = profile, BuyRefused
    PROVE  Core'
<1>0. Account /\ Worker /\ Shape /\ Bare(mem) /\ Bare(db)
  BY CoreParts
<1>s. profile.scaleIns \in Nat
  BY <1>0, ProfileAssumption DEF Account
<1>1. Account'
  BY <1>0, QuietAccount DEF BuyRefused, FaultKinds, Account, RolledBack
<1>2. Worker'
  BY <1>0, <1>s DEF BuyRefused, Worker, Books, Places, Causes, StratStates, RolledBack
<1>3. (Shape /\ Bare(mem) /\ Bare(db))'
  BY <1>0 DEF BuyRefused, Shape, Exiting, Bare, Worker, Books, RolledBack
<1> QED
  BY <1>1, <1>2, <1>3, CoreParts

LEMMA OpenedBook ==
    ASSUME Core, OpenFilled
    PROVE  /\ mem'.size = OpenSize - BuyFee /\ mem'.stop = NoId /\ mem'.strat = mem.strat /\ mem'.scaled = 0
           /\ mem' \in Books /\ mem'.size > 0
<1> DEFINE bought == [Flat EXCEPT !.size = OpenSize - BuyFee]
<1>1. OpenSize - BuyFee \in Nat /\ OpenSize - BuyFee > 0
  BY SizeAssumption
<1>2. Flat \in Books /\ mem.strat \in StratStates
  BY CoreParts, FlatBook DEF Account, Worker, Books
<1>3. bought \in Books /\ bought.size = OpenSize - BuyFee /\ bought.stop = NoId /\ bought.scaled = 0
  BY <1>1, <1>2, FlatBook DEF Books
<1>4. mem' = [bought EXCEPT !.strat = mem.strat]
  BY DEF OpenFilled, Flat
<1> HIDE DEF bought
<1> QED
  BY <1>1, <1>2, <1>3, <1>4 DEF Books

LEMMA ScaledBook ==
    ASSUME Core, ScaleInFilled
    PROVE  /\ mem'.size = mem.size + TrancheSize - BuyFee /\ mem'.stop = mem.stop
           /\ mem'.strat = mem.strat /\ mem' \in Books /\ mem.size > 0 /\ mem'.size > 0
<1> DEFINE bought == [mem EXCEPT !.size = mem.size + TrancheSize - BuyFee]
<1>1. mem \in Books /\ mem.size \in Nat /\ mem.size > 0 /\ mem.scaled + 1 \in 0..profile.scaleIns
  BY CoreParts, ProfileAssumption DEF Account, Worker, Books, ScaleInFilled, Shape
<1>2. mem.size + TrancheSize - BuyFee \in Nat /\ mem.size + TrancheSize - BuyFee > 0
  BY <1>1, SizeAssumption
<1>3. /\ bought \in Books /\ bought.size = mem.size + TrancheSize - BuyFee /\ bought.stop = mem.stop
      /\ bought.strat = mem.strat /\ bought.scaled = mem.scaled
  BY <1>1, <1>2 DEF Books
<1>4. mem' = [bought EXCEPT !.scaled = mem.scaled + 1]
  BY <1>1 DEF ScaleInFilled, Books
<1> HIDE DEF bought
<1> QED
  BY <1>1, <1>2, <1>3, <1>4 DEF Books

LEMMA CoreOpenFilled ==
    ASSUME Core, profile' = profile, OpenFilled
    PROVE  Core'
<1>0. Account /\ Worker /\ Shape /\ Bare(mem) /\ Bare(db)
  BY CoreParts
<1>s. profile.scaleIns \in Nat
  BY <1>0, ProfileAssumption DEF Account
<1>1. Account'
  BY <1>0, QuietAccount, SizeAssumption DEF OpenFilled, Account
<1>2. Worker'
  BY <1>0, <1>s, OpenedBook DEF OpenFilled, Worker, Books, Places, Causes, StratStates
<1>3. (Shape /\ Bare(mem) /\ Bare(db))'
  BY <1>0, OpenedBook DEF OpenFilled, Shape, Exiting, Bare, Worker, Books
<1> QED
  BY <1>1, <1>2, <1>3, CoreParts

LEMMA CoreScaleInFilled ==
    ASSUME Core, profile' = profile, ScaleInFilled
    PROVE  Core'
<1>0. Account /\ Worker /\ Shape /\ Bare(mem) /\ Bare(db)
  BY CoreParts
<1>s. profile.scaleIns \in Nat
  BY <1>0, ProfileAssumption DEF Account
<1>1. Account'
  BY <1>0, QuietAccount, SizeAssumption DEF ScaleInFilled, Account
<1>2. Worker'
  BY <1>0, <1>s, ScaledBook DEF ScaleInFilled, Worker, Books, Places, Causes, StratStates
<1>3. (Shape /\ Bare(mem) /\ Bare(db))'
  BY <1>0, ScaledBook DEF ScaleInFilled, Shape, Exiting, Bare, Worker, Books
<1> QED
  BY <1>1, <1>2, <1>3, CoreParts

LEMMA CoreReduceFilled ==
    ASSUME Core, profile' = profile, ReduceFilled
    PROVE  Core'
<1>0. Account /\ Worker /\ Shape /\ Bare(mem) /\ Bare(db)
  BY CoreParts
<1>s. profile.scaleIns \in Nat
  BY <1>0, ProfileAssumption DEF Account
<1>1. Account'
  <2>1. ReduceQty \in Nat /\ ReduceQty <= free /\ free \in Nat
    BY <1>0, ReduceType DEF Account, Worker, Books
  <2>2. free' \in Nat /\ UNCHANGED stops /\ NoFault
    BY <2>1 DEF ReduceFilled
  <2> QED
    BY <1>0, <2>2, QuietAccount
<1>2. Worker'
  BY <1>0, <1>s, ReduceType, HalfType DEF ReduceFilled, Worker, Books, Places, Causes, StratStates
<1>3. (Shape /\ Bare(mem) /\ Bare(db))'
  BY <1>0, ReduceType, HalfType DEF ReduceFilled, Shape, Exiting, Bare, Worker, Books
<1> QED
  BY <1>1, <1>2, <1>3, CoreParts

LEMMA CoreReduceFails ==
    ASSUME Core, profile' = profile, ReduceFails
    PROVE  Core'
<1>0. Account /\ Worker /\ Shape /\ Bare(mem) /\ Bare(db)
  BY CoreParts
<1>s. profile.scaleIns \in Nat
  BY <1>0, ProfileAssumption DEF Account
<1>1. Account'
  BY <1>0, QuietAccount DEF ReduceFails, FaultKinds, Account, RolledBack
<1>2. Worker'
  BY <1>0, <1>s DEF ReduceFails, Worker, Books, Places, Causes, StratStates, RolledBack
<1>3. (Shape /\ Bare(mem) /\ Bare(db))'
  BY <1>0 DEF ReduceFails, Shape, Exiting, Bare, Worker, Books, RolledBack
<1> QED
  BY <1>1, <1>2, <1>3, CoreParts

LEMMA CoreCloseSold ==
    ASSUME Core, profile' = profile, NEW k \in BOOLEAN, CloseSold(k)
    PROVE  Core'
<1>0. Account /\ Worker /\ Shape /\ Bare(mem) /\ Bare(db)
  BY CoreParts
<1>s. profile.scaleIns \in Nat
  BY <1>0, ProfileAssumption DEF Account
<1>1. Account'
  <2>1. Floor(CloseQty(k)) \in Nat /\ free \in Nat
    BY <1>0, CloseType DEF Account, Worker, Books
  <2>2. free' \in Nat /\ UNCHANGED stops
    BY <2>1 DEF CloseSold, Selling
  <2> QED
    BY <1>0, <2>2, QuietAccount DEF CloseSold, FaultKinds
<1>2. Worker'
  BY <1>0, <1>s DEF CloseSold, Selling, Worker, Books, Places, Causes, StratStates
<1>3. (Shape /\ Bare(mem) /\ Bare(db))'
  BY <1>0 DEF CloseSold, Selling, Shape, Exiting, Bare, Worker, Books
<1> QED
  BY <1>1, <1>2, <1>3, CoreParts

LEMMA CoreCloseDust ==
    ASSUME Core, profile' = profile, CloseDust
    PROVE  Core'
<1>0. Account /\ Worker /\ Shape /\ Bare(mem) /\ Bare(db)
  BY CoreParts
<1>s. profile.scaleIns \in Nat
  BY <1>0, ProfileAssumption DEF Account
<1>1. Account'
  BY <1>0, QuietAccount, ExitedBook DEF CloseDust, Selling, FaultKinds, Account
<1>2. Worker'
  BY <1>0, <1>s, ExitedBook DEF CloseDust, Selling, Worker, Books, Places, Causes, StratStates
<1>3. (Shape /\ Bare(mem) /\ Bare(db))'
  BY <1>0, ExitedBook DEF CloseDust, Selling, Shape, Exiting, Bare, Worker, Books
<1> QED
  BY <1>1, <1>2, <1>3, CoreParts

LEMMA CoreCloseFails ==
    ASSUME Core, profile' = profile, NEW k \in BOOLEAN, CloseFails(k)
    PROVE  Core'
<1>0. Account /\ Worker /\ Shape /\ Bare(mem) /\ Bare(db)
  BY CoreParts
<1>s. profile.scaleIns \in Nat
  BY <1>0, ProfileAssumption DEF Account
<1>1. Account'
  BY <1>0, QuietAccount DEF CloseFails, Selling, FaultKinds, Account, RolledBack
<1>2. Worker'
  BY <1>0, <1>s DEF CloseFails, Selling, Worker, Books, Places, Causes, StratStates, RolledBack
<1>3. (Shape /\ Bare(mem) /\ Bare(db))'
  BY <1>0 DEF CloseFails, Selling, Shape, Exiting, Bare, Worker, Books, RolledBack
<1> QED
  BY <1>1, <1>2, <1>3, CoreParts

LEMMA CoreCloseDone ==
    ASSUME Core, profile' = profile, CloseDone
    PROVE  Core'
<1>0. Account /\ Worker /\ Shape /\ Bare(mem) /\ Bare(db)
  BY CoreParts
<1>s. profile.scaleIns \in Nat
  BY <1>0, ProfileAssumption DEF Account
<1>1. Account'
  BY <1>0, CancelAccount, QuietAccount DEF CloseDone, Account
<1>2. Worker'
  BY <1>0, <1>s, ExitedBook DEF CloseDone, Worker, Books, Places, Causes, StratStates
<1>3. (Shape /\ Bare(mem) /\ Bare(db))'
  BY <1>0, ExitedBook DEF CloseDone, Shape, Exiting, Bare, Worker, Books
<1> QED
  BY <1>1, <1>2, <1>3, CoreParts

LEMMA CorePersistOk ==
    ASSUME Core, profile' = profile, PersistOk
    PROVE  Core'
<1>0. Account /\ Worker /\ Shape /\ Bare(mem) /\ Bare(db)
  BY CoreParts
<1>s. profile.scaleIns \in Nat
  BY <1>0, ProfileAssumption DEF Account
<1>1. Account'
  BY <1>0, QuietAccount DEF PersistOk, Idle, FaultKinds, Account
<1>2. Worker'
  BY <1>0, <1>s DEF PersistOk, Idle, Worker, Books, Places, Causes, StratStates
<1>3. (Shape /\ Bare(mem) /\ Bare(db))'
  BY <1>0 DEF PersistOk, Idle, Shape, Exiting, Bare, Worker, Books
<1> QED
  BY <1>1, <1>2, <1>3, CoreParts

LEMMA CorePersistFails ==
    ASSUME Core, profile' = profile, PersistFails \/ PersistAndCleanupFail
    PROVE  Core'
<1>0. Account /\ Worker /\ Shape /\ Bare(mem) /\ Bare(db)
  BY CoreParts
<1>s. profile.scaleIns \in Nat
  BY <1>0, ProfileAssumption DEF Account
<1>1. Account'
  BY <1>0, QuietAccount, FlatBook DEF PersistFails, PersistAndCleanupFail, Idle, FaultKinds, Account, Flat, InPosition
<1>2. Worker'
  BY <1>0, <1>s, FlatBook DEF PersistFails, PersistAndCleanupFail, Idle, Worker, Books, Places, Causes, StratStates, Flat, InPosition
<1>3. (Shape /\ Bare(mem) /\ Bare(db))'
  BY <1>0, FlatBook DEF PersistFails, PersistAndCleanupFail, Idle, Shape, Exiting, Bare, Worker, Books, Flat, InPosition
<1> QED
  BY <1>1, <1>2, <1>3, CoreParts

LEMMA CoreStopFires ==
    ASSUME Core, profile' = profile, NEW i \in Ids, StopFires(i)
    PROVE  Core'
<1>0. Account /\ Worker /\ Shape /\ Bare(mem) /\ Bare(db)
  BY CoreParts
<1>s. profile.scaleIns \in Nat
  BY <1>0, ProfileAssumption DEF Account
<1>1. Account'
  <2>1. budget' \in 0..profile.max
    BY <1>0, SpentBudget DEF StopFires, FaultKinds
  <2>2. [stops[i] EXCEPT !.status = "FILLED"] \in Orders
    BY <1>0 DEF Account, Orders
  <2>3. stops' = [stops EXCEPT ![i] = [stops[i] EXCEPT !.status = "FILLED"]]
    BY DEF StopFires
  <2> QED
    BY <1>0, <2>1, <2>2, <2>3 DEF StopFires, Account
<1>2. Worker'
  BY <1>0, <1>s DEF StopFires, Worker, Books, Places, Causes, StratStates
<1>3. (Shape /\ Bare(mem) /\ Bare(db))'
  BY <1>0 DEF StopFires, Shape, Exiting, Bare, Worker, Books
<1> QED
  BY <1>1, <1>2, <1>3, CoreParts

LEMMA CoreCrash ==
    ASSUME Core, profile' = profile, Crash
    PROVE  Core'
<1>0. Account /\ Worker /\ Shape /\ Bare(mem) /\ Bare(db)
  BY CoreParts
<1>s. profile.scaleIns \in Nat
  BY <1>0, ProfileAssumption DEF Account
<1>1. Account'
  BY <1>0, QuietAccount, FlatBook DEF Crash, Idle, FaultKinds, Account, Account
<1>2. Worker'
  BY <1>0, <1>s, FlatBook DEF Crash, Idle, Worker, Books, Places, Causes, StratStates, Account
<1>3. (Shape /\ Bare(mem) /\ Bare(db))'
  BY <1>0, FlatBook DEF Crash, Idle, Shape, Exiting, Bare, Worker, Books, Account
<1> QED
  BY <1>1, <1>2, <1>3, CoreParts

LEMMA CoreStep == ASSUME Core, [Next]_vars PROVE Core'
<1>1. CASE UNCHANGED vars
  BY <1>1 DEF Core, TypeOK, Books, Shape, Exiting, Bare, vars
<1>2. CASE Next
  <2>1. profile' = profile
    BY <1>2 DEF Next
  <2>2. CASE TickStart
    BY <2>1, <2>2, CoreTickStart
  <2>3. CASE StatusFilled \/ StatusNotFilled \/ StatusUnknown
    BY <2>1, <2>3, CoreStatusFilled, CoreStatusNotFilled, CoreStatusUnknown
  <2>4. CASE StopHit \/ (\E r \in BOOLEAN : NoStopHit(r)) \/ MoveCancel \/ Place
    BY <2>1, <2>4, CoreStopHit, CoreNoStopHit, CoreMoveCancel, CorePlace
  <2>5. CASE DecideHold \/ DecideSell \/ DecideReduce \/ DecideBuy
    BY <2>1, <2>5, CoreDecide
  <2>6. CASE BuyRefused \/ OpenFilled \/ ScaleInFilled \/ ScaleInCancel \/ Guard
    BY <2>1, <2>6, CoreBuyRefused, CoreOpenFilled, CoreScaleInFilled, CoreScaleInCancel, CoreGuard
  <2>7. CASE ReduceCancel \/ ReduceFilled \/ ReduceFails
    BY <2>1, <2>7, CoreReduceCancel, CoreReduceFilled, CoreReduceFails
  <2>8. CASE CloseUnlock \/ CloseDust \/ CloseDone
    BY <2>1, <2>8, CoreCloseUnlock, CoreCloseDust, CoreCloseDone
  <2>9. CASE \E k \in BOOLEAN : CloseSold(k) \/ CloseFails(k)
    BY <2>1, <2>9, CoreCloseSold, CoreCloseFails
  <2>10. CASE PersistOk \/ PersistFails \/ PersistAndCleanupFail
    BY <2>1, <2>10, CorePersistOk, CorePersistFails
  <2>11. CASE (\E i \in Ids : StopFires(i)) \/ Crash
    BY <2>1, <2>11, CoreStopFires, CoreCrash
  <2> QED
    BY <1>2, <2>2, <2>3, <2>4, <2>5, <2>6, <2>7, <2>8, <2>9, <2>10, <2>11 DEF Next, TickStep
<1> QED
  BY <1>1, <1>2

\* Every variable keeps its type, through every fault: no sale of more than is
\* free, no more scale-ins than the strategy may do, no order of size zero.
THEOREM TypeCorrect == Spec => []TypeOK
<1>1. Init => Core
  BY CoreInit
<1>2. Core /\ [Next]_vars => Core'
  BY CoreStep
<1>3. Core => TypeOK
  BY DEF Core
<1> QED
  BY <1>1, <1>2, <1>3, PTL DEF Spec

-----------------------------------------------------------------------------
(* The strategy and the book                                               *)

LEMMA OpinionTickStart ==
    ASSUME Core, Cooldown, Opinion, profile' = profile, TickStart
    PROVE  Opinion'
<1>1. Account /\ Worker /\ Shape
  BY CoreParts
<1> QED
  BY <1>1 DEF TickStart, Opinion, Agrees, InPosition, Exiting, Worker, Books, StratStates, Shape

LEMMA OpinionStatus ==
    ASSUME Core, Cooldown, Opinion, profile' = profile, StatusFilled \/ StatusNotFilled \/ StatusUnknown
    PROVE  Opinion'
<1>1. Account /\ Worker /\ Shape
  BY CoreParts
<1> QED
  BY <1>1 DEF StatusFilled, StatusNotFilled, StatusUnknown, Opinion, Agrees, InPosition, Exiting, Worker, Books, StratStates, Shape, Flat

LEMMA OpinionStop ==
    ASSUME Core, Cooldown, Opinion, profile' = profile, StopHit \/ (\E r \in BOOLEAN : NoStopHit(r))
    PROVE  Opinion'
<1>1. Account /\ Worker /\ Shape
  BY CoreParts
<1> QED
  BY <1>1 DEF StopHit, NoStopHit, Opinion, Agrees, InPosition, Exiting, Worker, Books, StratStates, Shape

LEMMA OpinionMove ==
    ASSUME Core, Cooldown, Opinion, profile' = profile, MoveCancel \/ Place
    PROVE  Opinion'
<1>1. Account /\ Worker /\ Shape
  BY CoreParts
<1> QED
  BY <1>1 DEF MoveCancel, Place, Opinion, Agrees, InPosition, Exiting, Worker, Books, StratStates, Shape

LEMMA OpinionDecide ==
    ASSUME Core, Cooldown, Opinion, profile' = profile, DecideHold \/ DecideSell \/ DecideReduce \/ DecideBuy
    PROVE  Opinion'
<1>1. Account /\ Worker /\ Shape
  BY CoreParts
<1> QED
  BY <1>1 DEF DecideHold, DecideSell, DecideReduce, DecideBuy, Signalled, Opinion, Agrees, InPosition, Exiting, Worker, Books, StratStates, Shape

LEMMA OpinionRefused ==
    ASSUME Core, Cooldown, Opinion, profile' = profile, BuyRefused
    PROVE  Opinion'
<1>1. Account /\ Worker /\ Shape
  BY CoreParts
<1> QED
  BY <1>1 DEF BuyRefused, RolledBack, Opinion, Agrees, InPosition, Exiting, Worker, Books, StratStates, Shape

LEMMA OpinionBought ==
    ASSUME Core, Cooldown, Opinion, profile' = profile, OpenFilled \/ ScaleInFilled
    PROVE  Opinion'
<1>1. Account /\ Worker /\ Shape
  BY CoreParts
<1> QED
  BY <1>1, OpenedBook, ScaledBook DEF OpenFilled, ScaleInFilled, Opinion, Agrees, InPosition, Exiting, Worker, Books, StratStates, Shape

LEMMA OpinionProtect ==
    ASSUME Core, Cooldown, Opinion, profile' = profile, ScaleInCancel \/ Guard \/ ReduceCancel
    PROVE  Opinion'
<1>1. Account /\ Worker /\ Shape
  BY CoreParts
<1> QED
  BY <1>1 DEF ScaleInCancel, Guard, ReduceCancel, Opinion, Agrees, InPosition, Exiting, Worker, Books, StratStates, Shape

LEMMA OpinionReduce ==
    ASSUME Core, Cooldown, Opinion, profile' = profile, ReduceFilled \/ ReduceFails
    PROVE  Opinion'
<1>1. Account /\ Worker /\ Shape
  BY CoreParts
<1> QED
  BY <1>1, HalfType DEF ReduceFilled, ReduceFails, RolledBack, Opinion, Agrees, InPosition, Exiting, Worker, Books, StratStates, Shape

LEMMA OpinionUnlock ==
    ASSUME Core, Cooldown, Opinion, profile' = profile, CloseUnlock
    PROVE  Opinion'
<1>1. Account /\ Worker /\ Shape
  BY CoreParts
<1> QED
  BY <1>1 DEF CloseUnlock, Opinion, Agrees, InPosition, Exiting, Worker, Books, StratStates, Shape

LEMMA OpinionSell ==
    ASSUME Core, Cooldown, Opinion, profile' = profile, \E k \in BOOLEAN : CloseSold(k) \/ CloseFails(k)
    PROVE  Opinion'
<1>1. Account /\ Worker /\ Shape
  BY CoreParts
<1> QED
  BY <1>1 DEF CloseSold, CloseFails, Selling, RolledBack, Opinion, Agrees, InPosition, Exiting, Worker, Books, StratStates, Shape, Causes

LEMMA OpinionPersist ==
    ASSUME Core, Cooldown, Opinion, profile' = profile, PersistOk \/ PersistFails \/ PersistAndCleanupFail
    PROVE  Opinion'
<1>1. Account /\ Worker /\ Shape
  BY CoreParts
<1> QED
  BY <1>1, FlatBook DEF PersistOk, PersistFails, PersistAndCleanupFail, Idle, Opinion, Agrees, InPosition, Exiting, Worker, Books, StratStates, Shape, Flat

LEMMA OpinionWorld ==
    ASSUME Core, Cooldown, Opinion, profile' = profile, (\E i \in Ids : StopFires(i)) \/ Crash
    PROVE  Opinion'
<1>1. Account /\ Worker /\ Shape
  BY CoreParts
<1> QED
  BY <1>1, FlatBook DEF StopFires, Crash, Idle, Opinion, Agrees, InPosition, Exiting, Worker, Books, StratStates, Shape

LEMMA OpinionClosed ==
    ASSUME Core, Cooldown, Opinion, profile' = profile, CloseDust \/ CloseDone
    PROVE  Opinion'
<1>1. Account /\ Worker /\ Shape
  BY CoreParts
<1>2. pc \in Exiting /\ mem' = Exited /\ pc' = "persist" /\ db' = db
  BY DEF CloseDust, CloseDone, Selling, Exiting
<1>3. Exited.size = 0 /\ Exited.strat \notin InPosition
  <2>1. mem.strat \in StratStates
    BY <1>1 DEF Worker, Books
  <2>2. why \in {"stop", "forced", "signal"}
    BY <1>1, <1>2 DEF Worker, Causes, Shape
  <2>3. CASE why = "signal"
    BY <1>1, <1>2, <2>1, <2>3, ExitedBook DEF Opinion, InPosition
  <2>4. CASE why \in {"stop", "forced"}
    BY <1>1, <2>1, <2>4, ExitedBook DEF InPosition
  <2> QED
    BY <2>2, <2>3, <2>4
<1> QED
  BY <1>2, <1>3 DEF Opinion, Agrees, Exiting

LEMMA OpinionStep == ASSUME Cooldown, Core, Opinion, [Next]_vars PROVE Opinion'
<1>1. CASE UNCHANGED vars
  BY <1>1 DEF Opinion, Agrees, Exiting, vars
<1>2. CASE Next
  <2>1. profile' = profile
    BY <1>2 DEF Next
  <2>2. CASE TickStart \/ StatusFilled \/ StatusNotFilled \/ StatusUnknown
    BY <2>1, <2>2, OpinionTickStart, OpinionStatus
  <2>3. CASE StopHit \/ (\E r \in BOOLEAN : NoStopHit(r)) \/ MoveCancel \/ Place
    BY <2>1, <2>3, OpinionStop, OpinionMove
  <2>4. CASE DecideHold \/ DecideSell \/ DecideReduce \/ DecideBuy
    BY <2>1, <2>4, OpinionDecide
  <2>5. CASE BuyRefused \/ OpenFilled \/ ScaleInFilled \/ ScaleInCancel \/ Guard
    BY <2>1, <2>5, OpinionRefused, OpinionBought, OpinionProtect
  <2>6. CASE ReduceCancel \/ ReduceFilled \/ ReduceFails
    BY <2>1, <2>6, OpinionProtect, OpinionReduce
  <2>7. CASE CloseUnlock \/ CloseDust \/ CloseDone \/ \E k \in BOOLEAN : CloseSold(k) \/ CloseFails(k)
    BY <2>1, <2>7, OpinionUnlock, OpinionClosed, OpinionSell
  <2>8. CASE PersistOk \/ PersistFails \/ PersistAndCleanupFail
    BY <2>1, <2>8, OpinionPersist
  <2>9. CASE (\E i \in Ids : StopFires(i)) \/ Crash
    BY <2>1, <2>9, OpinionWorld
  <2> QED
    BY <1>2, <2>2, <2>3, <2>4, <2>5, <2>6, <2>7, <2>8, <2>9 DEF Next, TickStep
<1> QED
  BY <1>1, <1>2

\* With a cooldown, strategy and book agree on whether there is a position
\* whenever a tick has ended, and the rows always do, through refused orders,
\* failed transactions, their cleanup and crashes: a rollback restores just the
\* state that fits the book.  Without one a stop leaves the strategy in position.
THEOREM StrategyKnowsTheBook == ASSUME Cooldown PROVE Spec => []StrategyAgrees
<1>1. Init => Core /\ Opinion
  BY CoreInit DEF Init, Opinion, Agrees, Exiting, Flat, InPosition
<1>2. Core /\ Opinion /\ [Next]_vars => Core' /\ Opinion'
  BY CoreStep, OpinionStep
<1>3. Opinion => StrategyAgrees
  BY DEF Opinion, Agrees, Exiting, StrategyAgrees, Resting
<1> QED
  BY <1>1, <1>2, <1>3, PTL DEF Spec

-----------------------------------------------------------------------------
(* One live stop order                                                     *)

\* Without failed cancellations an order that is cancelled is gone, and what it
\* locked is free again.
LEMMA CancelClears ==
    ASSUME Core, Stops, Tracked, CancelIgnored(mem.stop)
    PROVE  /\ Live' = {} /\ free' = free + Held
           /\ \A i \in Ids : stops'[i].status = "FILLED" <=> stops[i].status = "FILLED"
<1>0. stops \in [Ids -> Orders] /\ free \in Nat
  BY CoreParts DEF Account
<1>1. CASE mem.stop \in Live
  <2>1. CancelOk(mem.stop) /\ mem.stop \in Ids
    BY <1>1, IdsAssumption DEF CancelIgnored, CancelFails, Tracked, Fault, Live
  <2>2. stops' = [stops EXCEPT ![mem.stop].status = "CANCELED"] /\ free' = free + stops[mem.stop].qty
    BY <1>1, <2>1 DEF CancelOk
  <2>3. \A i \in Ids : stops'[i].status = IF i = mem.stop THEN "CANCELED" ELSE stops[i].status
    BY <1>0, <2>2 DEF Orders
  <2> QED
    BY <1>1, <2>1, <2>2, <2>3 DEF Held, Live, Stops
<1>2. CASE mem.stop \notin Live
  <2>1. Live = {} /\ Held = 0
    BY <1>2 DEF Stops, Held
  <2>2. UNCHANGED <<stops, free>>
    BY <1>2 DEF CancelIgnored, CancelOk, CancelFails
  <2> QED
    BY <1>0, <2>1, <2>2 DEF Live
<1> QED
  BY <1>1, <1>2

LEMMA PlacedLives ==
    ASSUME Core, Live = {}, NEW q, NEW i, StopPlaced(q, i)
    PROVE  /\ Live' = {i} /\ i \in Ids
           /\ stops'[i] = [qty |-> Floor(q), status |-> "NEW"] /\ free' = free - Floor(q)
           /\ Floor(q) <= free
<1>1. stops \in [Ids -> Orders] /\ i \in Ids
  BY CoreParts, FreshIsFree DEF Account
<1>2. stops' = [stops EXCEPT ![i] = [qty |-> Floor(q), status |-> "NEW"]]
  BY DEF StopPlaced
<1>3. \A j \in Ids : stops'[j] = IF j = i THEN [qty |-> Floor(q), status |-> "NEW"] ELSE stops[j]
  BY <1>1, <1>2
<1> QED
  BY <1>1, <1>3 DEF StopPlaced, Live

LEMMA StopsGone == ASSUME up', Live' = {} PROVE Stops'
BY DEF Stops

LEMMA StopsKept ==
    ASSUME Stops, up', UNCHANGED stops, mem'.stop = mem.stop \/ Live = {},
           pc' \in {"place", "guard"} => Live = {}
    PROVE  Stops'
BY DEF Stops, Live

LEMMA StopsPlaced ==
    ASSUME up', NEW i, Live' = {i}, mem'.stop = i, pc' \notin {"place", "guard"}
    PROVE  Stops'
BY DEF Stops

\* What the steps below start from.
Watched == Core /\ Stops /\ Tracked /\ NoDust

LEMMA Facts ==
    ASSUME Watched
    PROVE  /\ Account /\ Worker /\ Shape /\ Bare(mem) /\ Bare(db)
           /\ mem \in Books /\ mem.size \in Nat /\ free \in Nat
           /\ pc # "idle" => up
           /\ mem.stop = NoId => Live = {}
           /\ mem.stop \notin Live => Live = {}
BY CoreParts, IdsAssumption DEF Watched, Worker, Account, Books, Stops, Live

LEMMA StopsTickStart == ASSUME Watched, profile' = profile, TickStart PROVE Stops'
BY Facts, StopsKept DEF TickStart, Watched, Stops

LEMMA StopsStatus ==
    ASSUME Watched, profile' = profile, StatusFilled \/ StatusNotFilled \/ StatusUnknown
    PROVE  Stops'
<1>1. up' /\ UNCHANGED stops /\ pc' \notin {"place", "guard"}
  BY Facts DEF StatusFilled, StatusNotFilled, StatusUnknown
<1>2. mem'.stop = mem.stop \/ mem.stop \notin Live
  BY DEF StatusFilled, StatusNotFilled, StatusUnknown, Live
<1> QED
  BY <1>1, <1>2, Facts, StopsKept DEF Watched

LEMMA StopsDecide ==
    ASSUME Watched, profile' = profile,
           \/ StopHit \/ \E r \in BOOLEAN : NoStopHit(r)
           \/ DecideHold \/ DecideSell \/ DecideReduce \/ DecideBuy
    PROVE  Stops'
<1>1. up' /\ UNCHANGED stops
  BY Facts DEF StopHit, NoStopHit, DecideHold, DecideSell, DecideReduce, DecideBuy, Signalled
<1>2. mem'.stop = mem.stop
  BY Facts DEF StopHit, NoStopHit, DecideHold, DecideSell, DecideReduce, DecideBuy, Signalled, Books
<1>3. pc' \in {"place", "guard"} => mem.stop = NoId
  BY DEF StopHit, NoStopHit, DecideHold, DecideSell, DecideReduce, DecideBuy, Signalled
<1> QED
  BY <1>1, <1>2, <1>3, Facts, StopsKept DEF Watched

\* cancellations of the book's order
LEMMA StopsCancel ==
    ASSUME Watched, profile' = profile, MoveCancel \/ ScaleInCancel \/ ReduceCancel \/ CloseUnlock
    PROVE  Stops'
<1>1. up' /\ CancelIgnored(mem.stop)
  BY Facts DEF MoveCancel, ScaleInCancel, ReduceCancel, CloseUnlock, CancelIgnored
<1> QED
  BY <1>1, CancelClears, StopsGone DEF Watched

LEMMA StopsPlace ==
    ASSUME Watched, profile' = profile, Place \/ Guard
    PROVE  Stops'
<1>1. up' /\ Live = {} /\ pc' \notin {"place", "guard"}
  BY Facts DEF Place, Guard, Watched, Stops
<1>2. CASE \E i \in Ids : StopPlaced(mem.size, i) /\ mem' = [mem EXCEPT !.stop = i]
  <2>1. PICK i \in Ids : StopPlaced(mem.size, i) /\ mem' = [mem EXCEPT !.stop = i]
    BY <1>2
  <2>2. Live' = {i} /\ mem'.stop = i
    BY <1>1, <2>1, Facts, PlacedLives DEF Watched, Books
  <2> QED
    BY <1>1, <2>2, StopsPlaced
<1>3. CASE StopNotPlaced(mem.size) \/ StopWouldTrigger(mem.size)
  <2>1. UNCHANGED stops
    BY <1>3 DEF StopNotPlaced, StopWouldTrigger
  <2> QED
    BY <1>1, <2>1, StopsKept DEF Watched
<1> QED
  BY <1>2, <1>3 DEF Place, Guard

LEMMA StopsBuy ==
    ASSUME Watched, profile' = profile, BuyRefused \/ OpenFilled \/ ScaleInFilled
    PROVE  Stops'
<1>1. up' /\ UNCHANGED stops
  BY Facts DEF BuyRefused, OpenFilled, ScaleInFilled
<1>2. CASE BuyRefused
  BY <1>1, <1>2, Facts, StopsKept DEF Watched, BuyRefused, RolledBack, Books
<1>3. CASE OpenFilled
  <2>1. Live = {}
    BY <1>3, Facts DEF OpenFilled, Shape, Bare
  <2> QED
    BY <1>1, <2>1, StopsKept DEF Watched
<1>4. CASE ScaleInFilled
  <2>1. mem'.stop = mem.stop
    BY <1>4, ScaledBook DEF Watched
  <2>2. pc' \in {"place", "guard"} => mem.stop = NoId
    BY <1>4 DEF ScaleInFilled
  <2> QED
    BY <1>1, <2>1, <2>2, Facts, StopsKept DEF Watched
<1> QED
  BY <1>2, <1>3, <1>4

LEMMA StopsReduce ==
    ASSUME Watched, profile' = profile, ReduceFilled \/ ReduceFails
    PROVE  Stops'
<1>1. up' /\ UNCHANGED stops /\ Live = {}
  BY Facts DEF ReduceFilled, ReduceFails, Shape
<1> QED
  BY <1>1, StopsKept DEF Watched

\* Counted in lots, a balance that is not zero can be sold: the book is closed
\* without a sale only when nothing is locked either.
LEMMA DustIsNothing ==
    ASSUME Watched, CloseDust
    PROVE  free = 0 /\ Live = {}
<1>1. mem.size > 0
  BY Facts DEF CloseDust, Selling, Shape, Exiting
<1>2. Floor(free) = free
  BY Facts, FloorExact DEF Watched
<1>3. Smaller(free, mem.size) \in Nat /\ (Smaller(free, mem.size) = 0 => free = 0)
  BY <1>1, Facts, SmallerType
<1>4. Floor(Smaller(free, mem.size)) = Smaller(free, mem.size)
  BY <1>3, FloorExact DEF Watched
<1>5. free = 0
  BY <1>2, <1>3, <1>4, Facts DEF CloseDust, CloseQty
<1>6. mem.stop = NoId
  BY <1>5, Facts DEF CloseDust, Selling, Shape
<1> QED
  BY <1>5, <1>6, Facts

LEMMA StopsClose ==
    ASSUME Watched, profile' = profile,
           CloseDust \/ CloseDone \/ \E k \in BOOLEAN : CloseSold(k) \/ CloseFails(k)
    PROVE  Stops'
<1>1. up'
  <2>1. pc \in Exiting /\ up' = up
    BY DEF CloseDust, CloseDone, CloseSold, CloseFails, Selling, Exiting
  <2> QED
    BY <2>1, Facts DEF Exiting
<1>2. CASE CloseDust
  BY <1>1, <1>2, DustIsNothing, StopsKept DEF Watched, CloseDust, Selling
<1>3. CASE CloseDone
  <2>1. pc' \notin {"place", "guard"}
    BY <1>3 DEF CloseDone
  <2>2. CASE ExchangeStops /\ mem.stop # NoId
    BY <1>1, <1>3, <2>2, CancelClears, StopsGone DEF CloseDone, Watched
  <2>3. CASE ~(ExchangeStops /\ mem.stop # NoId)
    BY <1>1, <1>3, <2>1, <2>3, Facts, StopsKept DEF CloseDone, Watched, Bare
  <2> QED
    BY <2>2, <2>3
<1>4. CASE \E k \in BOOLEAN : CloseSold(k) \/ CloseFails(k)
  <2>1. UNCHANGED stops /\ pc' \notin {"place", "guard"} /\ mem'.stop = mem.stop
    BY <1>4, Facts DEF CloseSold, CloseFails, Selling, RolledBack, Books
  <2> QED
    BY <1>1, <2>1, StopsKept DEF Watched
<1> QED
  BY <1>2, <1>3, <1>4

LEMMA StopsPersist ==
    ASSUME Watched, profile' = profile, PersistOk \/ PersistFails \/ PersistAndCleanupFail
    PROVE  Stops'
<1>1. up' /\ UNCHANGED stops /\ mem' = mem /\ pc' = "idle"
  BY Facts DEF PersistOk, PersistFails, PersistAndCleanupFail, Idle
<1> QED
  BY <1>1, StopsKept DEF Watched

LEMMA FiredIsBooks ==
    ASSUME Watched, NEW i \in Ids, StopFires(i)
    PROVE  /\ i = mem.stop /\ Live' = {} /\ Live # {} /\ up'
           /\ pc = "idle" \/ "race" \in profile.faults
<1>1. i \in Live /\ i = mem.stop /\ up /\ up'
  BY DEF StopFires, Watched, Stops
<1>2. stops \in [Ids -> Orders] /\ stops' = [stops EXCEPT ![i].status = "FILLED"]
  BY Facts DEF Account, StopFires
<1>3. \A j \in Ids : stops'[j].status = IF j = i THEN "FILLED" ELSE stops[j].status
  BY <1>2 DEF Orders
<1>4. Live' = {}
  BY <1>1, <1>3 DEF Live, Watched, Stops
<1> QED
  BY <1>1, <1>4 DEF StopFires, Fault

LEMMA StopsWorld ==
    ASSUME Watched, profile' = profile, (\E i \in Ids : StopFires(i)) \/ Crash
    PROVE  Stops'
<1>1. ~Crash
  BY DEF Crash, Fault, Watched, Tracked
<1> QED
  BY <1>1, FiredIsBooks, StopsGone

LEMMA StopsStep == ASSUME Watched, [Next]_vars PROVE Stops'
<1>1. CASE UNCHANGED vars
  BY <1>1 DEF Stops, Live, vars, Watched
<1>2. CASE Next
  <2>1. profile' = profile
    BY <1>2 DEF Next
  <2>2. CASE TickStart \/ StatusFilled \/ StatusNotFilled \/ StatusUnknown
    BY <2>1, <2>2, StopsTickStart, StopsStatus
  <2>3. CASE \/ StopHit \/ (\E r \in BOOLEAN : NoStopHit(r))
             \/ DecideHold \/ DecideSell \/ DecideReduce \/ DecideBuy
    BY <2>1, <2>3, StopsDecide
  <2>4. CASE MoveCancel \/ ScaleInCancel \/ ReduceCancel \/ CloseUnlock
    BY <2>1, <2>4, StopsCancel
  <2>5. CASE Place \/ Guard
    BY <2>1, <2>5, StopsPlace
  <2>6. CASE BuyRefused \/ OpenFilled \/ ScaleInFilled
    BY <2>1, <2>6, StopsBuy
  <2>7. CASE ReduceFilled \/ ReduceFails
    BY <2>1, <2>7, StopsReduce
  <2>8. CASE CloseDust \/ CloseDone \/ \E k \in BOOLEAN : CloseSold(k) \/ CloseFails(k)
    BY <2>1, <2>8, StopsClose
  <2>9. CASE PersistOk \/ PersistFails \/ PersistAndCleanupFail
    BY <2>1, <2>9, StopsPersist
  <2>10. CASE (\E i \in Ids : StopFires(i)) \/ Crash
    BY <2>1, <2>10, StopsWorld
  <2> QED
    BY <1>2, <2>2, <2>3, <2>4, <2>5, <2>6, <2>7, <2>8, <2>9, <2>10 DEF Next, TickStep
<1> QED
  BY <1>1, <1>2

\* Sizes in whole lots: a live stop order is always the one of the book, so that
\* none can fire on a later position; whatever refusals, races, failed reads and
\* failed transactions there are, cancellations that fail and crashes apart.
THEOREM NoStopForgotten == ASSUME NoDust PROVE Spec => []NoOrphanStop
<1>1. Init => Core /\ (Tracked => Stops)
  <2>1. Init => Live = {}
    BY DEF Init, Live
  <2> QED
    BY <2>1, CoreInit DEF Init, Stops
<1>2. Core /\ (Tracked => Stops) /\ [Next]_vars => Core' /\ (Tracked => Stops)'
  <2> SUFFICES ASSUME Core, Tracked => Stops, [Next]_vars, Tracked' PROVE Core' /\ Stops'
    BY CoreStep
  <2>1. Tracked
    BY DEF Tracked, Next, vars
  <2> QED
    BY <2>1, CoreStep, StopsStep DEF Watched
<1>3. (Tracked => Stops) => NoOrphanStop
  BY DEF Stops, NoOrphanStop
<1> QED
  BY <1>1, <1>2, <1>3, PTL DEF Spec

-----------------------------------------------------------------------------
(* The account and the book                                                *)

\* What the live stop orders lock, as a function of orders and names
QtyOf(st, L) == MapThenSumSet(LAMBDA i : st[i].qty, L)

\* The sum has at most one term here.
LEMMA QtyOfNone == ASSUME NEW st PROVE QtyOf(st, {}) = 0
<1> DEFINE none == [s \in SUBSET {} |-> 0]
           step(iter) == [s \in SUBSET {} |->
                IF s = {} THEN 0
                ELSE st[CHOOSE x \in s : TRUE].qty + iter[s \ {CHOOSE x \in s : TRUE}]]
<1>1. none = step(none)
  OBVIOUS
<1>2. (CHOOSE iter : iter = step(iter)) = step(CHOOSE iter : iter = step(iter))
  BY <1>1
<1>3. step(CHOOSE iter : iter = step(iter))[{}] = 0
  OBVIOUS
<1>4. QtyOf(st, {}) = (CHOOSE iter : iter = step(iter))[{}]
  BY DEF QtyOf, MapThenSumSet, MapThenFoldSet
<1> QED
  BY <1>2, <1>3, <1>4

LEMMA QtyOfOne == ASSUME NEW st, NEW i, st[i].qty \in Nat PROVE QtyOf(st, {i}) = st[i].qty
<1> DEFINE step(iter) == [s \in SUBSET {i} |->
                IF s = {} THEN 0
                ELSE st[CHOOSE x \in s : TRUE].qty + iter[s \ {CHOOSE x \in s : TRUE}]]
           one == [s \in SUBSET {i} |-> IF s = {} THEN 0 ELSE st[i].qty]
           it == CHOOSE iter : iter = step(iter)
<1>1. \A s \in SUBSET {i} : s # {} => s = {i} /\ (CHOOSE x \in s : TRUE) = i /\ s \ {CHOOSE x \in s : TRUE} = {}
  OBVIOUS
<1>2. \A f : step(f) = [s \in SUBSET {i} |-> IF s = {} THEN 0 ELSE st[i].qty + f[{}]]
  BY <1>1
<1>3. one = step(one)
  <2>1. one[{}] = 0
    OBVIOUS
  <2>2. st[i].qty + one[{}] = st[i].qty
    BY <2>1
  <2>3. one = [s \in SUBSET {i} |-> IF s = {} THEN 0 ELSE st[i].qty + one[{}]]
    BY <2>2
  <2> HIDE DEF one
  <2> QED
    BY <1>2, <2>3
<1>4. it = step(it)
  <2> HIDE DEF step, one
  <2> QED
    BY <1>3
<1>5. it = [s \in SUBSET {i} |-> IF s = {} THEN 0 ELSE st[i].qty + it[{}]]
  <2> HIDE DEF it
  <2> QED
    BY <1>2, <1>4
<1>6. it[{i}] = st[i].qty
  <2> HIDE DEF it
  <2>1. it[{}] = 0 /\ it[{i}] = st[i].qty + it[{}]
    BY <1>5
  <2> QED
    BY <2>1
<1>7. QtyOf(st, {i}) = it[{i}]
  BY DEF QtyOf, MapThenSumSet, MapThenFoldSet
<1> QED
  BY <1>6, <1>7

\* What an account holds, when of the orders st at most the one named o is live
LEMMA QtyOfHeld ==
    ASSUME NEW st \in [Ids -> Orders], NEW L, L \subseteq Ids, NEW o, \A i \in L : o = i
    PROVE  QtyOf(st, L) = IF o \in L THEN st[o].qty ELSE 0
<1>1. CASE L = {}
  BY <1>1, QtyOfNone
<1>2. CASE L # {}
  <2>1. L = {o} /\ st[o].qty \in Nat
    BY <1>2 DEF Orders
  <2> QED
    BY <2>1, QtyOfOne
<1> QED
  BY <1>1, <1>2

LEMMA AssetIsHeld ==
    /\ Core /\ (\A i \in Live : mem.stop = i) => Asset = free + Held
    /\ Core' /\ (\A i \in Live : mem.stop = i)' => Asset' = free' + Held'
<1>1. Locked = QtyOf(stops, Live) /\ Locked' = QtyOf(stops', Live')
  BY DEF Locked, QtyOf, MapThenSumSet, MapThenFoldSet
<1>2. Live \subseteq Ids /\ Live' \subseteq Ids
  BY DEF Live
<1>3. /\ Core => stops \in [Ids -> Orders]
      /\ Core' => stops' \in [Ids -> Orders]
  BY CoreParts DEF Account
<1>4. Core /\ (\A i \in Live : mem.stop = i) => Asset = free + Held
  BY <1>1, <1>2, <1>3, QtyOfHeld DEF Asset, Held
<1>5. Core' /\ (\A i \in Live : mem.stop = i)' => Asset' = free' + Held'
  BY <1>1, <1>2, <1>3, QtyOfHeld DEF Asset, Held
<1> QED
  BY <1>4, <1>5

Counted == Watched /\ Foreseen /\ Amounts

LEMMA CountedFacts ==
    ASSUME Counted
    PROVE  /\ Watched /\ Held \in Nat /\ profile.scaleIns \in Nat
           /\ Live = {} <=> mem.stop \notin Live
           /\ Live = {} => Held = 0
           /\ Filled => Live = {}
           /\ Filled /\ pc \notin {"idle", "status"} => profile.scaleIns = 0
<1>1. Watched /\ Account /\ (\A i \in Live : mem.stop = i) /\ Amounts
  BY Facts DEF Counted, Watched, Stops
<1>2. mem.stop \in Live => stops[mem.stop].qty \in Nat
  BY <1>1 DEF Account, Orders, Live
<1>3. Live = {} <=> mem.stop \notin Live
  BY <1>1
<1>4. Filled => mem.stop \notin Live
  BY DEF Filled, Live
<1>5. profile.scaleIns \in Nat
  BY <1>1, ProfileAssumption DEF Account
<1> QED
  BY <1>1, <1>2, <1>3, <1>4, <1>5 DEF Held, Amounts

\* Nothing is bought, sold or cancelled, and the book keeps its size.
LEMMA AmountsKept ==
    ASSUME Counted, profile' = profile, UNCHANGED <<stops, free>>, mem'.size = mem.size,
           mem'.stop = mem.stop \/ (Live = {} /\ mem'.stop \notin Ids),
           pc' # "sold",
           Live # {} /\ free # 0 => pc' = "scaleCancel",
           Filled => mem'.stop # mem.stop \/ profile.scaleIns = 0 \/ pc' \in {"idle", "status"}
    PROVE  Amounts'
<1>1. Amounts /\ Live' = Live
  BY DEF Counted, Live
<1>2. CASE mem'.stop = mem.stop
  BY <1>1, <1>2 DEF Amounts, Held, Filled
<1>3. CASE Live = {} /\ mem'.stop \notin Ids
  BY <1>1, <1>3 DEF Amounts, Held, Filled
<1> QED
  BY <1>2, <1>3

LEMMA AmountsTickStart == ASSUME Counted, profile' = profile, TickStart PROVE Amounts'
<1>1. pc = "idle" /\ mem' = mem /\ UNCHANGED <<stops, free>> /\ pc' \in {"status", "decide"}
  BY CountedFacts DEF TickStart, Watched, Stops
<1>2. Filled => pc' = "status"
  BY <1>1, Facts, CountedFacts, IdsAssumption DEF Filled, Bare, TickStart
<1> QED
  BY <1>1, <1>2, AmountsKept DEF Counted, Amounts

LEMMA AmountsStatus ==
    ASSUME Counted, profile' = profile, StatusFilled \/ StatusNotFilled \/ StatusUnknown
    PROVE  Amounts'
<1>1. CASE StatusFilled
  <2>1. Filled /\ Live = {} /\ free = 0
    BY <1>1, CountedFacts DEF StatusFilled, Filled, Counted, Amounts
  <2>2. mem'.size = 0 /\ mem'.stop = NoId /\ UNCHANGED <<stops, free>> /\ pc' = "persistFill"
    BY <1>1 DEF StatusFilled, Flat
  <2>3. Live' = {} /\ Held' = 0 /\ ~Filled'
    BY <2>1, <2>2, IdsAssumption DEF Live, Held, Filled
  <2> QED
    BY <2>1, <2>2, <2>3 DEF Amounts
<1>2. CASE StatusNotFilled
  <2>1. ~Filled /\ UNCHANGED <<stops, free>> /\ pc = "status" /\ pc' = "decide"
    BY <1>2 DEF StatusNotFilled, Filled
  <2>2. mem'.size = mem.size /\ (mem'.stop = mem.stop \/ (Live = {} /\ mem'.stop \notin Ids))
    BY <1>2, Facts, CountedFacts, IdsAssumption DEF StatusNotFilled, Books
  <2> QED
    BY <2>1, <2>2, AmountsKept DEF Counted, Amounts
<1>3. CASE StatusUnknown
  <2>1. UNCHANGED <<mem, stops, free>> /\ pc = "status" /\ pc' = "decide"
    BY <1>3 DEF StatusUnknown
  <2>2. Filled => profile.scaleIns = 0
    BY <1>3, IdsAssumption DEF StatusUnknown, Filled, Fault, Counted, Foreseen
  <2> QED
    BY <2>1, <2>2, AmountsKept DEF Counted, Amounts
<1> QED
  BY <1>1, <1>2, <1>3

LEMMA AmountsDecide ==
    ASSUME Counted, profile' = profile,
           \/ StopHit \/ \E r \in BOOLEAN : NoStopHit(r)
           \/ DecideHold \/ DecideSell \/ DecideReduce \/ DecideBuy \/ BuyRefused \/ ReduceFails
    PROVE  Amounts'
<1>1. /\ UNCHANGED <<stops, free>> /\ pc' # "sold"
      /\ pc \notin {"scaleCancel", "sold", "idle", "status"}
  BY DEF StopHit, NoStopHit, DecideHold, DecideSell, DecideReduce, DecideBuy, Signalled, BuyRefused, ReduceFails
<1>2. mem'.size = mem.size /\ mem'.stop = mem.stop
  BY Facts, CountedFacts DEF StopHit, NoStopHit, DecideHold, DecideSell, DecideReduce, DecideBuy,
     Signalled, BuyRefused, ReduceFails, RolledBack, Books
<1> QED
  BY <1>1, <1>2, CountedFacts, AmountsKept DEF Counted, Amounts

\* After a cancellation all of the asset is free.
LEMMA AmountsFreed ==
    ASSUME Counted, profile' = profile, CancelIgnored(mem.stop), mem'.size = mem.size,
           mem'.stop \in {mem.stop, NoId}, pc \notin {"idle", "status"}, pc' # "sold"
    PROVE  Amounts'
<1>1. /\ Live' = {} /\ free' = free + Held
      /\ \A i \in Ids : stops'[i].status = "FILLED" <=> stops[i].status = "FILLED"
  BY CountedFacts, CancelClears DEF Watched
<1>2. Held' = 0
  BY <1>1 DEF Held
<1>3. Filled' => Filled
  BY <1>1, IdsAssumption DEF Filled
<1>4. Filled => free' = 0 /\ profile.scaleIns = 0
  BY <1>1, CountedFacts DEF Counted, Amounts
<1>5. free' + Held' <= mem'.size
  BY <1>1, <1>2, Facts, CountedFacts DEF Counted, Amounts
<1> QED
  BY <1>1, <1>3, <1>4, <1>5 DEF Amounts

LEMMA AmountsCancel ==
    ASSUME Counted, profile' = profile, MoveCancel \/ ScaleInCancel \/ ReduceCancel \/ CloseUnlock
    PROVE  Amounts'
<1>1. CancelIgnored(mem.stop) /\ pc \notin {"idle", "status"} /\ pc' # "sold"
  BY DEF MoveCancel, ScaleInCancel, ReduceCancel, CloseUnlock, CancelIgnored
<1>2. mem'.size = mem.size /\ mem'.stop \in {mem.stop, NoId}
  BY Facts, CountedFacts DEF MoveCancel, ScaleInCancel, ReduceCancel, CloseUnlock, Books
<1> QED
  BY <1>1, <1>2, AmountsFreed

\* A stop order is placed for the whole position, or not at all.
LEMMA AmountsPlace ==
    ASSUME Counted, profile' = profile, Place \/ Guard
    PROVE  Amounts'
<1>1. Live = {} /\ pc \in {"place", "guard"} /\ pc' \notin {"sold", "scaleCancel"}
  BY CountedFacts DEF Place, Guard, Watched, Stops
<1>2. CASE \E i \in Ids : StopPlaced(mem.size, i) /\ mem' = [mem EXCEPT !.stop = i]
  <2>1. PICK i \in Ids : StopPlaced(mem.size, i) /\ mem' = [mem EXCEPT !.stop = i]
    BY <1>2
  <2>2. mem'.size = mem.size /\ mem'.stop = i /\ Floor(mem.size) = mem.size
    BY <2>1, Facts, CountedFacts, FloorExact DEF Books, Watched
  <2>3. /\ Live' = {i} /\ stops'[i].qty = mem.size /\ stops'[i].status = "NEW"
        /\ free' = free - mem.size /\ mem.size <= free
    <3>1. /\ Live' = {i} /\ stops'[i] = [qty |-> Floor(mem.size), status |-> "NEW"]
          /\ free' = free - Floor(mem.size) /\ Floor(mem.size) <= free
      BY <1>1, <2>1, CountedFacts, PlacedLives DEF Watched
    <3> QED
      BY <2>2, <3>1
  <2>4. Held' = mem.size /\ ~Filled'
    BY <2>2, <2>3 DEF Held, Filled
  <2>5. free = mem.size
    BY <1>1, <2>3, Facts, CountedFacts DEF Counted, Amounts
  <2> QED
    BY <1>1, <2>2, <2>3, <2>4, <2>5, Facts, CountedFacts DEF Amounts
<1>3. CASE /\ StopNotPlaced(mem.size) \/ StopWouldTrigger(mem.size)
           /\ mem' = mem \/ mem' = [mem EXCEPT !.stop = NoId] \/ mem' = [mem EXCEPT !.stop = Ghost]
  <2>1. UNCHANGED <<stops, free>>
    BY <1>3 DEF StopNotPlaced, StopWouldTrigger
  <2>2. mem'.size = mem.size /\ (mem'.stop = mem.stop \/ mem'.stop \notin Ids)
    BY <1>3, Facts, CountedFacts, IdsAssumption DEF Books
  <2> QED
    BY <1>1, <2>1, <2>2, CountedFacts, AmountsKept
<1> QED
  BY <1>2, <1>3 DEF Place, Guard

LEMMA AmountsBuy ==
    ASSUME Counted, profile' = profile, OpenFilled \/ ScaleInFilled
    PROVE  Amounts'
<1>1. UNCHANGED stops /\ Live' = Live
  BY DEF OpenFilled, ScaleInFilled, Live
<1>2. CASE OpenFilled
  <2>1. mem.size = 0 /\ Live = {} /\ free = 0
    BY <1>2, Facts, CountedFacts DEF OpenFilled, Shape, Bare, Counted, Amounts
  <2>2. mem'.size = OpenSize - BuyFee /\ mem'.stop = NoId
    BY <1>2, OpenedBook, CountedFacts DEF Watched
  <2>3. free' = OpenSize - BuyFee /\ OpenSize - BuyFee \in Nat /\ pc' # "sold"
    BY <1>2, <2>1, SizeAssumption DEF OpenFilled
  <2>4. Held' = 0 /\ ~Filled'
    BY <1>1, <2>1, <2>2, IdsAssumption DEF Held, Filled
  <2> QED
    BY <1>1, <2>1, <2>2, <2>3, <2>4 DEF Amounts
<1>3. CASE ScaleInFilled
  <2>1. pc = "scaleIn" /\ profile.scaleIns > 0
    BY <1>3, Facts, CountedFacts DEF ScaleInFilled, Shape, Books
  <2>2. mem'.size = mem.size + TrancheSize - BuyFee /\ mem'.stop = mem.stop
    BY <1>3, ScaledBook, CountedFacts DEF Watched
  <2>3. free' = free + TrancheSize - BuyFee /\ pc' # "sold"
    BY <1>3 DEF ScaleInFilled
  <2>4. Held' = Held /\ ~Filled'
    BY <1>1, <2>1, <2>2, CountedFacts DEF Held, Filled
  <2>5. Live # {} => pc' = "scaleCancel"
    BY <1>3, Facts, CountedFacts DEF ScaleInFilled, Bare
  <2>6. free' + Held' <= mem'.size
    BY <2>2, <2>3, <2>4, Facts, CountedFacts, SizeAssumption DEF Counted, Amounts
  <2> QED
    BY <1>1, <2>1, <2>3, <2>4, <2>5, <2>6 DEF Amounts
<1> QED
  BY <1>2, <1>3

\* Half of the book is at least half of the account.
LEMMA AmountsReduce == ASSUME Counted, profile' = profile, ReduceFilled PROVE Amounts'
<1> DEFINE h == mem.size \div 2
<1>1. h \in Nat /\ mem.size = 2 * h
  BY Facts, CountedFacts, HalfType DEF ReduceFilled, Shape
<1>2. Live = {} /\ mem.stop = NoId /\ free <= mem.size /\ Held = 0
  BY Facts, CountedFacts DEF ReduceFilled, Shape, Counted, Amounts
<1>3. mem'.size = h /\ mem'.stop = NoId /\ UNCHANGED stops /\ pc' # "sold"
  BY <1>2, Facts, CountedFacts DEF ReduceFilled, Books
<1> HIDE DEF h
<1>4. ReduceQty = Smaller(free, h)
  <2>1. Smaller(free, h) \in Nat
    BY <1>1, Facts, CountedFacts, SmallerType
  <2> QED
    BY <2>1, FloorExact, CountedFacts DEF Watched, ReduceQty, h
<1>5. free' <= h /\ free' \in Int
  BY <1>1, <1>2, <1>4, Facts, CountedFacts DEF ReduceFilled, Smaller
<1>6. Live' = {} /\ Held' = 0 /\ ~Filled'
  BY <1>2, <1>3, IdsAssumption DEF Live, Held, Filled
<1> QED
  BY <1>3, <1>5, <1>6 DEF Amounts

\* A sale of the whole position sells all there is.
LEMMA SoldAll ==
    ASSUME Counted, NEW k \in BOOLEAN, CloseSold(k)
    PROVE  free' = 0 /\ Live = {} /\ ~Filled
<1> DEFINE q == CloseQty(k)
<1>1. mem.size > 0 /\ free + Held <= mem.size
  BY Facts, CountedFacts DEF CloseSold, Selling, Shape, Exiting, Counted, Amounts
<1>2. q \in Nat /\ Floor(q) = q
  BY Facts, CountedFacts, CloseType, FloorExact DEF Watched
<1>3. 0 < q /\ q <= free /\ free' = free - q
  BY <1>2 DEF CloseSold
<1>4. Live = {}
  BY <1>2, <1>3, Facts, CountedFacts DEF CloseSold, Selling, Shape, Counted, Amounts
<1>5. q = free
  <2>1. free <= mem.size
    BY <1>1, Facts, CountedFacts
  <2>2. Smaller(free, mem.size) = free
    BY <2>1 DEF Smaller
  <2> QED
    BY <1>2, <1>3, <2>1, <2>2, Facts, CountedFacts DEF CloseQty
<1>6. ~Filled
  BY <1>2, <1>3 DEF Counted, Amounts
<1> QED
  BY <1>2, <1>3, <1>4, <1>5, <1>6

LEMMA AmountsClose ==
    ASSUME Counted, profile' = profile,
           CloseDust \/ CloseDone \/ \E k \in BOOLEAN : CloseSold(k) \/ CloseFails(k)
    PROVE  Amounts'
<1>1. CASE \E k \in BOOLEAN : CloseFails(k)
  <2>1. /\ UNCHANGED <<stops, free>> /\ pc' # "sold"
        /\ pc \in {"balance", "sell"}
    BY <1>1 DEF CloseFails, Selling
  <2>2. mem'.size = mem.size /\ mem'.stop = mem.stop
    BY <1>1, Facts, CountedFacts DEF CloseFails, RolledBack, Books
  <2> QED
    BY <2>1, <2>2, CountedFacts, AmountsKept DEF Counted, Amounts
<1>2. CASE \E k \in BOOLEAN : CloseSold(k)
  <2>1. UNCHANGED <<stops, mem>> /\ free' = 0 /\ Live = {} /\ ~Filled
    BY <1>2, SoldAll DEF CloseSold, Selling
  <2>2. Live' = {} /\ Held' = 0 /\ ~Filled'
    BY <2>1 DEF Live, Held, Filled
  <2> QED
    BY <2>1, <2>2, Facts, CountedFacts DEF Amounts
<1>3. CASE CloseDust
  <2>1. free = 0 /\ Live = {} /\ UNCHANGED <<free, stops>> /\ mem' = Exited /\ pc' = "persist"
    BY <1>3, DustIsNothing, CountedFacts DEF CloseDust, Selling
  <2>2. Live' = {} /\ mem'.size = 0 /\ mem'.stop = NoId
    BY <2>1, ExitedBook, Facts, CountedFacts DEF Live, Books
  <2>3. Held' = 0 /\ ~Filled'
    BY <2>2, IdsAssumption DEF Held, Filled
  <2> QED
    BY <2>1, <2>2, <2>3 DEF Amounts
<1>4. CASE CloseDone
  <2>1. free = 0 /\ Live = {} /\ mem' = Exited /\ pc' = "persist"
    BY <1>4 DEF CloseDone, Counted, Amounts
  <2>2. free' = 0 /\ Live' = {}
    <3>1. CASE CancelIgnored(mem.stop)
      BY <2>1, <3>1, CancelClears, CountedFacts DEF Watched
    <3>2. CASE UNCHANGED <<free, stops>>
      BY <2>1, <3>2 DEF Live
    <3> QED
      BY <1>4, <3>1, <3>2 DEF CloseDone
  <2>3. mem'.size = 0 /\ mem'.stop = NoId
    BY <2>1, ExitedBook, Facts, CountedFacts DEF Books
  <2>4. Held' = 0 /\ ~Filled'
    BY <2>2, <2>3, IdsAssumption DEF Held, Filled
  <2> QED
    BY <2>1, <2>2, <2>3, <2>4 DEF Amounts
<1> QED
  BY <1>1, <1>2, <1>3, <1>4

LEMMA AmountsPersist ==
    ASSUME Counted, profile' = profile, PersistOk \/ PersistFails \/ PersistAndCleanupFail
    PROVE  Amounts'
<1>1. /\ UNCHANGED <<stops, free, mem>> /\ pc' = "idle"
      /\ pc \in {"persist", "persistFill"}
  BY DEF PersistOk, PersistFails, PersistAndCleanupFail, Idle
<1> QED
  BY <1>1, CountedFacts, AmountsKept DEF Counted, Amounts

LEMMA AmountsWorld ==
    ASSUME Counted, profile' = profile, (\E i \in Ids : StopFires(i)) \/ Crash
    PROVE  Amounts'
<1>1. ~Crash
  BY CountedFacts DEF Crash, Fault, Watched, Tracked
<1>2. PICK i \in Ids : StopFires(i)
  BY <1>1
<1>3. /\ Live' = {} /\ Live # {} /\ UNCHANGED <<free, mem, pc>>
      /\ pc = "idle" \/ profile.scaleIns = 0
  BY <1>2, CountedFacts, FiredIsBooks DEF StopFires, Counted, Foreseen
<1>4. free = 0 /\ pc # "sold"
  BY <1>3, Facts, CountedFacts DEF Counted, Amounts
<1> QED
  BY <1>3, <1>4, Facts, CountedFacts DEF Amounts, Held

LEMMA AmountsStep == ASSUME Counted, [Next]_vars PROVE Amounts'
<1>1. CASE UNCHANGED vars
  BY <1>1 DEF Amounts, Live, Held, Filled, vars, Counted
<1>2. CASE Next
  <2>1. profile' = profile
    BY <1>2 DEF Next
  <2>2. CASE TickStart \/ StatusFilled \/ StatusNotFilled \/ StatusUnknown
    BY <2>1, <2>2, AmountsTickStart, AmountsStatus
  <2>3. CASE \/ StopHit \/ (\E r \in BOOLEAN : NoStopHit(r))
             \/ DecideHold \/ DecideSell \/ DecideReduce \/ DecideBuy \/ BuyRefused \/ ReduceFails
    BY <2>1, <2>3, AmountsDecide
  <2>4. CASE MoveCancel \/ ScaleInCancel \/ ReduceCancel \/ CloseUnlock
    BY <2>1, <2>4, AmountsCancel
  <2>5. CASE Place \/ Guard
    BY <2>1, <2>5, AmountsPlace
  <2>6. CASE OpenFilled \/ ScaleInFilled
    BY <2>1, <2>6, AmountsBuy
  <2>7. CASE ReduceFilled
    BY <2>1, <2>7, AmountsReduce
  <2>8. CASE CloseDust \/ CloseDone \/ \E k \in BOOLEAN : CloseSold(k) \/ CloseFails(k)
    BY <2>1, <2>8, AmountsClose
  <2>9. CASE PersistOk \/ PersistFails \/ PersistAndCleanupFail
    BY <2>1, <2>9, AmountsPersist
  <2>10. CASE (\E i \in Ids : StopFires(i)) \/ Crash
    BY <2>1, <2>10, AmountsWorld
  <2> QED
    BY <1>2, <2>2, <2>3, <2>4, <2>5, <2>6, <2>7, <2>8, <2>9, <2>10 DEF Next, TickStep
<1> QED
  BY <1>1, <1>2

Inv == Core /\ (Tracked => Stops /\ Amounts)

LEMMA InvInit == Init => Inv
<1> SUFFICES ASSUME Init PROVE Core /\ Stops /\ Amounts
  BY DEF Inv
<1>1. Live = {} /\ Core
  BY CoreInit DEF Init, Live
<1>2. Stops
  BY <1>1 DEF Init, Stops
<1>3. Held = 0 /\ ~Filled
  BY <1>1, FlatBook, IdsAssumption DEF Init, Held, Filled
<1> QED
  BY <1>1, <1>2, <1>3, FlatBook DEF Init, Amounts

LEMMA InvStep ==
    ASSUME NoDust, ScaleInsForeseen, Inv, [Next]_vars
    PROVE  Inv'
<1>1. Core'
  BY CoreStep DEF Inv
<1>2. ASSUME Tracked' PROVE Stops' /\ Amounts'
  <2>1. Tracked
    BY <1>2 DEF Tracked, Next, vars
  <2>2. Foreseen
    BY <2>1, CoreParts DEF Inv, Tracked, Foreseen, ScaleInsForeseen, Account
  <2>3. Counted
    BY <2>1, <2>2 DEF Counted, Watched, Inv
  <2> QED
    BY <2>3, StopsStep, AmountsStep DEF Counted
<1> QED
  BY <1>1, <1>2 DEF Inv

\* Nothing that was bought is left out of the book when a tick has ended:
\* account and book are compared unit by unit, in lots.
THEOREM NothingLeftOut == ASSUME NoDust, ScaleInsForeseen PROVE Spec => []NothingUntracked
<1>1. Inv /\ [Next]_vars => Inv'
  BY InvStep
<1>2. Inv => NothingUntracked
  BY AssetIsHeld DEF Inv, Stops, Amounts, NothingUntracked
<1> QED
  BY InvInit, <1>1, <1>2, PTL DEF Spec

\* A step that closes the position in the book leaves nothing in the account,
\* whichever way it closes it: sold, filled by its stop order, or dust.
THEOREM ClosedIsSold == ASSUME NoDust, ScaleInsForeseen PROVE Spec => ClosedMeansSold
<1>1. Inv /\ [Next]_vars => Inv'
  BY InvStep
<1>2. Inv /\ Inv' /\ [Next]_vars =>
        [Tracked /\ up /\ up' /\ mem.size > 0 /\ mem'.size = 0 => Asset' < Lot]_vars
  <2> SUFFICES ASSUME Inv, Inv', Tracked, [Next]_vars, mem'.size = 0 PROVE Asset' < Lot
    OBVIOUS
  <2>1. Tracked'
    BY DEF Tracked, Next, vars
  <2>2. Asset' = free' + Held' /\ free' + Held' <= mem'.size
    BY <2>1, AssetIsHeld DEF Inv, Stops, Amounts
  <2> QED
    BY <2>2 DEF NoDust
<1> QED
  BY InvInit, <1>1, <1>2, PTL DEF Spec, ClosedMeansSold

=============================================================================
