------------------------ MODULE OrderRecovery_proofs ------------------------
(***************************************************************************)
(* Under the faults the design withstands, the rows hold what the orders   *)
(* really did once none is pending, and no tick decides on anything else.  *)
(*                                                                         *)
(* At any moment at most the last order is pending, and the rows together  *)
(* with what the recovery will make of it are what is held.                *)
(***************************************************************************)
EXTENDS OrderRecovery, TLAPS

Withstood == {"garbled", "unsent", "update", "crash"}

\* What a fill of order r makes of a position of size n
After(r, n) == IF r.intent \in Buys THEN n + r.qty ELSE n - r.qty

\* r was decided upon a position of size n.
Fits(r, n) ==
    /\ r.qty > 0
    /\ CASE r.intent = "open" -> n = 0
         [] r.intent = "scale_in" -> n > 0
         [] r.intent = "reduce" -> n > 1 /\ r.qty = n \div 2
         [] r.intent = "close" -> n = r.qty

\* A book of size n is the truth, up to the order that is pending.
Sound(n) ==
    IF Pending = {} THEN held = n
    ELSE /\ cur \in Orders /\ rec[cur].status = "pending" /\ Fits(rec[cur], n)
         /\ held = IF rec[cur].found THEN After(rec[cur], n) ELSE n

\* At most the last order is pending, and every record was written ahead.
OnlyLast ==
    \A o \in Orders : /\ rec[o].status = "pending" => o = cur
                      /\ rec[o].status # "unlogged"

\* The strategy's opinion fits the position, in the rows and in the worker.
Fitting ==
    /\ db.known /\ (db.expects <=> db.size > 0)
    /\ pc # "idle" => up /\ (mem.expects <=> mem.size > 0)

Mirrored == mem.size = db.size /\ mem.expects = db.expects

Mirroring ==
    /\ pc \in {"decide", "send", "record", "failed", "book"} => Mirrored
    /\ pc = "idle" /\ up => Pending # {} \/ Mirrored

Truth ==
    /\ pc \in {"idle", "decide", "send", "record", "failed"} => Sound(db.size)
    /\ pc = "decide" => Pending = {}
    /\ pc = "send" => cur \in Orders /\ rec[cur].status = "pending" /\ ~rec[cur].found
    /\ pc = "record" => cur \in Orders /\ rec[cur].status = "pending" /\ rec[cur].found
    /\ pc = "book" => /\ Pending = {} /\ cur \in Orders /\ Fits(rec[cur], mem.size)
                      /\ held = After(rec[cur], mem.size)
    /\ pc = "persist" => Sound(mem.size)

IInv == TypeOK /\ OnlyLast /\ Fitting /\ Mirroring /\ Truth

-----------------------------------------------------------------------------
(* Orders and their effects                                                *)

Records == [status : {"none", "pending", "unlogged", "filled", "rejected", "cancelled"},
            intent : Intents, qty : Nat, found : BOOLEAN]

LEMMA PendingIs ==
  ASSUME OnlyLast PROVE Pending = {} <=> ~(cur \in Orders /\ rec[cur].status = "pending")
  BY DEF OnlyLast, Pending

LEMMA PendingNext ==
  ASSUME OnlyLast' PROVE (Pending = {})' <=> ~(cur' \in Orders /\ rec'[cur'].status = "pending")
  BY DEF OnlyLast, Pending

LEMMA RecordType ==
  ASSUME TypeOK, NEW o \in Orders
  PROVE  /\ rec[o] \in Records /\ rec[o].qty \in Nat /\ rec[o].found \in BOOLEAN
         /\ rec[o].intent \in Intents
  BY DEF TypeOK, Records

\* A fitting order leaves a natural number, and the smaller one of a sale fits.
LEMMA AfterFits ==
  ASSUME NEW r \in Records, NEW n \in Nat, Fits(r, n)
  PROVE  /\ After(r, n) \in Nat
         /\ r.intent \notin Buys => r.qty <= n
<1>1. CASE r.intent \in Buys
  BY <1>1 DEF Records, After
<1>2. CASE r.intent = "reduce"
  BY <1>2 DEF Records, After, Fits, Buys
<1>3. CASE r.intent = "close"
  BY <1>3 DEF Records, After, Fits, Buys
<1> QED
  BY <1>1, <1>2, <1>3 DEF Records, Intents

\* The first order of a tick is decided upon what is held, unclamped.
LEMMA QuantityFits ==
  ASSUME NEW i \in Intents, Allowed(i), mem.size \in Nat, held = mem.size
  PROVE  /\ Quantity(i) \in Nat /\ Quantity(i) > 0
         /\ Fits([status |-> "pending", intent |-> i, qty |-> Quantity(i), found |-> FALSE],
                 mem.size)
<1>1. CASE i = "open"
  BY <1>1, QuantityAssumption DEF Allowed, Quantity, Fits, Buys
<1>2. CASE i = "scale_in"
  BY <1>2, QuantityAssumption DEF Allowed, Quantity, Fits, Buys
<1>3. CASE i = "reduce"
  BY <1>3 DEF Allowed, Quantity, Fits, Buys
<1>4. CASE i = "close"
  BY <1>4 DEF Allowed, Quantity, Fits, Buys
<1> QED
  BY <1>1, <1>2, <1>3, <1>4 DEF Intents, Buys

\* What recovery makes of the rows is what the order did.
LEMMA AppliedIsAfter ==
  ASSUME NEW r \in Records, db \in [size : Nat, expects : BOOLEAN, known : BOOLEAN],
         db.known, db.expects <=> db.size > 0, Fits(r, db.size)
  PROVE  /\ Applied(r) \in [size : Nat, expects : BOOLEAN, known : BOOLEAN]
         /\ Applied(r).size = After(r, db.size)
         /\ Applied(r).known /\ (Applied(r).expects <=> Applied(r).size > 0)
<1>1. CASE r.intent = "open"
  <2>1. db.size = 0 /\ r.qty \in Nat /\ r.qty > 0
    BY <1>1 DEF Fits, Records
  <2>2. Applied(r) = [db EXCEPT !.size = r.qty, !.expects = db.known]
    BY <1>1, <2>1 DEF Applied
  <2>3. After(r, db.size) = r.qty
    BY <1>1, <2>1 DEF After, Buys
  <2> QED
    BY <2>1, <2>2, <2>3
<1>2. CASE r.intent = "scale_in"
  BY <1>2 DEF Records, Fits, Applied, After, Buys
<1>3. CASE r.intent = "reduce"
  BY <1>3 DEF Records, Fits, Applied, After, Buys
<1>4. CASE r.intent = "close"
  <2>1. db.size = r.qty /\ r.qty \in Nat /\ r.qty > 0
    BY <1>4 DEF Fits, Records
  <2>2. Applied(r) = [db EXCEPT !.size = 0, !.expects = FALSE]
    BY <1>4, <2>1 DEF Applied
  <2>3. After(r, db.size) = 0
    BY <1>4, <2>1 DEF After, Buys
  <2>4. Applied(r).size = 0 /\ Applied(r).expects = FALSE /\ Applied(r).known = db.known
    BY <2>2
  <2>5. Applied(r) \in [size : Nat, expects : BOOLEAN, known : BOOLEAN]
    <3>1. [db EXCEPT !.size = 0] \in [size : Nat, expects : BOOLEAN, known : BOOLEAN]
      OBVIOUS
    <3>2. Applied(r) = [[db EXCEPT !.size = 0] EXCEPT !.expects = FALSE]
      BY <2>2
    <3> QED
      BY <3>1, <3>2
  <2>6. ~(0 > 0)
    OBVIOUS
  <2> QED
    BY <2>3, <2>4, <2>5, <2>6, Zenon
<1> QED
  BY <1>1, <1>2, <1>3, <1>4 DEF Records, Intents, Buys

-----------------------------------------------------------------------------
(* Type correctness                                                        *)

Rows == [size : Nat, expects : BOOLEAN, known : BOOLEAN]
Workers == [size : Nat, expects : BOOLEAN]

LEMMA QuantityType ==
  ASSUME TypeOK, NEW i \in Intents, Allowed(i) PROVE Quantity(i) \in Nat
<1> DEFINE wanted == CASE i = "open" -> OpenQty
                       [] i = "scale_in" -> ScaleQty
                       [] i = "reduce" -> mem.size \div 2
                       [] i = "close" -> mem.size
<1>1. wanted \in Nat
  <2>1. mem.size \in Nat /\ mem.size \div 2 \in Nat
    BY DEF TypeOK
  <2> QED
    BY <2>1, QuantityAssumption DEF Intents, Buys
<1>2. held \in Nat
  BY DEF TypeOK
<1> HIDE DEF wanted
<1>3. Quantity(i) = IF i \notin Buys /\ wanted > held THEN held ELSE wanted
  BY DEF Quantity, wanted
<1> QED
  BY <1>1, <1>2, <1>3

LEMMA CurrentOrder ==
  ASSUME TypeOK, NEW s \in {"none", "pending", "unlogged", "filled", "rejected", "cancelled"}
  PROVE  /\ [rec EXCEPT ![cur].status = Logged(s)] \in [Orders -> Records]
         /\ cur \in Orders /\ Executes => held' \in Nat
         /\ Traced => rec' \in [Orders -> Records]
<1>0. rec \in [Orders -> Records]
  BY DEF TypeOK, Records
<1>1. Logged(s) \in {"none", "pending", "unlogged", "filled", "rejected", "cancelled"}
  BY DEF Logged
<1>2. [rec EXCEPT ![cur].status = Logged(s)] \in [Orders -> Records]
  <2>1. CASE cur \in Orders
    <3>1. [rec[cur] EXCEPT !.status = Logged(s)] \in Records
      BY <1>0, <1>1, <2>1 DEF Records
    <3> QED
      BY <1>0, <3>1
  <2>2. CASE cur \notin Orders
    BY <1>0, <2>2
  <2> QED
    BY <2>1, <2>2
<1>3. ASSUME Traced PROVE rec' \in [Orders -> Records]
  <2>1. PICK f \in BOOLEAN : rec' = [rec EXCEPT ![cur].found = @ \/ f]
    BY <1>3 DEF Traced
  <2>2. CASE cur \in Orders
    <3>1. [rec[cur] EXCEPT !.found = @ \/ f] \in Records
      BY <1>0, <2>2 DEF Records
    <3> QED
      BY <1>0, <2>1, <3>1
  <2>3. CASE cur \notin Orders
    BY <1>0, <2>1, <2>3
  <2> QED
    BY <2>2, <2>3
<1>4. ASSUME cur \in Orders, Executes PROVE held' \in Nat
  BY <1>0, <1>4 DEF Executes, Records, TypeOK
<1> QED
  BY <1>2, <1>3, <1>4

\* An order that is on its way has been written.
Written == pc \in {"send", "record", "book"} => cur \in Orders

LEMMA FlatType == Flat \in Workers
<1>1. FALSE \in BOOLEAN /\ 0 \in Nat
  OBVIOUS
<1> QED
  BY <1>1 DEF Flat, Workers

LEMMA TypeInit == Init => TypeOK /\ Written
<1> SUFFICES ASSUME Init PROVE TypeOK /\ Written
  OBVIOUS
<1>1. rec \in [Orders -> Records]
  <2>1. NoOrder \in Records
    BY DEF NoOrder, Records, Intents, Buys
  <2> QED
    BY <2>1 DEF Init
<1>2. db \in Rows
  BY DEF Init, Rows
<1>3. mem \in Workers
  BY FlatType DEF Init
<1>4. cur \in 0..MaxOrders /\ tries \in 0..(MaxAttempts - 1) /\ held \in Nat
  BY BoundAssumption DEF Init
<1> QED
  BY <1>1, <1>2, <1>3, <1>4 DEF Init, TypeOK, Written, Records, Rows, Workers

LEMMA DecideType ==
  ASSUME TypeOK, NEW i \in Intents, Decide(i) PROVE TypeOK' /\ Written'
<1>1. cur + 1 \in Orders
  BY BoundAssumption DEF TypeOK, Decide, Orders
<1>2. rec' \in [Orders -> Records]
  <2>1. CASE UNCHANGED rec
    BY <2>1 DEF TypeOK, Records
  <2>2. ASSUME NEW s \in {"pending", "unlogged"},
               rec' = [rec EXCEPT ![cur + 1] = [status |-> s, intent |-> i, qty |-> Quantity(i), found |-> FALSE]]
        PROVE  rec' \in [Orders -> Records]
    <3>1. [status |-> s, intent |-> i, qty |-> Quantity(i), found |-> FALSE] \in Records
      BY QuantityType DEF Records, Decide
    <3> QED
      BY <1>1, <2>2, <3>1 DEF TypeOK, Records
  <2> QED
    BY <2>1, <2>2 DEF Decide
<1>3. mem' \in Workers
  BY FlatType DEF Decide, TypeOK, Workers
<1>5. cur' \in 0..MaxOrders /\ tries' \in 0..(MaxAttempts - 1)
  BY <1>1, BoundAssumption DEF Decide, TypeOK, Orders
<1>4. pc' \in {"send", "persist"} /\ (pc' = "send" => cur' \in Orders)
  BY <1>1 DEF Decide
<1> QED
  BY <1>2, <1>3, <1>4, <1>5 DEF Decide, TypeOK, Written, Records, Workers

LEMMA PostType ==
  ASSUME TypeOK, Written, PostAnswered \/ PostRefused \/ PostRetried \/ PostExhausted \/ PostGarbled
  PROVE  TypeOK' /\ Written'
<1>1. cur \in Orders /\ cur' = cur /\ up' = up /\ mem' = mem /\ db' = db
  BY DEF Written, PostAnswered, PostRefused, PostRetried, PostExhausted, PostGarbled
<1>2. rec' \in [Orders -> Records]
  BY CurrentOrder DEF PostAnswered, PostRefused, PostRetried, PostExhausted, PostGarbled, TypeOK, Records
<1>3. held' \in Nat
  BY <1>1, CurrentOrder DEF PostAnswered, PostRefused, PostRetried, PostExhausted, PostGarbled, TypeOK
<1>4. tries' \in 0..(MaxAttempts - 1)
  BY BoundAssumption DEF PostAnswered, PostRefused, PostRetried, PostExhausted, PostGarbled, TypeOK
<1>5. pc' \in {"send", "record", "failed"}
  BY DEF PostAnswered, PostRefused, PostRetried, PostExhausted, PostGarbled
<1> QED
  BY <1>1, <1>2, <1>3, <1>4, <1>5 DEF TypeOK, Written, Records

LEMMA FillType ==
  ASSUME TypeOK, Written, RecordFill \/ Book PROVE TypeOK' /\ Written'
<1>1. cur \in Orders /\ UNCHANGED <<cur, tries, held, up, db>>
  BY DEF Written, RecordFill, Book
<1>2. rec' \in [Orders -> Records]
  BY CurrentOrder DEF RecordFill, Book, TypeOK, Records
<1>3. mem' \in Workers
  <2>1. CASE RecordFill
    BY <2>1 DEF RecordFill, TypeOK, Workers
  <2>2. CASE Book
    <3>1. rec[cur].qty \in Nat /\ rec[cur].intent \in Intents
      BY <1>1, RecordType
    <3>2. mem.size \in Nat /\ mem.size - mem.size \div 2 \in Nat /\ mem \in Workers
      BY DEF TypeOK, Workers
    <3>3. CASE rec[cur].intent = "open"
      BY <2>2, <3>1, <3>3 DEF Book, Workers
    <3>4. CASE rec[cur].intent = "scale_in"
      BY <2>2, <3>1, <3>2, <3>4 DEF Book, Workers
    <3>5. CASE rec[cur].intent = "reduce"
      BY <2>2, <3>2, <3>5 DEF Book, Workers
    <3>6. CASE rec[cur].intent = "close"
      BY <2>2, <3>6 DEF Book, Workers, Flat
    <3> QED
      BY <3>1, <3>3, <3>4, <3>5, <3>6 DEF Intents, Buys
  <2> QED
    BY <2>1, <2>2
<1>4. pc' \in {"book", "idle", "persist"}
  BY DEF RecordFill, Book
<1> QED
  BY <1>1, <1>2, <1>3, <1>4 DEF TypeOK, Written, Records, Workers

LEMMA RecoverType ==
  ASSUME TypeOK, NEW o \in Orders, Recover(o) PROVE TypeOK' /\ Written'
<1>1. rec' \in [Orders -> Records]
  BY DEF Recover, TypeOK, Records
<1>2. db \in Rows /\ rec[o].qty \in Nat
  BY RecordType DEF TypeOK, Rows
<1>3. Applied(rec[o]) \in Rows
  <2>1. [db EXCEPT !.size = rec[o].qty, !.expects = db.known] \in Rows
    BY <1>2 DEF Rows
  <2>2. [db EXCEPT !.size = @ + rec[o].qty] \in Rows
    BY <1>2 DEF Rows
  <2>3. db.size > rec[o].qty => [db EXCEPT !.size = @ - rec[o].qty] \in Rows
    BY <1>2 DEF Rows
  <2>4. [db EXCEPT !.size = 0, !.expects = FALSE] \in Rows
    <3>1. [db EXCEPT !.size = 0] \in Rows
      BY <1>2 DEF Rows
    <3>2. [[db EXCEPT !.size = 0] EXCEPT !.expects = FALSE] \in Rows
      BY <3>1 DEF Rows
    <3> QED
      BY <1>2, <3>2 DEF Rows
  <2> QED
    BY <1>2, <2>1, <2>2, <2>3, <2>4 DEF Applied
<1>4. db' \in Rows /\ pc' = "idle"
  BY <1>2, <1>3 DEF Recover, Reconciling
<1> QED
  BY <1>1, <1>4 DEF Recover, TypeOK, Written, Records, Rows

LEMMA RowsType ==
  ASSUME TypeOK, Written, TickStart \/ Hold \/ OrderFailed \/ Persist \/ WorkerLost \/ ReconcilePair
  PROVE  TypeOK' /\ Written'
<1>1. UNCHANGED <<rec, cur, tries, held>>
  BY DEF TickStart, Hold, OrderFailed, Persist, WorkerLost, ReconcilePair
<1>2. db' \in Rows
  <2>1. db \in Rows /\ mem \in Workers
    BY DEF TypeOK, Rows, Workers
  <2>2. CASE Persist
    <3>1. [db EXCEPT !.size = 0, !.expects = @ /\ mem.expects] \in Rows
      BY <2>1 DEF Rows
    <3>2. [size |-> mem.size, expects |-> mem.expects, known |-> TRUE] \in Rows
      BY <2>1 DEF Rows, Workers
    <3> QED
      BY <2>1, <2>2, <3>1, <3>2 DEF Persist
  <2>3. CASE ReconcilePair
    <3>1. [db EXCEPT !.size = 0] \in Rows
      BY <2>1 DEF Rows
    <3>2. [[db EXCEPT !.size = 0] EXCEPT !.expects = FALSE] \in Rows
      BY <3>1 DEF Rows
    <3> QED
      BY <2>1, <2>3, <3>2 DEF ReconcilePair, Rows
  <2>4. CASE UNCHANGED db
    BY <2>1, <2>4
  <2> QED
    BY <2>2, <2>3, <2>4 DEF TickStart, Hold, OrderFailed, WorkerLost
<1>3. mem' \in Workers /\ up' \in BOOLEAN
  <2>1. mem \in Workers /\ up \in BOOLEAN /\ [size |-> db.size, expects |-> db.expects] \in Workers
    BY DEF TypeOK, Workers
  <2>2. mem' \in {mem, Flat, [size |-> db.size, expects |-> db.expects]}
    BY DEF TickStart, Hold, OrderFailed, Persist, WorkerLost, ReconcilePair
  <2>3. up' \in {up, TRUE, FALSE}
    BY DEF TickStart, Hold, OrderFailed, Persist, WorkerLost, ReconcilePair
  <2> QED
    BY FlatType, <2>1, <2>2, <2>3
<1>4. pc' \in {"decide", "persist", "idle"}
  BY DEF TickStart, Hold, OrderFailed, Persist, WorkerLost, ReconcilePair, Reconciling
<1> QED
  BY <1>1, <1>2, <1>3, <1>4 DEF TypeOK, Written, Rows, Workers

\* Records, rows and components keep their types, and no POST is tried more
\* than RetryConfig.max_attempts times, whatever goes wrong.
THEOREM TypeCorrect == Spec => []TypeOK
<1>1. ASSUME TypeOK, Written, [Next]_vars PROVE TypeOK' /\ Written'
  <2>1. CASE UNCHANGED vars
    BY <1>1, <2>1 DEF vars, TypeOK, Written
  <2>2. CASE Next
    BY <1>1, <2>2, DecideType, PostType, FillType, RecoverType, RowsType DEF Next, Tick
  <2> QED
    BY <1>1, <2>1, <2>2
<1> QED
  BY <1>1, TypeInit, PTL DEF Spec

-----------------------------------------------------------------------------
(* The rows and the pending order are the truth                            *)

Rest == OnlyLast /\ Fitting /\ Mirroring /\ Truth

LEMMA RestInit == Init /\ Faults \subseteq Withstood => Rest
<1> SUFFICES ASSUME Init, Faults \subseteq Withstood PROVE Rest
  OBVIOUS
<1>1. "new" \notin Faults
  BY DEF Withstood
<1>2. \A o \in Orders : rec[o].status = "none"
  BY DEF Init, NoOrder
<1>3. Pending = {}
  BY <1>2 DEF Pending
<1>4. OnlyLast
  BY <1>2 DEF OnlyLast
<1>5. db.known /\ ~db.expects /\ db.size = 0 /\ ~(db.size > 0)
  BY <1>1 DEF Init
<1> QED
  BY <1>3, <1>4, <1>5 DEF Init, Rest, Fitting, Mirroring, Truth, Sound

LEMMA StartRest ==
  ASSUME IInv, Faults \subseteq Withstood, TickStart PROVE Rest'
<1>1. Pending = {} /\ held = db.size
  BY DEF TickStart, Withstood, IInv, Truth, Sound
<1>2. UNCHANGED <<rec, cur, held, db>> /\ pc = "idle" /\ pc' = "decide" /\ up'
  BY DEF TickStart
<1>3. mem'.size = db.size /\ mem'.expects = db.expects
  BY <1>1 DEF TickStart, IInv, Mirroring, Mirrored
<1>4. (Pending = {})'
  BY <1>1, <1>2 DEF Pending
<1>5. OnlyLast'
  BY <1>2 DEF OnlyLast, IInv
<1> QED
  BY <1>1, <1>2, <1>3, <1>4, <1>5 DEF Rest, Fitting, Mirroring, Mirrored, Truth, Sound, IInv

LEMMA IdleRest ==
  ASSUME IInv, Hold \/ OrderFailed PROVE Rest'
<1>1. UNCHANGED <<rec, cur, held, db, mem, up>> /\ pc \in {"decide", "failed"} /\ pc' = "persist"
  BY DEF Hold, OrderFailed
<1>2. OnlyLast'
  BY <1>1 DEF OnlyLast, IInv
<1>3. (Pending' = Pending) /\ mem.size = db.size
  BY <1>1 DEF Pending, IInv, Mirroring, Mirrored
<1>4. Sound(mem.size)'
  BY <1>1, <1>3 DEF Sound, Truth, IInv
<1> QED
  BY <1>1, <1>2, <1>4 DEF Rest, Fitting, Mirroring, Truth, IInv

LEMMA DecideRest ==
  ASSUME IInv, Faults \subseteq Withstood, NEW i \in Intents, Decide(i) PROVE Rest'
<1> DEFINE r == [status |-> "pending", intent |-> i, qty |-> Quantity(i), found |-> FALSE]
<1>1. pc = "decide" /\ Pending = {} /\ Mirrored /\ held = db.size /\ mem.size \in Nat
  BY DEF Decide, IInv, Mirroring, Truth, Sound, TypeOK
<1>2. Quantity(i) \in Nat /\ Quantity(i) > 0 /\ Fits(r, mem.size)
  BY <1>1, QuantityFits DEF Decide, Mirrored
<1>3. /\ cur' = cur + 1 /\ pc' = "send" /\ UNCHANGED <<mem, held, up, db>>
      /\ rec' = [rec EXCEPT ![cur + 1] = r]
  <2>1. "unlogged" \notin Faults
    BY DEF Withstood
  <2>2. ~(Quantity(i) = 0)
    BY <1>2
  <2> QED
    BY <2>1, <2>2 DEF Decide
<1>4. cur + 1 \in Orders /\ rec'[cur + 1] = r
  BY <1>3, BoundAssumption DEF Decide, Orders, IInv, TypeOK
<1>5. \A o \in Orders : o # cur + 1 => rec'[o] = rec[o] /\ rec[o].status # "pending"
  BY <1>1, <1>3 DEF Pending, IInv, TypeOK
<1>6. OnlyLast'
  BY <1>3, <1>4, <1>5 DEF OnlyLast, IInv
<1>7. Sound(db.size)'
  <2>1. (Pending # {})'
    BY <1>4 DEF Pending
  <2> QED
    BY <1>1, <1>2, <1>3, <1>4, <2>1 DEF Sound, Mirrored
<1> QED
  BY <1>1, <1>3, <1>4, <1>6, <1>7 DEF Rest, Fitting, Mirroring, Mirrored, Truth, IInv

\* The record of the order on its way, and the others, which are not pending
LEMMA Sending ==
  ASSUME IInv, pc \in {"send", "record"}
  PROVE  /\ cur \in Orders /\ rec[cur].status = "pending" /\ Pending # {}
         /\ rec[cur] \in Records /\ Fits(rec[cur], db.size) /\ Mirrored
         /\ held = IF rec[cur].found THEN After(rec[cur], db.size) ELSE db.size
         /\ \A s : Logged(s) = s
         /\ db.size \in Nat
<1>1. cur \in Orders /\ rec[cur].status = "pending"
  BY DEF IInv, Truth
<1>2. Pending # {}
  BY <1>1 DEF Pending
<1> QED
  BY <1>1, <1>2, RecordType DEF IInv, Truth, Sound, Mirroring, Logged, TypeOK

LEMMA StatusRest ==
  ASSUME IInv, pc \in {"send", "record"}, NEW s \in {"filled", "rejected"},
         rec' = [rec EXCEPT ![cur].status = s], cur' = cur
  PROVE  OnlyLast' /\ (Pending = {})'
         /\ rec'[cur].intent = rec[cur].intent /\ rec'[cur].qty = rec[cur].qty
         /\ rec'[cur].found = rec[cur].found
<1>1. cur \in Orders /\ rec \in [Orders -> Records]
  BY Sending DEF IInv, TypeOK, Records
<1>2. rec'[cur] = [rec[cur] EXCEPT !.status = s] /\ \A o \in Orders \ {cur} : rec'[o] = rec[o]
  BY <1>1
<1>3. \A o \in Orders : rec'[o].status # "pending" /\ rec'[o].status # "unlogged"
  BY <1>1, <1>2 DEF Records, IInv, OnlyLast
<1> QED
  BY <1>1, <1>2, <1>3 DEF OnlyLast, Pending, Records

LEMMA TracedRest ==
  ASSUME IInv, Faults \subseteq Withstood, pc = "send", Executes, Traced, UNCHANGED <<cur, db>>
  PROVE  OnlyLast' /\ Sound(db.size)' /\ rec'[cur].status = "pending" /\ rec'[cur].found
<1>1. rec' = [rec EXCEPT ![cur].found = TRUE]
  <2>1. "slow" \notin Faults
    BY DEF Withstood
  <2>2. PICK f \in {TRUE, tries = 0 \/ "slow" \notin Faults} : rec' = [rec EXCEPT ![cur].found = @ \/ f]
    BY DEF Traced
  <2>3. f = TRUE
    BY <2>1
  <2> QED
    BY <2>2, <2>3
<1>2. cur \in Orders /\ rec \in [Orders -> Records] /\ ~rec[cur].found
  BY Sending DEF IInv, TypeOK, Records, Truth
<1>3. rec'[cur] = [rec[cur] EXCEPT !.found = TRUE] /\ \A o \in Orders \ {cur} : rec'[o] = rec[o]
  BY <1>1, <1>2
<1>4. /\ rec'[cur].status = "pending" /\ rec'[cur].found = TRUE
      /\ rec'[cur].intent = rec[cur].intent /\ rec'[cur].qty = rec[cur].qty
  BY <1>2, <1>3, Sending DEF Records
<1>5. OnlyLast'
  BY <1>2, <1>3, <1>4 DEF OnlyLast, IInv
<1>6. held' = After(rec[cur], db.size)
  BY <1>2, Sending DEF Executes, After
<1>7. (Pending # {})'
  BY <1>2, <1>4 DEF Pending
<1>8. Fits(rec[cur], db.size)' /\ After(rec[cur], db.size)' = After(rec[cur], db.size)
  BY <1>4, Sending DEF Fits, After
<1> QED
  BY <1>2, <1>4, <1>5, <1>6, <1>7, <1>8 DEF Sound

LEMMA PostRest ==
  ASSUME IInv, Faults \subseteq Withstood,
         PostAnswered \/ PostRefused \/ PostRetried \/ PostExhausted \/ PostGarbled
  PROVE  Rest'
<1>0. pc = "send" /\ UNCHANGED <<cur, up, mem, db>> /\ "timeout" \notin Faults
  BY DEF PostAnswered, PostRefused, PostRetried, PostExhausted, PostGarbled, Withstood
<1>1. cur \in Orders /\ ~rec[cur].found /\ held = db.size /\ Mirrored /\ Fitting /\ up
  BY <1>0, Sending DEF IInv, Truth, Fitting
<1>2. CASE PostAnswered \/ (PostGarbled /\ Executes /\ Traced)
  <2>1. OnlyLast' /\ Sound(db.size)' /\ rec'[cur].status = "pending" /\ rec'[cur].found
    BY <1>0, <1>2, TracedRest DEF PostAnswered
  <2>2. pc' \in {"record", "failed"}
    BY <1>2 DEF PostAnswered, PostGarbled
  <2> QED
    BY <1>0, <1>1, <2>1, <2>2 DEF Rest, Fitting, Mirroring, Mirrored, Truth
<1>3. CASE PostRefused \/ PostExhausted
  <2>1. rec' = [rec EXCEPT ![cur].status = "rejected"] /\ held' = held /\ pc' = "failed"
    BY <1>0, <1>3, Sending DEF PostRefused, PostExhausted
  <2>2. OnlyLast' /\ (Pending = {})'
    BY <1>0, <2>1, StatusRest
  <2> QED
    BY <1>0, <1>1, <2>1, <2>2 DEF Rest, Fitting, Mirroring, Mirrored, Truth, Sound
<1>4. CASE PostRetried \/ (PostGarbled /\ UNCHANGED <<rec, held>>)
  <2>1. UNCHANGED <<rec, held>> /\ pc' \in {"send", "failed"}
    BY <1>0, <1>4 DEF PostRetried, PostGarbled
  <2>2. OnlyLast' /\ (Pending' = Pending)
    BY <1>0, <2>1 DEF OnlyLast, Pending, IInv
  <2>3. Sound(db.size)'
    BY <1>0, <2>1, <2>2 DEF IInv, Truth, Sound
  <2> QED
    BY <1>0, <1>1, <2>1, <2>2, <2>3, Sending DEF Rest, Fitting, Mirroring, Mirrored, Truth
<1> QED
  BY <1>2, <1>3, <1>4 DEF PostGarbled

LEMMA FillRest ==
  ASSUME IInv, RecordFill PROVE Rest'
<1>0. pc = "record" /\ UNCHANGED <<cur, held, up, db>>
  BY DEF RecordFill
<1>1. /\ cur \in Orders /\ rec[cur].found /\ held = After(rec[cur], db.size)
      /\ Mirrored /\ Fitting /\ up
  BY <1>0, Sending DEF IInv, Truth, Fitting
<1>2. CASE pc' = "book"
  <2>1. rec' = [rec EXCEPT ![cur].status = "filled"] /\ mem' = mem
    BY <1>0, <1>2, Sending DEF RecordFill
  <2>2. OnlyLast' /\ (Pending = {})' /\ rec'[cur].intent = rec[cur].intent /\ rec'[cur].qty = rec[cur].qty
    BY <1>0, <2>1, StatusRest
  <2>3. Fits(rec[cur], mem.size)' /\ held' = After(rec[cur], mem.size)'
    BY <1>0, <1>1, <2>1, <2>2, Sending DEF Fits, After, Mirrored
  <2> QED
    BY <1>0, <1>1, <1>2, <2>1, <2>2, <2>3 DEF Rest, Fitting, Mirroring, Mirrored, Truth
<1>3. CASE pc' = "idle"
  <2>1. rec' = rec
    BY <1>3 DEF RecordFill
  <2>2. OnlyLast' /\ Pending' = Pending
    BY <1>0, <2>1 DEF OnlyLast, Pending, IInv
  <2>3. Sound(db.size)'
    BY <1>0, <2>1, <2>2 DEF IInv, Truth, Sound
  <2> QED
    BY <1>0, <1>1, <1>3, <2>2, <2>3, Sending DEF Rest, Fitting, Mirroring, Truth
<1> QED
  BY <1>2, <1>3 DEF RecordFill

LEMMA BookRest ==
  ASSUME IInv, Book PROVE Rest'
<1>1. /\ pc = "book" /\ pc' = "persist" /\ UNCHANGED <<rec, cur, held, up, db>>
      /\ Pending = {} /\ cur \in Orders /\ Fits(rec[cur], mem.size)
      /\ held = After(rec[cur], mem.size) /\ Mirrored /\ Fitting /\ up
  BY DEF Book, IInv, Truth, Mirroring, Fitting
<1>2. rec[cur] \in Records /\ mem \in Workers /\ held \in Nat
  BY <1>1, RecordType DEF IInv, TypeOK, Workers
<1>3. mem'.size = held /\ (mem'.expects <=> mem'.size > 0)
  <2>1. CASE rec[cur].intent = "open"
    BY <1>1, <1>2, <2>1 DEF Book, Fits, After, Buys, Records
  <2>2. CASE rec[cur].intent = "scale_in"
    <3>1. mem.size > 0 /\ mem.expects /\ rec[cur].qty \in Nat /\ mem.size \in Nat
      BY <1>1, <1>2, <2>2 DEF Fits, Fitting, Records, Workers
    <3>2. mem' = [mem EXCEPT !.size = @ + rec[cur].qty]
      BY <2>2 DEF Book
    <3>3. held = mem.size + rec[cur].qty
      BY <1>1, <2>2 DEF After, Buys
    <3> QED
      BY <1>2, <3>1, <3>2, <3>3 DEF Workers
  <2>3. CASE rec[cur].intent = "reduce"
    <3>1. mem.size > 1 /\ mem.expects /\ mem.size \in Nat /\ rec[cur].qty = mem.size \div 2
      BY <1>1, <1>2, <2>3 DEF Fits, Fitting, Workers
    <3>2. mem' = [mem EXCEPT !.size = @ - @ \div 2]
      BY <2>3 DEF Book
    <3>3. held = mem.size - mem.size \div 2 /\ held > 0
      BY <1>1, <2>3, <3>1 DEF After, Buys
    <3> QED
      BY <1>2, <3>1, <3>2, <3>3 DEF Workers
  <2>4. CASE rec[cur].intent = "close"
    <3>1. mem' = Flat
      BY <2>4 DEF Book
    <3>2. held = 0
      BY <1>1, <1>2, <2>4 DEF After, Fits, Buys, Records
    <3>3. Flat.size = 0 /\ ~Flat.expects /\ ~(0 > 0)
      BY DEF Flat
    <3> QED
      BY <3>1, <3>2, <3>3, Zenon
  <2> QED
    BY <1>2, <2>1, <2>2, <2>3, <2>4 DEF Records, Intents, Buys
<1>4. OnlyLast' /\ (Pending = {})'
  BY <1>1 DEF OnlyLast, Pending, IInv
<1> QED
  BY <1>1, <1>3, <1>4 DEF Rest, Fitting, Mirroring, Truth, Sound

LEMMA PersistRest ==
  ASSUME IInv, Faults \subseteq Withstood, Persist PROVE Rest'
<1>1. /\ pc = "persist" /\ pc' = "idle" /\ UNCHANGED <<rec, cur, held, up, mem>>
      /\ db' = [size |-> mem.size, expects |-> mem.expects, known |-> TRUE]
  BY DEF Persist, Withstood
<1>2. OnlyLast' /\ Pending' = Pending
  BY <1>1 DEF OnlyLast, Pending, IInv
<1>3. db'.size = mem.size /\ db'.expects = mem.expects /\ db'.known
  BY <1>1
<1>4. Sound(db.size)'
  BY <1>1, <1>2, <1>3 DEF IInv, Truth, Sound
<1> QED
  BY <1>1, <1>2, <1>3, <1>4 DEF IInv, Rest, Fitting, Mirroring, Mirrored, Truth

LEMMA LostRest ==
  ASSUME IInv, Faults \subseteq Withstood, WorkerLost PROVE Rest'
<1>1. pc \notin {"book", "persist"} /\ pc' = "idle" /\ ~up' /\ UNCHANGED <<rec, cur, held, db>>
  BY DEF WorkerLost, Withstood
<1>2. OnlyLast' /\ Pending' = Pending
  BY <1>1 DEF OnlyLast, Pending, IInv
<1>3. pc \in {"idle", "decide", "send", "record", "failed"}
  BY <1>1 DEF IInv, TypeOK
<1>4. Sound(db.size)'
  BY <1>1, <1>2, <1>3 DEF IInv, Truth, Sound
<1> QED
  BY <1>1, <1>2, <1>4 DEF IInv, Rest, Fitting, Mirroring, Truth

\* Check A finds nothing to repair: position and state agree.
LEMMA PairRest ==
  ASSUME IInv, Faults \subseteq Withstood, ReconcilePair PROVE Rest'
<1>1. pc = "idle" /\ pc' = "idle" /\ ~up /\ ~up' /\ UNCHANGED <<rec, cur, held, mem>>
  BY DEF ReconcilePair, Reconciling, Withstood
<1>2. OnlyLast' /\ Pending' = Pending
  BY <1>1 DEF OnlyLast, Pending, IInv
<1>3. db \in Rows /\ db.known /\ (db.expects <=> db.size > 0) /\ Sound(db.size)
  BY <1>1 DEF IInv, TypeOK, Rows, Fitting, Truth
<1>4. db'.size = db.size /\ db'.known /\ (db'.expects <=> db'.size > 0)
  <2>1. CASE db.expects /\ db.size > 0
    BY <1>3, <2>1 DEF ReconcilePair
  <2>2. CASE ~db.expects /\ db.size = 0
    <3>1. db' = [db EXCEPT !.size = 0, !.expects = FALSE]
      BY <2>2 DEF ReconcilePair
    <3>2. db'.size = 0 /\ ~db'.expects /\ db'.known = db.known
      BY <1>3, <3>1 DEF Rows
    <3>3. ~(0 > 0)
      OBVIOUS
    <3> QED
      BY <1>3, <2>2, <3>2, <3>3, Zenon
  <2> QED
    BY <1>3, <2>1, <2>2 DEF Rows
<1>5. Sound(db.size)'
  BY <1>1, <1>2, <1>3, <1>4 DEF Sound
<1> QED
  BY <1>1, <1>2, <1>4, <1>5 DEF Rest, Fitting, Mirroring, Truth

LEMMA RecoverRest ==
  ASSUME IInv, Faults \subseteq Withstood, NEW o \in Orders, Recover(o) PROVE Rest'
<1>1. /\ pc = "idle" /\ pc' = "idle" /\ ~up /\ ~up' /\ UNCHANGED <<cur, held, mem>>
      /\ rec[o].status = "pending"
  BY DEF Recover, Reconciling, Withstood
<1>2. o = cur /\ rec[cur] \in Records /\ Pending # {}
  BY <1>1, RecordType DEF IInv, OnlyLast, Pending
<1>3. /\ Fits(rec[cur], db.size) /\ db \in Rows /\ db.known /\ (db.expects <=> db.size > 0)
      /\ held = IF rec[cur].found THEN After(rec[cur], db.size) ELSE db.size
  BY <1>1, <1>2 DEF IInv, Truth, Sound, TypeOK, Rows, Fitting
<1>4. db'.size = held /\ db'.known /\ (db'.expects <=> db'.size > 0)
  BY <1>2, <1>3, AppliedIsAfter DEF Recover, Rows
<1>5. OnlyLast' /\ (Pending = {})'
  <2>1. PICK s \in {"filled", "cancelled"} : rec' = [rec EXCEPT ![o].status = s]
    BY DEF Recover
  <2>2. rec \in [Orders -> Records]
    BY DEF IInv, TypeOK, Records
  <2>3. rec'[o].status = s /\ \A q \in Orders \ {o} : rec'[q] = rec[q]
    BY <2>1, <2>2 DEF Records
  <2>4. \A q \in Orders : rec'[q].status # "pending" /\ rec'[q].status # "unlogged"
    BY <1>2, <2>3 DEF IInv, OnlyLast
  <2> QED
    BY <2>4 DEF OnlyLast, Pending
<1> QED
  BY <1>1, <1>4, <1>5 DEF Rest, Fitting, Mirroring, Truth, Sound

-----------------------------------------------------------------------------

LEMMA Inductive == Faults \subseteq Withstood => (Spec => []IInv)
<1> SUFFICES ASSUME Faults \subseteq Withstood PROVE Spec => []IInv
  OBVIOUS
<1>1. Init => IInv
  BY TypeInit, RestInit DEF IInv, Rest
<1>2. ASSUME IInv, [Next]_vars PROVE IInv'
  <2>1. Written
    <3>1. pc = "book" => cur \in Orders
      BY <1>2 DEF IInv, Truth
    <3> QED
      BY <1>2, <3>1, Sending DEF Written
  <2>2. CASE UNCHANGED vars
    BY <1>2, <2>2 DEF vars, IInv, TypeOK, OnlyLast, Fitting, Mirroring, Mirrored, Truth, Sound,
                      Pending, Fits, After
  <2>3. ASSUME Next PROVE TypeOK'
    BY <1>2, <2>1, <2>3, DecideType, PostType, FillType, RecoverType, RowsType DEF Next, Tick, IInv
  <2>4. ASSUME Next PROVE Rest'
    BY <1>2, <2>4, StartRest, IdleRest, DecideRest, PostRest, FillRest, BookRest, PersistRest,
       LostRest, PairRest, RecoverRest DEF Next, Tick
  <2> QED
    BY <1>2, <2>2, <2>3, <2>4 DEF IInv, Rest
<1> QED
  BY <1>1, <1>2, PTL DEF Spec

\* Garbled answers, lost connections, failing record updates and workers that
\* die up to the recorded fill leave the rows with what the orders really did,
\* once none is pending (_recover_pending_orders_without_id, _apply_fill_recovery).
THEOREM RowsAreTheTruth == Faults \subseteq Withstood => (Spec => []Settled)
<1>1. IInv => Settled
  BY DEF IInv, Truth, Sound, Settled
<1> QED
  BY <1>1, Inductive, PTL

\* Under the same faults no tick decides on a position other than the one held.
THEOREM DecidesOnTheTruth == Faults \subseteq Withstood => (Spec => []ActsOnHoldings)
<1>1. IInv => ActsOnHoldings
  BY DEF IInv, Truth, Sound, Mirroring, Mirrored, ActsOnHoldings
<1> QED
  BY <1>1, Inductive, PTL
=============================================================================
