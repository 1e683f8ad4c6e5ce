-------------------------- MODULE StopLedger_proofs --------------------------
(***************************************************************************)
(* The ledger keeps its types, and no order is ever accounted for twice,   *)
(* for any number of strategies, orders, records and faults.               *)
(*                                                                         *)
(* Two writers give an order a record: the placement, which knows its own, *)
(* and the sync, which takes what it does not know.  The match of records  *)
(* without an id must not take what the sync took first.                   *)
(***************************************************************************)
EXTENDS StopLedger, TLAPS

Entries == [status : Statuses, id : Ids \cup {NoId}, sent : Ids \cup {NoId},
            by : Strategies \cup {Orphan}, age : 0..LostAge]
Orders == [Ids -> {"none", "NEW", "FILLED", "CANCELED"}]
Ledgers == [Records -> Entries]

\* The id of a record is the order it was sent for, which exists, and two
\* placements sent two orders.
Honest(recs, ords) ==
    /\ \A r \in Records : /\ recs[r].id # NoId => recs[r].id = recs[r].sent
                          /\ recs[r].sent # NoId => ords[recs[r].sent] # "none"
    /\ \A r, q \in Records : r # q /\ recs[r].by # Orphan /\ recs[q].by # Orphan /\ recs[r].sent # NoId
                                => recs[r].sent # recs[q].sent

Single(recs) == \A r, q \in Records : r # q /\ recs[r].id # NoId => recs[r].id # recs[q].id

Holdings == [open : BOOLEAN, stop : Ids \cup {NoId, TriggerNow}]
Fine(b) == b \in Holdings /\ (~b.open => b.stop = NoId)

IInv == TypeOK /\ Honest(record, order) /\ Single(record)

\* What every way of ending an order or a record leaves alone.
SameLinks(recs, later) ==
    \A r \in Records : /\ later[r].id = recs[r].id /\ later[r].sent = recs[r].sent
                       /\ later[r].by = recs[r].by
StillThere(ords, later) == \A o \in Ids : ords[o] # "none" => later[o] # "none"

OrphansNamed(recs) == \A r \in Records : recs[r].by = Orphan /\ recs[r].status # "none" => recs[r].id # NoId

-----------------------------------------------------------------------------

LEMMA IdFacts == NoId \notin Ids /\ TriggerNow \notin Ids /\ NoId # TriggerNow
  BY BoundAssumption DEF NoId, Ids, TriggerNow

LEMMA LinksKept ==
  ASSUME NEW recs, NEW ords, NEW recs2, NEW ords2, recs \in Ledgers, ords \in Orders,
         Honest(recs, ords), Single(recs), SameLinks(recs, recs2), StillThere(ords, ords2)
  PROVE  Honest(recs2, ords2) /\ Single(recs2)
<1>1. \A r \in Records : recs[r].sent \in Ids \cup {NoId}
  BY DEF Ledgers, Entries
<1> QED
  BY <1>1 DEF Honest, Single, SameLinks, StillThere

\* A record whose status has moved on, from a record that exists if it is an
\* orphan's.
Later(entry, next) ==
    \/ next = entry
    \/ /\ entry.by = Orphan => entry.status # "none"
       /\ \E t \in Statuses : next = [entry EXCEPT !.status = t]

LEMMA StatusLinks ==
  ASSUME NEW recs \in Ledgers, OrphansNamed(recs), NEW next,
         next = [r \in Records |-> next[r]], \A r \in Records : Later(recs[r], next[r])
  PROVE  next \in Ledgers /\ SameLinks(recs, next) /\ OrphansNamed(next)
<1>1. ASSUME NEW r \in Records
      PROVE  /\ next[r] \in Entries /\ next[r].id = recs[r].id /\ next[r].sent = recs[r].sent
             /\ next[r].by = recs[r].by
             /\ next[r].by = Orphan /\ next[r].status # "none" => recs[r].status # "none"
  <2>1. recs[r] \in Entries
    BY DEF Ledgers
  <2>2. CASE next[r] = recs[r]
    BY <2>1, <2>2
  <2>3. CASE next[r] # recs[r]
    <3>1. PICK t \in Statuses : next[r] = [recs[r] EXCEPT !.status = t]
      BY <2>3 DEF Later
    <3>2. recs[r].by = Orphan => recs[r].status # "none"
      BY <2>3 DEF Later
    <3> QED
      BY <2>1, <3>1, <3>2 DEF Entries
  <2> QED
    BY <2>2, <2>3
<1>2. next \in Ledgers
  BY <1>1 DEF Ledgers
<1>3. SameLinks(recs, next) /\ OrphansNamed(next)
  BY <1>1 DEF SameLinks, OrphansNamed
<1> QED
  BY <1>2, <1>3

LEMMA SupersededFacts ==
  ASSUME NEW recs \in Ledgers, OrphansNamed(recs)
  PROVE  Superseded(recs) \in Ledgers /\ SameLinks(recs, Superseded(recs)) /\ OrphansNamed(Superseded(recs))
<1> DEFINE next == Superseded(recs)
<1>1. next = [r \in Records |-> next[r]]
  BY DEF Superseded
<1>2. \A r \in Records : Later(recs[r], next[r])
  BY DEF Superseded, Later, Statuses
<1> HIDE DEF next
<1>3. next \in Ledgers /\ SameLinks(recs, next) /\ OrphansNamed(next)
  BY <1>1, <1>2, StatusLinks
<1> QED
  BY <1>3 DEF next

LEMMA UnlistedFacts ==
  ASSUME record \in Ledgers, OrphansNamed(record), NEW o
  PROVE  Unlisted(o) \in Ledgers /\ SameLinks(record, Unlisted(o)) /\ OrphansNamed(Unlisted(o))
<1> DEFINE next == Unlisted(o)
<1>1. next = [r \in Records |-> next[r]]
  BY DEF Unlisted
<1>2. \A r \in Records : Later(record[r], next[r])
  BY DEF Unlisted, Later, Statuses
<1> HIDE DEF next
<1>3. next \in Ledgers /\ SameLinks(record, next) /\ OrphansNamed(next)
  BY <1>1, <1>2, StatusLinks
<1> QED
  BY <1>3 DEF next

LEMMA CancelledFacts ==
  ASSUME order \in Orders, NEW o
  PROVE  /\ Cancelled(o) \in Orders /\ StillThere(order, Cancelled(o))
         /\ \A u \in Free : Cancelled(o)[u] = "none"
  BY DEF Cancelled, Live, Orders, StillThere, Free

-----------------------------------------------------------------------------
(* Placements                                                              *)

\* What a placement must leave
Sane(ords, recs) ==
    ords \in Orders /\ recs \in Ledgers /\ OrphansNamed(recs) /\ Honest(recs, ords) /\ Single(recs)

\* A record written for an order that did not exist before, or for none.
LEMMA WrittenSane ==
  ASSUME NEW ords, NEW recs, Sane(ords, recs), NEW r \in Records, NEW s \in Strategies,
         NEW status \in Statuses, NEW o \in Ids \cup {NoId}, o \in Ids => ords[o] = "none",
         NEW id \in {NoId, o}, NEW ords2 \in Orders, StillThere(ords, ords2),
         o \in Ids => ords2[o] # "none"
  PROVE  Sane(ords2, Written(recs, r, s, status, id, o))
<1> DEFINE sup == Superseded(recs)
           entry == [status |-> status, id |-> id, sent |-> o, by |-> s, age |-> 0]
           next == [sup EXCEPT ![r] = entry]
<1>1. sup \in Ledgers /\ OrphansNamed(sup) /\ Honest(sup, ords) /\ Single(sup)
  <2>1. sup \in Ledgers /\ SameLinks(recs, sup) /\ OrphansNamed(sup)
    BY SupersededFacts DEF Sane
  <2>2. StillThere(ords, ords)
    BY DEF StillThere
  <2> QED
    BY <2>1, <2>2, LinksKept DEF Sane
<1>2. Written(recs, r, s, status, id, o) = next
  BY DEF Written
<1>3. entry \in Entries /\ entry.by # Orphan /\ entry.id = id /\ entry.sent = o
  BY AgeAssumption, OrphanAssumption DEF Entries, Orphan
<1> HIDE DEF sup, entry
<1>4. next \in Ledgers /\ next[r] = entry /\ \A q \in Records : q # r => next[q] = sup[q]
  BY <1>1, <1>3 DEF Ledgers
<1> HIDE DEF next
<1>5. OrphansNamed(next)
  BY <1>1, <1>3, <1>4 DEF OrphansNamed
<1>6. \A q \in Records : sup[q].sent \in Ids \cup {NoId} /\ sup[q].id \in Ids \cup {NoId}
  BY <1>1 DEF Ledgers, Entries
<1>7. \A q \in Records : o \in Ids => sup[q].sent # o /\ sup[q].id # o
  BY <1>1, <1>6, IdFacts DEF Honest
<1>8. Honest(next, ords2)
  <2>1. ASSUME NEW q \in Records
        PROVE  /\ next[q].id # NoId => next[q].id = next[q].sent
               /\ next[q].sent # NoId => ords2[next[q].sent] # "none"
    <3>1. CASE q = r
      BY <1>3, <1>4, <3>1
    <3>2. CASE q # r
      BY <1>1, <1>4, <1>6, <3>2 DEF Honest, StillThere
    <3> QED
      BY <3>1, <3>2
  <2>2. ASSUME NEW q \in Records, NEW u \in Records, q # u, next[q].by # Orphan, next[u].by # Orphan,
               next[q].sent # NoId
        PROVE  next[q].sent # next[u].sent
    BY <1>1, <1>3, <1>4, <1>7, <2>2 DEF Honest
  <2> QED
    BY <2>1, <2>2 DEF Honest
<1>9. Single(next)
  BY <1>1, <1>3, <1>4, <1>7 DEF Single
<1> QED
  BY <1>2, <1>4, <1>5, <1>8, <1>9 DEF Sane

\* A placement leaves ledger and orders sane, and its answer is an answer.
LEMMA AnswerSane ==
  ASSUME NEW ords, NEW recs, Sane(ords, recs), NEW r \in Records, NEW s \in Strategies,
         NEW o \in Ids, ords[o] = "none",
         NEW p \in Answers(ords, recs, r, o, s) \cup FaultyAnswers(ords, recs, r, o, s)
  PROVE  Sane(p.order, p.record) /\ p.id \in Answered
<1> DEFINE placed == [ords EXCEPT ![o] = "NEW"]
<1>1. placed \in Orders /\ StillThere(ords, placed) /\ placed[o] # "none"
  BY DEF Sane, Orders, StillThere
<1>2. ords \in Orders /\ StillThere(ords, ords)
  BY DEF Sane, StillThere
<1> HIDE DEF placed
<1>3. /\ Sane(placed, Written(recs, r, s, "new", o, o))
      /\ Sane(placed, Written(recs, r, s, "rejected", NoId, o))
      /\ Sane(placed, Written(recs, r, s, "pending", NoId, o))
  BY <1>1, WrittenSane DEF Statuses
<1>4. /\ Sane(ords, Written(recs, r, s, "rejected", NoId, NoId))
      /\ Sane(ords, Written(recs, r, s, "pending", NoId, NoId))
  BY <1>2, WrittenSane, IdFacts DEF Statuses
<1>5. Sane(placed, Superseded(recs))
  BY <1>1, SupersededFacts, LinksKept DEF Sane
<1>6. CASE \/ p \in {Accepted(ords, recs, r, o, s), Unheard(ords, recs, r, o, s), Garbled(ords, recs, r, o, s)}
           \/ p \in {Died(Accepted(ords, recs, r, o, s)), Died(Garbled(ords, recs, r, o, s))}
  <2>1. PICK q \in {Accepted(ords, recs, r, o, s), Unheard(ords, recs, r, o, s), Garbled(ords, recs, r, o, s)} :
          p = q \/ p = Died(q)
    BY <1>6
  <2>2. /\ q.order = placed /\ q.id \in {o, NoId}
        /\ \/ q.record = Written(recs, r, s, "new", o, o)
           \/ q.record = Written(recs, r, s, "rejected", NoId, o)
           \/ q.record = Written(recs, r, s, "pending", NoId, o)
    BY DEF Accepted, Unheard, Garbled, placed
  <2>3. q = [order |-> q.order, record |-> q.record, id |-> q.id, done |-> TRUE]
    BY DEF Accepted, Unheard, Garbled
  <2>4. p.order = q.order /\ p.record = q.record /\ p.id = q.id
    BY <2>1, <2>3 DEF Died
  <2> QED
    BY <1>3, <2>2, <2>4 DEF Answered
<1>7. CASE p \in {Refused(ords, recs, r, NoId, s), Refused(ords, recs, r, TriggerNow, s), Unsent(ords, recs, r, s)}
  <2>1. /\ p.order = ords /\ p.id \in {NoId, TriggerNow}
        /\ \/ p.record = Written(recs, r, s, "rejected", NoId, NoId)
           \/ p.record = Written(recs, r, s, "pending", NoId, NoId)
    BY <1>7 DEF Refused, Unsent
  <2> QED
    BY <1>4, <2>1 DEF Answered
<1>8. CASE p = Unlogged(ords, recs, o)
  BY <1>5, <1>8 DEF Unlogged, Answered, placed
<1> QED
  BY <1>6, <1>7, <1>8 DEF Answers, FaultyAnswers

LEMMA FaultRange == ASSUME faults \in 0..MaxFaults, Fault \/ NoFault PROVE faults' \in 0..MaxFaults
  BY BoundAssumption DEF Fault, NoFault

LEMMA TypeParts ==
  TypeOK <=> /\ market \in {"spot", "futures"} /\ order \in Orders
             /\ record \in Ledgers /\ OrphansNamed(record)
             /\ book \in [Strategies -> Holdings] /\ \A s \in Strategies : Fine(book[s])
             /\ phase \in {"idle", "byId", "withoutId", "sync", "check", "sweep"}
             /\ faults \in 0..MaxFaults
<1>1. book \in [Strategies -> Holdings] => \A s \in Strategies : book[s] \in Holdings
  OBVIOUS
<1> QED
  BY <1>1 DEF TypeOK, Orders, Ledgers, Entries, OrphansNamed, Fine, Holdings

LEMMA BookFine ==
  ASSUME TypeOK, NEW s \in Strategies, NEW b, Fine(b), book' = [book EXCEPT ![s] = b]
  PROVE  book' \in [Strategies -> Holdings] /\ \A q \in Strategies : Fine(book'[q])
  BY TypeParts DEF Fine

LEMMA StoredFine ==
  ASSUME NEW kept \in Answered, NEW id \in Answered, NEW b \in Stored(kept)[id]
  PROVE  Fine(b)
<1>1. b = [open |-> TRUE, stop |-> IF id = NoId THEN kept ELSE id]
  BY DEF Stored
<1>2. (IF id = NoId THEN kept ELSE id) \in Answered
  OBVIOUS
<1> QED
  BY <1>1, <1>2 DEF Fine, Holdings, Answered

LEMMA ForcedFine ==
  ASSUME NEW kept \in Answered, NEW id \in Answered, NEW b \in Forced(kept)[id]
  PROVE  Fine(b)
<1>1. \/ b = [open |-> FALSE, stop |-> NoId]
      \/ \E k \in {kept, id} : b = [open |-> TRUE, stop |-> k]
  BY DEF Forced
<1>2. CASE b = [open |-> FALSE, stop |-> NoId]
  BY <1>2 DEF Fine, Holdings
<1>3. ASSUME NEW k \in {kept, id}, b = [open |-> TRUE, stop |-> k] PROVE Fine(b)
  BY <1>3 DEF Fine, Holdings, Answered
<1> QED
  BY <1>1, <1>2, <1>3

\* Every placement, from orders and records of which it may have ended some.
LEMMA PlaceStep ==
  ASSUME IInv, NEW ords, NEW recs, Sane(ords, recs), \A o \in Free : ords[o] = "none",
         NEW s \in Strategies, NEW pair, \A id \in Answered : \A b \in pair[id] : Fine(b),
         Place(ords, recs, s, pair), Quiet
  PROVE  IInv'
<1> DEFINE Step(p) ==
             /\ Fault \/ NoFault
             /\ order' = p.order /\ record' = p.record
             /\ IF p.done THEN \E b \in pair[p.id] : book' = [book EXCEPT ![s] = b] ELSE UNCHANGED book
<1>0. PICK r \in Blank, o \in Free :
        \E p \in Answers(ords, recs, r, o, s) \cup FaultyAnswers(ords, recs, r, o, s) : Step(p)
  BY DEF Place
<1>1. PICK p \in Answers(ords, recs, r, o, s) \cup FaultyAnswers(ords, recs, r, o, s) : Step(p)
  BY <1>0
<1>2. r \in Records /\ o \in Ids /\ ords[o] = "none"
  BY DEF Blank, Free
<1>3. Sane(order', record') /\ p.id \in Answered
  BY <1>1, <1>2, AnswerSane
<1>4. book' \in [Strategies -> Holdings] /\ \A q \in Strategies : Fine(book'[q])
  <2>1. CASE \E b \in pair[p.id] : book' = [book EXCEPT ![s] = b]
    BY <1>3, <2>1, BookFine DEF IInv
  <2>2. CASE book' = book
    BY <2>2, TypeParts DEF IInv
  <2> QED
    BY <1>1, <2>1, <2>2
<1>5. faults' \in 0..MaxFaults
  BY <1>1, FaultRange, TypeParts DEF IInv
<1>6. TypeOK'
  <2>1. market' = market /\ phase' = phase
    BY DEF Quiet
  <2> QED
    BY <1>3, <1>4, <1>5, <2>1, TypeParts DEF IInv, TypeOK, Sane, Orders, Ledgers, Entries, OrphansNamed, Fine, Holdings
<1> QED
  BY <1>3, <1>6 DEF IInv, Sane

-----------------------------------------------------------------------------
(* Ticks                                                                   *)

LEMMA NowSane == ASSUME IInv PROVE Sane(order, record) /\ \A o \in Free : order[o] = "none"
  BY TypeParts DEF IInv, Sane, Free

LEMMA CancelledSane ==
  ASSUME IInv, NEW o
  PROVE  Sane(Cancelled(o), Unlisted(o)) /\ \A u \in Free : Cancelled(o)[u] = "none"
<1>1. order \in Orders /\ record \in Ledgers /\ OrphansNamed(record)
  BY TypeParts DEF IInv
<1>2. Honest(Unlisted(o), Cancelled(o)) /\ Single(Unlisted(o))
  BY <1>1, UnlistedFacts, CancelledFacts, LinksKept DEF IInv
<1> QED
  BY <1>1, <1>2, UnlistedFacts, CancelledFacts DEF Sane

LEMMA TickInductive == ASSUME IInv, NEW s \in Strategies, Tick(s) PROVE IInv'
<1>1. NoId \in Answered /\ book[s].stop \in Answered
  BY TypeParts DEF IInv, Answered, Fine, Holdings
<1>2. CASE OpenWithStop(s) \/ Protect(s)
  BY <1>1, <1>2, NowSane, PlaceStep, StoredFine, ForcedFine DEF OpenWithStop, Protect
<1>3. CASE MoveStop(s)
  BY <1>1, <1>3, CancelledSane, PlaceStep, ForcedFine DEF MoveStop
<1>4. CASE ReplaceStop(s)
  <2>1. PICK kept \in {NoId, book[s].stop} :
          \/ Place(Cancelled(book[s].stop), Unlisted(book[s].stop), s, Stored(kept))
          \/ Place(order, record, s, Stored(kept))
    BY <1>4 DEF ReplaceStop
  <2>2. kept \in Answered /\ Quiet
    BY <1>1, <1>4 DEF ReplaceStop
  <2> QED
    BY <2>1, <2>2, NowSane, CancelledSane, PlaceStep, StoredFine
<1>5. CASE CancelStop(s) \/ CloseWithoutStop(s) \/ NoticeStop(s)
  <2>1. /\ market' = market /\ phase' = phase /\ faults' = faults
    BY <1>5 DEF CancelStop, CloseWithoutStop, NoticeStop, Quiet, NoFault
  <2>2. Sane(order', record')
    BY <1>5, NowSane, CancelledSane DEF CancelStop, CloseWithoutStop, NoticeStop
  <2>3. \E b : Fine(b) /\ book' = [book EXCEPT ![s] = b]
    <3>1. CASE CancelStop(s)
      <4>1. PICK still \in BOOLEAN : book' = [book EXCEPT ![s] = [open |-> still, stop |-> NoId]]
        BY <3>1 DEF CancelStop
      <4> QED
        BY <4>1 DEF Fine, Holdings
    <3>2. CASE CloseWithoutStop(s)
      <4> DEFINE b == [book[s] EXCEPT !.open = FALSE]
      <4>1. book[s] \in Holdings /\ book[s].stop = NoId
        BY <3>2, TypeParts DEF IInv, CloseWithoutStop
      <4>2. Fine(b)
        BY <4>1 DEF Fine, Holdings
      <4>3. book' = [book EXCEPT ![s] = b]
        BY <3>2 DEF CloseWithoutStop
      <4> QED
        BY <4>2, <4>3
    <3>3. CASE NoticeStop(s)
      <4> DEFINE b == [open |-> order[book[s].stop] # "FILLED", stop |-> NoId]
      <4>1. Fine(b)
        BY DEF Fine, Holdings
      <4>2. book' = [book EXCEPT ![s] = b]
        BY <3>3 DEF NoticeStop
      <4> QED
        BY <4>1, <4>2
    <3> QED
      BY <1>5, <3>1, <3>2, <3>3
  <2>4. book' \in [Strategies -> Holdings] /\ \A q \in Strategies : Fine(book'[q])
    BY <2>3, BookFine DEF IInv
  <2>5. TypeOK'
    BY <2>1, <2>2, <2>4, TypeParts DEF IInv, TypeOK, Sane, Orders, Ledgers, Entries, OrphansNamed, Fine, Holdings
  <2> QED
    BY <2>2, <2>5 DEF IInv, Sane
<1> QED
  BY <1>2, <1>3, <1>4, <1>5 DEF Tick

-----------------------------------------------------------------------------
(* Reconciliation                                                          *)

LEMMA SaneInductive ==
  ASSUME IInv, Sane(order', record'), market' = market,
         book' \in [Strategies -> Holdings], \A q \in Strategies : Fine(book'[q]),
         phase' \in {"idle", "byId", "withoutId", "sync", "check", "sweep"}, faults' \in 0..MaxFaults
  PROVE  IInv'
<1>1. TypeOK'
  BY TypeParts DEF IInv, TypeOK, Sane, Orders, Ledgers, Entries, OrphansNamed, Fine, Holdings
<1> QED
  BY <1>1 DEF IInv, Sane

\* Records whose status moves on keep the ledger sane.
LEMMA LaterSane ==
  ASSUME IInv, NEW next, next = [r \in Records |-> next[r]],
         \A r \in Records : Later(record[r], next[r])
  PROVE  Sane(order, next)
<1>1. order \in Orders /\ record \in Ledgers /\ OrphansNamed(record)
  BY TypeParts DEF IInv
<1>2. StillThere(order, order)
  BY DEF StillThere
<1>3. next \in Ledgers /\ SameLinks(record, next) /\ OrphansNamed(next)
  BY <1>1, StatusLinks
<1> QED
  BY <1>1, <1>2, <1>3, LinksKept DEF IInv, Sane

LEMMA SettledLater ==
  ASSUME IInv, NEW S, \A r \in S \cap Records : record[r].status # "none"
  PROVE  /\ Settle(S) = [r \in Records |-> Settle(S)[r]]
         /\ \A r \in Records : Later(record[r], Settle(S)[r])
<1>1. Settle(S) = [r \in Records |-> Settle(S)[r]]
  BY DEF Settle
<1>2. ASSUME NEW r \in Records PROVE Later(record[r], Settle(S)[r])
  <2>1. CASE r \notin S
    BY <2>1 DEF Settle, Later
  <2>2. CASE r \in S
    <3>1. Outcome(r, SpotStatus(record[r].id)) \in Statuses
      BY TypeParts DEF IInv, Ledgers, Entries, Outcome, Statuses
    <3>2. Settle(S)[r] = [record[r] EXCEPT !.status = Outcome(r, SpotStatus(record[r].id))]
      BY <2>2 DEF Settle, Settled
    <3> QED
      BY <2>2, <3>1, <3>2 DEF Later
  <2> QED
    BY <2>1, <2>2
<1> QED
  BY <1>1, <1>2

LEMMA CloseRowsFine ==
  ASSUME IInv, NEW filled, CloseRows(filled)
  PROVE  book' \in [Strategies -> Holdings] /\ \A q \in Strategies : Fine(book'[q])
<1>1. Fine([open |-> FALSE, stop |-> NoId])
  BY DEF Fine, Holdings
<1>2. \A s \in Strategies : Fine(book[s])
  BY TypeParts DEF IInv
<1>3. \A s \in Strategies : book'[s] = [open |-> FALSE, stop |-> NoId] \/ book'[s] = book[s]
  BY DEF CloseRows
<1>4. \A s \in Strategies : Fine(book'[s])
  BY <1>1, <1>2, <1>3
<1>5. book' = [s \in Strategies |-> book'[s]]
  BY DEF CloseRows
<1> QED
  BY <1>4, <1>5 DEF Fine

LEMMA RunInductive == ASSUME IInv, Run PROVE IInv'
<1>1. ASSUME NEW r \in Records
      PROVE  /\ record'[r] \in Entries /\ record'[r].id = record[r].id /\ record'[r].sent = record[r].sent
             /\ record'[r].by = record[r].by /\ record'[r].status = record[r].status
  <2>1. record[r] \in Entries
    BY TypeParts DEF IInv, Ledgers
  <2>2. CASE record[r].status = "pending" /\ record[r].age < LostAge
    <3>1. record'[r] = [record[r] EXCEPT !.age = @ + 1]
      BY <2>2 DEF Run
    <3>2. record[r].age + 1 \in 0..LostAge
      BY <2>1, <2>2, AgeAssumption DEF Entries
    <3> QED
      BY <2>1, <3>1, <3>2 DEF Entries
  <2>3. CASE ~(record[r].status = "pending" /\ record[r].age < LostAge)
    BY <2>1, <2>3 DEF Run
  <2> QED
    BY <2>2, <2>3
<1>2. record' = [r \in Records |-> record'[r]]
  BY DEF Run
<1>3. record' \in Ledgers /\ SameLinks(record, record')
  BY <1>1, <1>2 DEF Ledgers, SameLinks
<1>4. OrphansNamed(record')
  BY <1>1, TypeParts DEF IInv, OrphansNamed
<1>5. order' = order /\ order \in Orders /\ StillThere(order, order)
  BY TypeParts DEF Run, IInv, StillThere
<1>6. Sane(order', record')
  BY <1>3, <1>4, <1>5, TypeParts, LinksKept DEF IInv, Sane
<1> QED
  BY <1>6, SaneInductive, TypeParts DEF IInv, Run, From

LEMMA RecoverByIdInductive == ASSUME IInv, RecoverById PROVE IInv'
<1> DEFINE due == {r \in Records : record[r].status = "pending" /\ record[r].id # NoId /\ record[r].age >= RecoveryAge}
<1>1. PICK skipped \in SUBSET due :
        /\ Skips(due, skipped) /\ record' = Settle(due \ skipped)
        /\ CloseRows({r \in due \ skipped : SpotStatus(record[r].id) = "FILLED"})
  BY DEF RecoverById
<1>2. \A r \in (due \ skipped) \cap Records : record[r].status # "none"
  OBVIOUS
<1> HIDE DEF due
<1>3. Sane(order', record')
  <2>1. Sane(order, Settle(due \ skipped))
    BY <1>2, SettledLater, LaterSane
  <2> QED
    BY <1>1, <2>1 DEF RecoverById
<1>4. faults' \in 0..MaxFaults
  BY <1>1, FaultRange, TypeParts DEF IInv, Skips
<1>5. market' = market /\ phase' = "withoutId"
  BY DEF RecoverById, From
<1> QED
  BY <1>1, <1>3, <1>4, <1>5, CloseRowsFine, SaneInductive

LEMMA RecoverWithoutIdInductive == ASSUME IInv, RecoverWithoutId PROVE IInv'
<1> DEFINE due == {r \in Records : record[r].status = "pending" /\ record[r].id = NoId /\ record[r].age >= LostAge}
           Found(r) == Matches(r) # {}
           Fate(r) == IF Found(r) THEN Outcome(r, SpotStatus(record[r].sent)) ELSE "cancelled"
           Taken(r) == [record[r] EXCEPT !.status = Fate(r), !.id = IF Found(r) THEN record[r].sent ELSE NoId]
<1>1. PICK skipped \in SUBSET due :
        /\ Skips(due, skipped)
        /\ record' = [r \in Records |-> IF r \in due \ skipped THEN Taken(r) ELSE record[r]]
        /\ CloseRows({r \in due \ skipped : Fate(r) = "filled"})
  BY DEF RecoverWithoutId
<1> DEFINE tried == due \ skipped
<1>2. ASSUME NEW r \in Records PROVE record[r] \in Entries
  BY TypeParts DEF IInv, Ledgers
<1>3. ASSUME NEW r \in Records, r \in due
      PROVE  record[r].id = NoId /\ record[r].by # Orphan /\ record[r].status = "pending"
  BY <1>3, TypeParts DEF IInv, OrphansNamed
<1>4. ASSUME NEW r \in Records, Found(r)
      PROVE  record[r].sent \in Ids /\ \A q \in Records : record[q].id # record[r].sent
  BY <1>4 DEF Matches, Known
<1>5. ASSUME NEW r \in Records
      PROVE  /\ record'[r] \in Entries /\ record'[r].sent = record[r].sent /\ record'[r].by = record[r].by
             /\ record'[r].status # "none" <=> record[r].status # "none"
             /\ \/ record'[r].id = record[r].id
                \/ r \in due /\ Found(r) /\ record'[r].id = record[r].sent
  <2>1. CASE r \in tried
    <3>1. record'[r] = Taken(r)
      BY <1>1, <2>1
    <3>2. Fate(r) \in Statuses \ {"none"}
      BY <1>3, <2>1 DEF Outcome, Statuses
    <3> HIDE DEF Fate, Found, due
    <3> QED
      BY <1>2, <1>3, <2>1, <3>1, <3>2 DEF Entries
  <2>2. CASE r \notin tried
    BY <1>1, <1>2, <2>2
  <2> QED
    BY <2>1, <2>2
<1>6. record' = [r \in Records |-> record'[r]]
  BY <1>1
<1>7. CloseRows({r \in due \ skipped : Fate(r) = "filled"}) /\ faults' \in 0..MaxFaults
  BY <1>1, FaultRange, TypeParts DEF IInv, Skips
<1>8. order' = order /\ market' = market /\ phase' = "sync"
  BY DEF RecoverWithoutId, From
<1> HIDE DEF due, tried, Found, Fate, Taken
<1>9. record' \in Ledgers /\ OrphansNamed(record')
  <2>1. record' \in Ledgers
    BY <1>5, <1>6 DEF Ledgers
  <2>2. OrphansNamed(record)
    BY TypeParts DEF IInv
  <2> QED
    BY <1>3, <1>5, <2>1, <2>2 DEF OrphansNamed
<1>10. Honest(record', order')
  BY <1>5, <1>8 DEF IInv, Honest
<1>11. Single(record')
  <2>1. ASSUME NEW r \in Records, NEW q \in Records, r # q, record'[r].id # NoId
        PROVE  record'[r].id # record'[q].id
    <3>1. CASE record'[r].id = record[r].id /\ record'[q].id = record[q].id
      BY <2>1, <3>1 DEF IInv, Single
    <3>2. CASE r \in due /\ Found(r) /\ record'[r].id = record[r].sent
      <4>1. record[r].sent # record[q].id /\ record[r].sent # NoId
        BY <1>4, <3>2, IdFacts
      <4>2. q \in due => record[r].sent # record[q].sent
        BY <1>3, <2>1, <3>2, <4>1 DEF IInv, Honest
      <4> QED
        BY <1>5, <3>2, <4>1, <4>2
    <3>3. CASE record'[r].id = record[r].id /\ q \in due /\ Found(q) /\ record'[q].id = record[q].sent
      BY <1>4, <3>3
    <3> QED
      BY <1>5, <3>1, <3>2, <3>3
  <2> QED
    BY <2>1 DEF Single
<1> QED
  BY <1>7, <1>8, <1>9, <1>10, <1>11, CloseRowsFine, SaneInductive, TypeParts DEF IInv, Sane

\* The sync gives each unknown order one record (slot), and moves others on.
Adopts(next, slot, of) ==
    \A r \in Records :
        \/ /\ of[r] \in Ids /\ ~Known(of[r]) /\ order[of[r]] # "none" /\ slot[of[r]] = r
           /\ next[r] = [status |-> "new", id |-> of[r], sent |-> of[r], by |-> Orphan, age |-> 0]
        \/ Later(record[r], next[r])

LEMMA SyncSane ==
  ASSUME IInv, NEW next, next = [r \in Records |-> next[r]], NEW slot, NEW of, Adopts(next, slot, of)
  PROVE  Sane(order, next)
<1> DEFINE New(r) ==
             /\ of[r] \in Ids /\ ~Known(of[r]) /\ order[of[r]] # "none" /\ slot[of[r]] = r
             /\ next[r] = [status |-> "new", id |-> of[r], sent |-> of[r], by |-> Orphan, age |-> 0]
           Old(r) == /\ next[r].id = record[r].id /\ next[r].sent = record[r].sent /\ next[r].by = record[r].by
                     /\ next[r].by = Orphan /\ next[r].status # "none" => record[r].status # "none"
<1>1. ASSUME NEW r \in Records, ~New(r) PROVE next[r] \in Entries /\ Old(r)
  <2>1. record[r] \in Entries /\ Later(record[r], next[r])
    BY <1>1, TypeParts DEF IInv, Ledgers, Adopts
  <2>2. CASE next[r] = record[r]
    BY <2>1, <2>2
  <2>3. CASE next[r] # record[r]
    <3>1. PICK t \in Statuses : next[r] = [record[r] EXCEPT !.status = t]
      BY <2>1, <2>3 DEF Later
    <3>2. record[r].by = Orphan => record[r].status # "none"
      BY <2>1, <2>3 DEF Later
    <3> QED
      BY <2>1, <3>1, <3>2 DEF Entries
  <2> QED
    BY <2>2, <2>3
<1>2. ASSUME NEW r \in Records, New(r)
      PROVE  /\ next[r] \in Entries /\ next[r].id = of[r] /\ next[r].sent = of[r] /\ next[r].by = Orphan
             /\ of[r] # NoId
  BY <1>2, AgeAssumption, IdFacts DEF Entries, Statuses
<1>3. next \in Ledgers
  BY <1>1, <1>2 DEF Ledgers
<1>4. OrphansNamed(next)
  BY <1>1, <1>2, TypeParts DEF IInv, OrphansNamed
<1>5. Honest(next, order)
  <2>1. ASSUME NEW r \in Records
        PROVE  /\ next[r].id # NoId => next[r].id = next[r].sent
               /\ next[r].sent # NoId => order[next[r].sent] # "none"
    BY <1>1, <1>2 DEF IInv, Honest
  <2>2. ASSUME NEW r \in Records, NEW q \in Records, r # q, next[r].by # Orphan, next[q].by # Orphan,
               next[r].sent # NoId
        PROVE  next[r].sent # next[q].sent
    BY <1>1, <1>2, <2>2 DEF IInv, Honest
  <2> QED
    BY <2>1, <2>2 DEF Honest
<1>6. Single(next)
  <2>1. ASSUME NEW r \in Records, NEW q \in Records, r # q, next[r].id # NoId
        PROVE  next[r].id # next[q].id
    <3>1. CASE ~New(r) /\ ~New(q)
      BY <1>1, <2>1, <3>1 DEF IInv, Single
    <3>2. CASE New(r) /\ New(q)
      BY <1>2, <2>1, <3>2
    <3>3. CASE New(r) /\ ~New(q)
      BY <1>1, <1>2, <3>3 DEF Known
    <3>4. CASE ~New(r) /\ New(q)
      BY <1>1, <1>2, <3>4 DEF Known
    <3> QED
      BY <3>1, <3>2, <3>3, <3>4
  <2> QED
    BY <2>1 DEF Single
<1>7. order \in Orders
  BY TypeParts DEF IInv
<1> QED
  BY <1>3, <1>4, <1>5, <1>6, <1>7 DEF Sane

LEMMA SyncInductive == ASSUME IInv, SyncOpenOrders PROVE IInv'
<1> DEFINE unknown == {o \in SpotOpen : ~Known(o)}
           slot(o) == CHOOSE r \in Blank : Cardinality({q \in Blank : q < r}) = Cardinality({u \in unknown : u < o})
           told == {r \in Stale : SpotStatus(record[r].id) # "none"}
           slots == [o \in unknown |-> slot(o)]
           of == [r \in Records |-> CHOOSE u \in unknown : slot(u) = r]
           Becomes(skipped, r) ==
             IF \E o \in unknown : slot(o) = r
             THEN LET o == CHOOSE u \in unknown : slot(u) = r
                  IN  [status |-> "new", id |-> o, sent |-> o, by |-> Orphan, age |-> 0]
             ELSE Settle(told \ skipped)[r]
<1>1. /\ \/ \E skipped \in SUBSET told :
               Skips(told, skipped) /\ record' = [r \in Records |-> Becomes(skipped, r)]
         \/ Fault /\ UNCHANGED record
      /\ UNCHANGED <<order, book, market>> /\ phase' = "check"
  BY DEF SyncOpenOrders, From
<1>2. \A o \in unknown : o \in Ids /\ ~Known(o) /\ order[o] # "none"
  BY DEF SpotOpen, SpotStatus
<1>3. \A r \in told : r \in Records /\ record[r].status # "none"
  BY DEF Stale
<1>4. \A o \in unknown : slots[o] = slot(o)
  OBVIOUS
<1> HIDE DEF slot, unknown, told, slots
<1>5. ASSUME NEW skipped \in SUBSET told, Skips(told, skipped),
             record' = [r \in Records |-> Becomes(skipped, r)]
      PROVE  Sane(order', record') /\ faults' \in 0..MaxFaults
  <2>1. ASSUME NEW r \in Records
        PROVE  \/ /\ of[r] \in Ids /\ ~Known(of[r]) /\ order[of[r]] # "none" /\ slots[of[r]] = r
                  /\ record'[r] = [status |-> "new", id |-> of[r], sent |-> of[r], by |-> Orphan, age |-> 0]
               \/ Later(record[r], record'[r])
    <3>1. CASE \E o \in unknown : slot(o) = r
      <4>1. of[r] \in unknown /\ slot(of[r]) = r
        BY <3>1
      <4>2. record'[r] = [status |-> "new", id |-> of[r], sent |-> of[r], by |-> Orphan, age |-> 0]
        BY <1>5, <3>1
      <4> QED
        BY <1>2, <1>4, <4>1, <4>2
    <3>2. CASE ~\E o \in unknown : slot(o) = r
      <4>1. record'[r] = Settle(told \ skipped)[r]
        BY <1>5, <3>2
      <4>2. \A q \in (told \ skipped) \cap Records : record[q].status # "none"
        BY <1>3
      <4> QED
        BY <4>1, <4>2, SettledLater
    <3> QED
      BY <3>1, <3>2
  <2>2. record' = [r \in Records |-> record'[r]]
    BY <1>5
  <2> HIDE DEF of
  <2>3. Adopts(record', slots, of)
    BY <2>1 DEF Adopts
  <2>4. Sane(order, record')
    BY <2>2, <2>3, SyncSane
  <2>5. faults' \in 0..MaxFaults
    BY <1>5, FaultRange, TypeParts DEF IInv, Skips
  <2> QED
    BY <1>1, <2>4, <2>5
<1>6. CASE Fault /\ UNCHANGED record
  <2>1. Sane(order', record') /\ faults' \in 0..MaxFaults
    BY <1>1, <1>6, NowSane, FaultRange, TypeParts DEF IInv
  <2> QED
    BY <1>1, <2>1, SaneInductive, TypeParts DEF IInv
<1>7. book' \in [Strategies -> Holdings] /\ \A q \in Strategies : Fine(book'[q])
  BY <1>1, TypeParts DEF IInv
<1> QED
  BY <1>1, <1>5, <1>6, <1>7, SaneInductive

LEMMA CheckInductive == ASSUME IInv, CheckPendingStops PROVE IInv'
<1> DEFINE due == {r \in OpenRecords : record[r].id # NoId /\ record[r].by # Orphan}
           gone(skipped) == {r \in due \ skipped : SpotStatus(record[r].id) \in {"CANCELED", "none"}}
<1>1. PICK skipped \in SUBSET due : Skips(due, skipped) /\ record' = Settle(gone(skipped))
  BY DEF CheckPendingStops
<1>2. \A r \in gone(skipped) \cap Records : record[r].status # "none"
  BY DEF OpenRecords
<1>3. Sane(order, Settle(gone(skipped)))
  <2> HIDE DEF gone
  <2> QED
    BY <1>2, SettledLater, LaterSane
<1>4. faults' \in 0..MaxFaults
  BY <1>1, FaultRange, TypeParts DEF IInv, Skips
<1>5. UNCHANGED <<order, book, market>> /\ phase' = "sweep"
  BY DEF CheckPendingStops, From
<1>6. book' \in [Strategies -> Holdings] /\ \A q \in Strategies : Fine(book'[q])
  BY <1>5, TypeParts DEF IInv
<1> QED
  BY <1>1, <1>3, <1>4, <1>5, <1>6, SaneInductive

LEMMA OrdersInductive ==
  ASSUME IInv, CancelOrphanStops \/ RunDies \/ \E o \in Ids : Ends(o)
  PROVE  IInv'
<1>1. /\ UNCHANGED <<record, book, market>>
      /\ phase' \in {"idle", "byId", "withoutId", "sync", "check", "sweep"}
      /\ Fault \/ NoFault
  BY TypeParts DEF IInv, CancelOrphanStops, RunDies, Ends, From, Skips, NoFault
<1>2. order' \in Orders /\ StillThere(order, order')
  <2>1. order \in Orders
    BY TypeParts DEF IInv
  <2>2. CASE CancelOrphanStops
    BY <2>1, <2>2 DEF CancelOrphanStops, Orders, StillThere
  <2>3. CASE RunDies
    BY <2>1, <2>3 DEF RunDies, StillThere
  <2>4. ASSUME NEW o \in Ids, Ends(o) PROVE order' \in Orders /\ StillThere(order, order')
    BY <2>1, <2>4 DEF Ends, Orders, StillThere
  <2> QED
    BY <2>2, <2>3, <2>4
<1>3. Sane(order', record')
  <2>1. record \in Ledgers /\ OrphansNamed(record) /\ order \in Orders /\ SameLinks(record, record)
    BY TypeParts DEF IInv, SameLinks
  <2> QED
    BY <1>1, <1>2, <2>1, LinksKept DEF IInv, Sane
<1>4. faults' \in 0..MaxFaults
  BY <1>1, FaultRange, TypeParts DEF IInv
<1>5. book' \in [Strategies -> Holdings] /\ \A q \in Strategies : Fine(book'[q])
  BY <1>1, TypeParts DEF IInv
<1> QED
  BY <1>1, <1>3, <1>4, <1>5, SaneInductive

-----------------------------------------------------------------------------

LEMMA InitHolds == Init => IInv
<1> SUFFICES ASSUME Init PROVE IInv
  OBVIOUS
<1>1. order \in Orders
  BY DEF Init, Orders
<1>2. record \in Ledgers /\ \A r \in Records : record[r].id = NoId /\ record[r].sent = NoId /\ record[r].status = "none"
  BY AgeAssumption DEF Init, Ledgers, Entries, Statuses
<1>3. OrphansNamed(record) /\ Honest(record, order) /\ Single(record)
  BY <1>2 DEF OrphansNamed, Honest, Single
<1>4. book \in [Strategies -> Holdings] /\ \A s \in Strategies : Fine(book[s])
  BY DEF Init, Fine, Holdings
<1>5. market \in {"spot", "futures"} /\ phase = "idle" /\ faults \in 0..MaxFaults
  BY BoundAssumption DEF Init
<1>6. TypeOK
  BY <1>1, <1>2, <1>3, <1>4, <1>5, TypeParts
<1> QED
  BY <1>3, <1>6 DEF IInv

LEMMA Inductive == IInv /\ [Next]_vars => IInv'
<1> SUFFICES ASSUME IInv, [Next]_vars PROVE IInv'
  OBVIOUS
<1>1. CASE UNCHANGED vars
  BY <1>1, NowSane, SaneInductive, TypeParts DEF vars, IInv
<1> QED
  BY <1>1, TickInductive, RunInductive, RecoverByIdInductive, RecoverWithoutIdInductive, SyncInductive,
     CheckInductive, OrdersInductive DEF Next, Reconcile

\* Orders, records and book keep their types, and the record of an orphan always
\* names its order, for every number of them and all faults.
THEOREM TypeCorrect == Spec => []TypeOK
<1>1. IInv => TypeOK
  BY DEF IInv
<1> QED
  BY <1>1, InitHolds, Inductive, PTL DEF Spec

\* No order of the exchange ever gets two records, whatever answers are lost,
\* reads fail and workers die between placement, sync and match.
THEOREM OrdersCountOnce == Spec => []OneRecordPerOrder
<1>1. IInv => OneRecordPerOrder
  BY DEF IInv, Single, OneRecordPerOrder
<1> QED
  BY <1>1, InitHolds, Inductive, PTL DEF Spec
=============================================================================
