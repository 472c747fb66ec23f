-------------------------- MODULE DeliveriesProofs --------------------------
(***************************************************************************)
(* For any webhooks, orders, batches and settings, and any number of       *)
(* events: one delivery of an order is sent to a webhook at a time, in     *)
(* order, and none is shown as delivered that wasn't accepted.  What they  *)
(* rest on is that a batch holds copies of rows that keep their ids, and   *)
(* that what comes between its reading and its end only adds newer rows or *)
(* brings settled ones back.  Nothing is needed of the line, whose type is *)
(* proved last.                                                            *)
(***************************************************************************)
EXTENDS Deliveries, FiniteSetTheorems, NaturalsInduction, WellFoundedInduction, TLAPS

\* The rows, and what was settled.
Rows ==
    /\ newest \in Nat /\ events \in Nat
    /\ DOMAIN rows \subseteq 1..newest /\ \A i \in DOMAIN rows : rows[i] \in Delivery
    /\ settled \subseteq 1..newest /\ DOMAIN rows \ Waiting \subseteq settled

Flight == batch \cup sending
Same(d, e) == d.hook = e.hook /\ d.order = e.order

\* A delivery in the batch is a copy of its row.
Copies ==
    \A d \in Flight :
        /\ d.id \in 1..newest
        /\ d.id \in DOMAIN rows => Same(d, rows[d.id]) /\ d.event = rows[d.id].event

OnePerOrder == \A d, e \in Flight : Same(d, e) => d = e

\* What waits before one not begun with was brought back.
Before ==
    \A d \in batch : \A j \in Waiting : j < d.id /\ Same(rows[j], d) => j \in settled

IInv == Rows /\ Copies /\ OnePerOrder /\ Before /\ DeliveredWasAccepted

-----------------------------------------------------------------------------

LEMMA Types ==
    ASSUME Rows, NEW i \in DOMAIN rows
    PROVE  /\ i \in Nat /\ i <= newest /\ rows[i] \in Delivery
           /\ rows[i].hook \in Hook /\ rows[i].order \in Order \cup {NoOrder}
           /\ rows[i].event \in Nat /\ rows[i].tries \in Nat
           /\ rows[i].state \in {"waiting", "delivered", "gaveUp"}
  <1>1. rows[i] \in Delivery /\ i \in 1..newest /\ newest \in Nat
    BY DEF Rows
  <1>2. rows[i].hook \in Hook /\ rows[i].order \in Order \cup {NoOrder}
    BY <1>1 DEF Delivery
  <1>3. rows[i].event \in Nat /\ rows[i].tries \in Nat
    BY <1>1 DEF Delivery
  <1>4. rows[i].state \in {"waiting", "delivered", "gaveUp"}
    BY <1>1 DEF Delivery
  <1>5. i \in Nat /\ i <= newest
    BY <1>1
  <1> QED BY <1>1, <1>2, <1>3, <1>4, <1>5

LEMMA NowIsDelivery ==
    ASSUME Rows, NEW i \in DOMAIN rows,
           NEW s \in {"waiting", "delivered", "gaveUp"}, NEW n \in Nat
    PROVE  /\ Now(i, s, n) \in Delivery /\ Same(Now(i, s, n), rows[i])
           /\ Now(i, s, n).event = rows[i].event /\ Now(i, s, n).state = s
  <1> DEFINE r == [hook |-> rows[i].hook, order |-> rows[i].order, event |-> rows[i].event,
                   state |-> s, tries |-> n]
  <1>1. /\ rows[i].hook \in Hook /\ rows[i].order \in Order \cup {NoOrder}
        /\ rows[i].event \in Nat
    BY Types
  <1>2. r \in Delivery
    BY <1>1 DEF Delivery
  <1>3. Now(i, s, n) = r
    BY DEF Now
  <1> QED
    <2>1. Same(r, rows[i]) /\ r.event = rows[i].event /\ r.state = s
      BY DEF Same
    <2> HIDE DEF r
    <2> QED BY <1>2, <1>3, <2>1

\* Rows are kept, and written, and go, while the batch loses deliveries: the
\* invariant is kept if what is written as delivered was accepted, what comes
\* to wait was settled, and what is settled is said to be.
LEMMA Rewriting ==
    ASSUME IInv, Rows',
           newest' = newest, batch' \subseteq batch, sending' \subseteq Flight,
           DOMAIN rows' \subseteq DOMAIN rows, settled \subseteq settled',
           \A i \in DOMAIN rows' :
               /\ Same(rows'[i], rows[i]) /\ rows'[i].event = rows[i].event
               /\ rows'[i].state = "waiting" => i \in Waiting \/ i \in settled
               /\ rows'[i].state = "delivered" =>
                    rows[i].state = "delivered" \/ <<rows[i].hook, rows[i].event>> \in answered',
           answered \subseteq answered'
    PROVE  IInv'
  <1>1. Flight' \subseteq Flight
    BY DEF Flight
  <1>2. Copies'
    BY <1>1 DEF IInv, Copies, Same
  <1>3. OnePerOrder'
    BY <1>1 DEF IInv, OnePerOrder
  <1>4. Before'
    BY DEF IInv, Before, Waiting, Same
  <1>5. DeliveredWasAccepted'
    BY DEF IInv, DeliveredWasAccepted, Same
  <1> QED BY <1>2, <1>3, <1>4, <1>5 DEF IInv

\* New rows get newer ids.
LEMMA Adding ==
    ASSUME IInv, Rows', NEW ids, \A i \in ids : i \in Nat /\ newest < i,
           newest <= newest', DOMAIN rows' = DOMAIN rows \cup ids,
           \A i \in DOMAIN rows : rows'[i] = rows[i],
           UNCHANGED worker, settled \subseteq settled', answered \subseteq answered',
           \A i \in ids : rows'[i].state = "delivered" =>
                             <<rows'[i].hook, rows'[i].event>> \in answered'
    PROVE  IInv'
  <1>1. newest \in Nat /\ newest' \in Nat /\ batch' = batch /\ sending' = sending
    BY DEF IInv, Rows, worker
  <1>2. Copies'
    <2> SUFFICES ASSUME NEW d \in Flight
                 PROVE  /\ d.id \in 1..newest'
                        /\ d.id \in DOMAIN rows' => Same(d, rows'[d.id]) /\ d.event = rows'[d.id].event
      BY <1>1 DEF Copies, Flight
    <2>1. d.id \in 1..newest /\ d.id \notin ids
      BY <1>1 DEF IInv, Copies
    <2>2. d.id \in DOMAIN rows => Same(d, rows[d.id]) /\ d.event = rows[d.id].event
      BY DEF IInv, Copies
    <2> QED BY <1>1, <2>1, <2>2
  <1>3. OnePerOrder'
    BY <1>1 DEF IInv, OnePerOrder, Flight
  <1>4. Before'
    <2> SUFFICES ASSUME NEW d \in batch, NEW j \in Waiting', j < d.id, Same(rows'[j], d)
                 PROVE  j \in settled'
      BY <1>1 DEF Before
    <2>1. d.id \in 1..newest
      BY DEF IInv, Copies, Flight
    <2>2. j \notin ids
      BY <1>1, <2>1
    <2>3. j \in Waiting /\ Same(rows[j], d)
      BY <2>2 DEF Waiting
    <2> QED BY <2>3 DEF IInv, Before
  <1>5. DeliveredWasAccepted'
    BY DEF IInv, DeliveredWasAccepted
  <1> QED BY <1>2, <1>3, <1>4, <1>5 DEF IInv

-----------------------------------------------------------------------------

\* A row written: it stays the row it was, and is settled if it doesn't wait.
LEMMA Written ==
    ASSUME Rows, NEW i \in DOMAIN rows, NEW s \in {"waiting", "delivered", "gaveUp"},
           NEW n \in Nat, rows' = [rows EXCEPT ![i] = Now(i, s, n)],
           newest' = newest, events' \in Nat,
           settled' = IF s = "waiting" THEN settled ELSE settled \cup {i}
    PROVE  /\ Rows' /\ DOMAIN rows' = DOMAIN rows
           /\ \A j \in DOMAIN rows :
                /\ Same(rows'[j], rows[j]) /\ rows'[j].event = rows[j].event
                /\ rows'[j].state = IF j = i THEN s ELSE rows[j].state
  <1>1. /\ Now(i, s, n) \in Delivery /\ Same(Now(i, s, n), rows[i])
        /\ Now(i, s, n).event = rows[i].event /\ Now(i, s, n).state = s
    BY NowIsDelivery
  <1>2. /\ DOMAIN rows' = DOMAIN rows
        /\ \A j \in DOMAIN rows : rows'[j] = IF j = i THEN Now(i, s, n) ELSE rows[j]
    OBVIOUS
  <1>3. \A j \in DOMAIN rows :
            /\ Same(rows'[j], rows[j]) /\ rows'[j].event = rows[j].event
            /\ rows'[j].state = IF j = i THEN s ELSE rows[j].state
    BY <1>1, <1>2 DEF Same
  <1>4. Rows'
    BY <1>1, <1>2, <1>3 DEF Rows, Waiting
  <1> QED BY <1>2, <1>3, <1>4

LEMMA WriteRows ==
    ASSUME Rows, NEW i, NEW s \in {"waiting", "delivered", "gaveUp"}, NEW n \in Nat,
           Write(i, s, n), newest' = newest, events' = events
    PROVE  /\ Rows' /\ DOMAIN rows' = DOMAIN rows /\ settled \subseteq settled'
           /\ \A j \in DOMAIN rows :
                /\ Same(rows'[j], rows[j]) /\ rows'[j].event = rows[j].event
                /\ rows'[j].state = "waiting" => j \in Waiting
                /\ rows'[j].state = "delivered" =>
                     rows[j].state = "delivered" \/ (j = i /\ s = "delivered")
  <1>1. CASE i \notin Waiting
    BY <1>1 DEF Write, Rows, Waiting, Same
  <1>2. CASE i \in Waiting
    <2>1. i \in DOMAIN rows /\ rows[i].state = "waiting" /\ rows[i].tries + n \in Nat
      <3>1. i \in DOMAIN rows /\ rows[i].state = "waiting"
        BY <1>2 DEF Waiting
      <3>2. rows[i].tries \in Nat
        BY <3>1, Types
      <3>3. rows[i].tries + n \in Nat
        BY <3>2
      <3> QED BY <3>1, <3>3
    <2>2. /\ rows' = [rows EXCEPT ![i] = Now(i, s, rows[i].tries + n)]
          /\ settled' = IF s = "waiting" THEN settled ELSE settled \cup {i}
      BY <1>2 DEF Write
    <2>3. events' \in Nat
      BY DEF Rows
    <2>4. /\ Rows' /\ DOMAIN rows' = DOMAIN rows
          /\ \A j \in DOMAIN rows :
                /\ Same(rows'[j], rows[j]) /\ rows'[j].event = rows[j].event
                /\ rows'[j].state = IF j = i THEN s ELSE rows[j].state
      BY <2>1, <2>2, <2>3, Written
    <2> QED BY <2>1, <2>2, <2>4 DEF Waiting
  <1> QED BY <1>1, <1>2

\* A row made.
LEMMA MadeRow ==
    ASSUME NEW h \in Hook, NEW o \in Order \cup {NoOrder}, events \in Nat,
           NEW s \in {"waiting", "delivered", "gaveUp"}, NEW n \in Nat
    PROVE  /\ NewRow(h, o, s, n) \in Delivery /\ NewRow(h, o, s, n).hook = h
           /\ NewRow(h, o, s, n).event = events + 1 /\ NewRow(h, o, s, n).state = s
  <1> DEFINE e == events + 1
             r == [hook |-> h, order |-> o, event |-> e, state |-> s, tries |-> n]
  <1>1. e \in Nat
    OBVIOUS
  <1>2. NewRow(h, o, s, n) = r
    BY DEF NewRow
  <1>3. r \in Delivery /\ r.hook = h /\ r.event = e /\ r.state = s
    <2> HIDE DEF e
    <2> QED BY <1>1 DEF Delivery
  <1> HIDE DEF r
  <1> QED BY <1>2, <1>3

LEMMA TestStep ==
    ASSUME IInv, NEW h \in Hook, Test(h)
    PROVE  IInv'
  <1>1. PICK s \in {"waiting", "delivered", "gaveUp"} :
          /\ rows' = [i \in DOMAIN rows \cup {NextId} |->
                         IF i = NextId THEN NewRow(h, NoOrder, s, 1) ELSE rows[i]]
          /\ newest' = NextId /\ events' = events + 1
          /\ answered' = IF s = "delivered" THEN answered \cup {<<h, events + 1>>} ELSE answered
          /\ settled' = IF s = "waiting" THEN settled ELSE settled \cup {NextId}
          /\ UNCHANGED worker
    BY Zenon DEF Test
  <1>2. /\ newest \in Nat /\ events \in Nat
        /\ DOMAIN rows \subseteq 1..newest /\ settled \subseteq 1..newest
        /\ \A i \in DOMAIN rows : rows[i] \in Delivery
        /\ DOMAIN rows \ Waiting \subseteq settled
    BY DEF IInv, Rows
  <1>3. /\ NextId \in Nat /\ newest < NextId /\ NextId = newest + 1
        /\ NextId \notin DOMAIN rows /\ 1..newest \subseteq 1..NextId /\ NextId \in 1..NextId
    BY <1>2 DEF NextId
  <1> DEFINE new == NewRow(h, NoOrder, s, 1)
  <1>4. new \in Delivery /\ new.hook = h /\ new.event = events + 1 /\ new.state = s
    BY <1>2, MadeRow
  <1> HIDE DEF new
  <1>5. /\ DOMAIN rows' = DOMAIN rows \cup {NextId}
        /\ \A i \in DOMAIN rows : rows'[i] = rows[i]
        /\ rows'[NextId] = new
    BY <1>1, <1>3, Zenon DEF new
  <1>6. Rows'
    <2>1. newest' \in Nat /\ events' \in Nat /\ newest' = NextId
      BY <1>1, <1>2, <1>3
    <2>2. DOMAIN rows' \subseteq 1..newest' /\ settled' \subseteq 1..newest'
      BY <1>1, <1>2, <1>3, <1>5, <2>1
    <2>3. \A i \in DOMAIN rows' : rows'[i] \in Delivery
      BY <1>2, <1>4, <1>5
    <2>4. DOMAIN rows' \ Waiting' \subseteq settled'
      BY <1>1, <1>2, <1>4, <1>5 DEF Waiting
    <2> QED BY <2>1, <2>2, <2>3, <2>4 DEF Rows
  <1>7. settled \subseteq settled' /\ answered \subseteq answered'
    BY <1>1
  <1>8. rows'[NextId].state = "delivered" => <<rows'[NextId].hook, rows'[NextId].event>> \in answered'
    BY <1>1, <1>4, <1>5
  <1>9. newest <= newest'
    BY <1>1, <1>2, <1>3
  <1> QED
    <2> DEFINE ids == {NextId}
    <2>1. /\ \A i \in ids : i \in Nat /\ newest < i
          /\ DOMAIN rows' = DOMAIN rows \cup ids
          /\ \A i \in ids : rows'[i].state = "delivered" =>
                                 <<rows'[i].hook, rows'[i].event>> \in answered'
      BY <1>3, <1>5, <1>8
    <2> HIDE DEF ids
    <2> QED BY <1>1, <1>5, <1>6, <1>7, <1>9, <2>1, Adding

LEMMA QueueStep ==
    ASSUME IInv, hooks \subseteq Hook, NEW o \in Order, Queue(o)
    PROVE  IInv'
  <1> DEFINE to == {h \in hooks : StoreOf[h] = StoreOf[o]}
             ids == NextId .. NextId + Cardinality(to) - 1
  <1>1. PICK hookOf \in [ids -> to] :
          rows' = [i \in DOMAIN rows \cup ids |->
                     IF i \in ids THEN NewRow(hookOf[i], o, "waiting", 0) ELSE rows[i]]
    BY DEF Queue, Bijection, Injection
  <1>2. /\ newest' = newest + Cardinality(to) /\ events' = events + 1
        /\ settled' = settled /\ answered' = answered /\ UNCHANGED worker
    BY DEF Queue
  <1>3. to \subseteq Hook /\ Cardinality(to) \in Nat
    BY DeliveriesAssumption, FS_Subset, FS_CardinalityType
  <1> HIDE DEF to
  <1>4. /\ newest \in Nat /\ events \in Nat
        /\ DOMAIN rows \subseteq 1..newest /\ settled \subseteq 1..newest
        /\ \A i \in DOMAIN rows : rows[i] \in Delivery
        /\ DOMAIN rows \ Waiting \subseteq settled
    BY DEF IInv, Rows
  <1>5. /\ newest' \in Nat /\ newest <= newest' /\ 1..newest \subseteq 1..newest'
        /\ \A i \in ids : i \in 1..newest' /\ i \in Nat /\ newest < i /\ i \notin DOMAIN rows
    BY <1>2, <1>3, <1>4 DEF NextId
  <1> HIDE DEF ids
  <1>6. /\ DOMAIN rows' = DOMAIN rows \cup ids
        /\ \A i \in DOMAIN rows : rows'[i] = rows[i]
        /\ \A i \in ids : rows'[i] \in Delivery /\ rows'[i].state = "waiting"
    <2>1. /\ DOMAIN rows' = DOMAIN rows \cup ids
          /\ \A i \in DOMAIN rows : rows'[i] = rows[i]
          /\ \A i \in ids : rows'[i] = NewRow(hookOf[i], o, "waiting", 0)
      BY <1>1, <1>5
    <2>2. \A i \in ids : hookOf[i] \in Hook
      BY <1>1, <1>3
    <2> QED BY <1>4, <2>1, <2>2, MadeRow
  <1>7. Rows'
    <2>1. DOMAIN rows' \subseteq 1..newest' /\ settled' \subseteq 1..newest'
      BY <1>2, <1>4, <1>5, <1>6
    <2>2. \A i \in DOMAIN rows' : rows'[i] \in Delivery
      BY <1>4, <1>6
    <2>3. DOMAIN rows' \ Waiting' \subseteq settled'
      BY <1>2, <1>4, <1>6 DEF Waiting
    <2> QED BY <1>2, <1>4, <1>5, <2>1, <2>2, <2>3 DEF Rows
  <1> QED BY <1>2, <1>5, <1>6, <1>7, Adding

LEMMA PickStep ==
    ASSUME IInv, Pick
    PROVE  IInv'
  <1>1. /\ batch' = {Read(i) : i \in Picks} /\ sending' = {}
        /\ UNCHANGED <<rows, newest, events, settled, answered>>
    BY DEF Pick, table, history
  <1>2. \A i \in Picks : i \in Waiting /\ Oldest(i)
    BY DEF Picks
  <1>3. \A d \in Flight' : \E i \in Picks : d = Read(i)
    BY <1>1 DEF Flight
  <1>4. \A i \in Waiting : /\ i \in DOMAIN rows /\ Read(i).id = i
                           /\ Same(Read(i), rows[i]) /\ Read(i).event = rows[i].event
    BY DEF Waiting, Read, Same
  <1>5. Rows' /\ DeliveredWasAccepted'
    BY <1>1 DEF IInv, Rows, Waiting, DeliveredWasAccepted
  <1>6. Copies'
    BY <1>1, <1>2, <1>3, <1>4 DEF IInv, Rows, Copies
  <1>7. OnePerOrder'
    <2> SUFFICES ASSUME NEW i \in Picks, NEW j \in Picks, Same(Read(i), Read(j))
                 PROVE  i = j
      BY <1>3 DEF OnePerOrder
    <2>1. i \in Waiting /\ j \in Waiting /\ Together(i, j) /\ Together(j, i)
      BY <1>2, <1>4 DEF Together, Same
    <2>2. i <= j /\ j <= i
      BY <1>2, <2>1 DEF Oldest
    <2>3. i \in Nat /\ j \in Nat
      BY <2>1 DEF IInv, Rows, Waiting
    <2> QED BY <2>2, <2>3
  <1>8. Before'
    <2> SUFFICES ASSUME NEW i \in Picks, NEW j \in Waiting, j < i, Same(rows[j], Read(i))
                 PROVE  FALSE
      BY <1>1, <1>2, <1>4 DEF Before, Waiting
    <2>1. Together(i, j)
      BY <1>2, <1>4 DEF Together, Same
    <2>2. i <= j
      BY <1>2, <2>1 DEF Oldest
    <2>3. i \in Nat /\ j \in Nat
      BY <1>2 DEF IInv, Rows, Waiting
    <2> QED BY <2>2, <2>3
  <1> QED BY <1>5, <1>6, <1>7, <1>8 DEF IInv

\* The steps that rewrite rows at most.
LEMMA RewriteStep ==
    ASSUME IInv,
           \/ \E d \in batch : Start(d) \/ Skip(d)
           \/ \E d \in sending : Finish(d)
           \/ \E h \in Hook : RetryFailed(h) \/ DeleteHook(h)
           \/ \E i \in DOMAIN rows : Due(i) \/ SendAgain(i) \/ Prune(i)
           \/ \E n \in MaxAttempts : Configure(n)
           \/ Crash \/ UNCHANGED vars
    PROVE  IInv'
  <1> USE DEF table, worker, history, Flight
  <1>1. Rows
    BY DEF IInv
  <1>2. ASSUME UNCHANGED <<rows, newest, events, settled, answered>>,
               batch' \subseteq batch, sending' \subseteq Flight
        PROVE  IInv'
    <2>1. Rows' /\ \A i \in DOMAIN rows : rows'[i].state = "waiting" => i \in Waiting
      BY <1>1, <1>2 DEF Rows, Waiting
    <2> QED BY <1>2, <2>1, Rewriting DEF Same
  <1>3. CASE \E d \in batch : Start(d)
    BY <1>2, <1>3 DEF Start
  <1>4. CASE \E i \in DOMAIN rows : Due(i)
    BY <1>2, <1>4 DEF Due
  <1>5. CASE (\E n \in MaxAttempts : Configure(n)) \/ Crash \/ UNCHANGED vars
    BY <1>2, <1>5 DEF Configure, Crash, vars
  <1>6. ASSUME NEW d \in batch, Skip(d)
        PROVE  IInv'
    <2>1. /\ batch' \subseteq batch /\ sending' \subseteq Flight
          /\ UNCHANGED <<newest, events, answered>>
      BY <1>6 DEF Skip
    <2>2. CASE UNCHANGED <<rows, line, settled>>
      BY <1>2, <2>1, <2>2
    <2>3. CASE Write(d.id, "gaveUp", 0)
      <3>1. /\ Rows' /\ DOMAIN rows' = DOMAIN rows /\ settled \subseteq settled'
            /\ \A j \in DOMAIN rows :
                 /\ Same(rows'[j], rows[j]) /\ rows'[j].event = rows[j].event
                 /\ rows'[j].state = "waiting" => j \in Waiting
                 /\ rows'[j].state = "delivered" => rows[j].state = "delivered"
        BY <1>1, <2>1, <2>3, WriteRows
      <3> QED BY <2>1, <3>1, Rewriting
    <2> QED BY <1>6, <2>2, <2>3 DEF Skip
  <1>7. ASSUME NEW d \in sending, Finish(d)
        PROVE  IInv'
    <2>1. PICK ok \in BOOLEAN :
            /\ sending' = sending \ {d} /\ UNCHANGED <<newest, batch, events>>
            /\ answered' = IF ok THEN answered \cup {<<d.hook, d.event>>} ELSE answered
            /\ Write(d.id, After(d, ok), 1) \/ UNCHANGED <<rows, line, settled>>
      BY <1>7 DEF Finish
    <2>2. batch' \subseteq batch /\ sending' \subseteq Flight /\ answered \subseteq answered'
      BY <2>1
    <2>3. CASE UNCHANGED <<rows, line, settled>>
      <3>1. Rows' /\ \A i \in DOMAIN rows : rows'[i].state = "waiting" => i \in Waiting
        BY <1>1, <2>1, <2>3 DEF Rows, Waiting
      <3> QED BY <2>1, <2>2, <2>3, <3>1, Rewriting DEF Same
    <2>4. CASE Write(d.id, After(d, ok), 1)
      <3>1. After(d, ok) \in {"waiting", "delivered", "gaveUp"} /\ (After(d, ok) = "delivered" => ok)
        BY DEF After
      <3>2. /\ Rows' /\ DOMAIN rows' = DOMAIN rows /\ settled \subseteq settled'
            /\ \A j \in DOMAIN rows :
                 /\ Same(rows'[j], rows[j]) /\ rows'[j].event = rows[j].event
                 /\ rows'[j].state = "waiting" => j \in Waiting
                 /\ rows'[j].state = "delivered" =>
                      rows[j].state = "delivered" \/ (j = d.id /\ After(d, ok) = "delivered")
        BY <1>1, <2>1, <2>4, <3>1, WriteRows
      <3>3. d.id \in DOMAIN rows => d.hook = rows[d.id].hook /\ d.event = rows[d.id].event
        BY <1>7 DEF IInv, Copies, Same
      <3>4. \A j \in DOMAIN rows : rows'[j].state = "delivered" =>
              rows[j].state = "delivered" \/ <<rows[j].hook, rows[j].event>> \in answered'
        BY <2>1, <3>1, <3>2, <3>3
      <3> QED BY <2>1, <2>2, <3>2, <3>4, Rewriting
    <2> QED BY <2>1, <2>3, <2>4
  <1>8. ASSUME NEW h \in Hook, RetryFailed(h)
        PROVE  IInv'
    <2> DEFINE failed == {i \in DOMAIN rows : rows[i].hook = h /\ rows[i].state = "gaveUp"}
    <2>1. /\ UNCHANGED <<newest, events, settled, answered, batch, sending>>
          /\ DOMAIN rows' = DOMAIN rows
          /\ \A i \in DOMAIN rows :
               rows'[i] = IF i \in failed THEN Now(i, "waiting", 0) ELSE rows[i]
      BY <1>8 DEF RetryFailed
    <2>2. \A i \in DOMAIN rows :
            /\ rows'[i] \in Delivery /\ Same(rows'[i], rows[i]) /\ rows'[i].event = rows[i].event
            /\ rows'[i].state = IF i \in failed THEN "waiting" ELSE rows[i].state
      BY <1>1, <2>1, NowIsDelivery, Types DEF Same
    <2>3. Rows'
      BY <1>1, <2>1, <2>2 DEF Rows, Waiting
    <2>4. \A i \in DOMAIN rows' : rows'[i].state = "waiting" => i \in Waiting \/ i \in settled
      BY <1>1, <2>1, <2>2 DEF Rows, Waiting
    <2> QED BY <2>1, <2>2, <2>3, <2>4, Rewriting
  <1>9. ASSUME NEW i \in DOMAIN rows, SendAgain(i)
        PROVE  IInv'
    <2> DEFINE n == IF i \in Waiting THEN rows[i].tries ELSE 0
    <2>1. /\ UNCHANGED <<newest, events, settled, answered, batch, sending>>
          /\ rows' = [rows EXCEPT ![i] = Now(i, "waiting", n)]
      BY <1>9 DEF SendAgain
    <2>2. n \in Nat /\ events' \in Nat
      BY <1>1, <2>1, Types DEF Rows
    <2> HIDE DEF n
    <2>3. /\ Rows' /\ DOMAIN rows' = DOMAIN rows
          /\ \A j \in DOMAIN rows :
               /\ Same(rows'[j], rows[j]) /\ rows'[j].event = rows[j].event
               /\ rows'[j].state = IF j = i THEN "waiting" ELSE rows[j].state
      BY <1>1, <2>1, <2>2, Written
    <2>4. \A j \in DOMAIN rows' : rows'[j].state = "waiting" => j \in Waiting \/ j \in settled
      BY <1>1, <2>3 DEF Rows, Waiting
    <2> QED BY <2>1, <2>3, <2>4, Rewriting
  <1>10. ASSUME NEW kept, kept \subseteq DOMAIN rows, rows' = [j \in kept |-> rows[j]],
                UNCHANGED <<newest, events, settled, answered, batch, sending>>
         PROVE  IInv'
    <2>1. Rows' /\ DOMAIN rows' = kept /\ \A j \in kept : rows'[j] = rows[j]
      BY <1>1, <1>10 DEF Rows, Waiting
    <2>2. \A j \in kept : rows'[j].state = "waiting" => j \in Waiting
      BY <1>10, <2>1 DEF Waiting
    <2> QED BY <1>10, <2>1, <2>2, Rewriting DEF Same
  <1>11. CASE \E h \in Hook : DeleteHook(h)
    BY <1>10, <1>11 DEF DeleteHook
  <1>12. CASE \E i \in DOMAIN rows : Prune(i)
    BY <1>10, <1>12 DEF Prune
  <1> QED BY <1>3, <1>4, <1>5, <1>6, <1>7, <1>8, <1>9, <1>11, <1>12

-----------------------------------------------------------------------------

\* What the theorems below rest on: the invariant, with the webhooks' type.
THEOREM DeliveriesInvariant == Spec => [](IInv /\ hooks \subseteq Hook)
  <1>1. Init => IInv /\ hooks \subseteq Hook
    BY DEF Init, IInv, Rows, Copies, OnePerOrder, Before, DeliveredWasAccepted, Flight, Waiting
  <1>2. IInv /\ hooks \subseteq Hook /\ [Next]_vars => (IInv /\ hooks \subseteq Hook)'
    <2> SUFFICES ASSUME IInv, hooks \subseteq Hook, [Next]_vars
                 PROVE  (IInv /\ hooks \subseteq Hook)'
      OBVIOUS
    <2>1. hooks' \subseteq Hook
      BY DEF Next, vars, table, Queue, Test, RetryFailed, DeleteHook, Due, SendAgain, Prune,
             Configure, Pick, Crash, Start, Skip, Finish
    <2>2. CASE \E o \in Order : Queue(o)
      BY <2>1, <2>2, QueueStep
    <2>3. CASE \E h \in Hook : Test(h)
      BY <2>1, <2>3, TestStep
    <2>4. CASE Pick
      BY <2>1, <2>4, PickStep
    <2>5. CASE UNCHANGED vars
      BY <2>1, <2>5, RewriteStep
    <2> QED BY <2>1, <2>2, <2>3, <2>4, <2>5, RewriteStep DEF Next
  <1> QED BY <1>1, <1>2, PTL DEF Spec

\* One event of an order is sent to a webhook at a time (due_deliveries).
THEOREM OneIsSent == Spec => []OneInFlight
  <1>1. IInv => OneInFlight
    BY DEF IInv, OnePerOrder, OneInFlight, Flight, Same
  <1> QED BY <1>1, DeliveriesInvariant, PTL

\* None overtakes an earlier one (due_deliveries): what waits before it was
\* settled once.
THEOREM NoneOvertakes == Spec => NoOvertaking
  <1>1. IInv /\ [Next]_vars =>
          [\A d \in sending' \ sending : \A j \in Waiting :
             (j < d.id /\ rows[j].hook = d.hook /\ rows[j].order = d.order) => j \in settled]_vars
    <2> SUFFICES ASSUME IInv, Next, NEW d \in sending' \ sending, NEW j \in Waiting,
                        j < d.id, rows[j].hook = d.hook, rows[j].order = d.order
                 PROVE  j \in settled
      OBVIOUS
    <2>1. d \in batch
      BY DEF Next, worker, Queue, Test, RetryFailed, DeleteHook, Due, SendAgain, Prune,
             Configure, Pick, Crash, Start, Skip, Finish
    <2> QED BY <2>1 DEF IInv, Before, Same
  <1> QED BY <1>1, DeliveriesInvariant, PTL DEF Spec, NoOvertaking

\* What is shown as delivered was accepted (record_delivery_attempt), by the
\* webhook it was queued for.
THEOREM ShownWasAccepted == Spec => []DeliveredWasAccepted
  <1>1. IInv => DeliveredWasAccepted
    BY DEF IInv
  <1> QED BY <1>1, DeliveriesInvariant, PTL

-----------------------------------------------------------------------------
(* The line of those that are due. *)

LEMMA LeastNat ==
    ASSUME NEW T, T \subseteq Nat, T # {}
    PROVE  \E x \in T : \A y \in T : x <= y
  <1>1. PICK x \in T : \A y \in T : <<y, x>> \notin OpToRel(<, Nat)
    BY WFMin, NatLessThanWellFounded, Zenon
  <1>2. \A y \in T : ~(y < x)
    BY <1>1, Zenon DEF OpToRel
  <1> QED BY <1>2, SMT

\* left[n] is what is left of the first n of s without T, for n up to m.
Sifts(left, s, T, m) ==
    /\ DOMAIN left = 0..m
    /\ left[0] = <<>>
    /\ \A n \in 1..m :
         left[n] = IF s[n] \in T THEN left[n - 1] ELSE Append(left[n - 1], s[n])

LEMMA SiftsOneMore ==
    ASSUME NEW s, NEW T, NEW m \in Nat, NEW f, Sifts(f, s, T, m)
    PROVE  \E g : Sifts(g, s, T, m + 1)
  <1> DEFINE more == IF s[m + 1] \in T THEN f[m] ELSE Append(f[m], s[m + 1])
             g == [n \in 0..m + 1 |-> IF n = m + 1 THEN more ELSE f[n]]
  <1>1. g[m + 1] = more /\ \A n \in 0..m : g[n] = f[n]
    OBVIOUS
  <1>2. DOMAIN g = 0..m + 1 /\ g[0] = <<>>
    BY <1>1 DEF Sifts
  <1> HIDE DEF g
  <1>3. ASSUME NEW n \in 1..m + 1
        PROVE  g[n] = IF s[n] \in T THEN g[n - 1] ELSE Append(g[n - 1], s[n])
    <2>1. CASE n = m + 1
      <3>1. n - 1 = m /\ m \in 0..m
        BY <2>1
      <3> QED BY <1>1, <2>1, <3>1
    <2>2. CASE n # m + 1
      <3>1. n \in 1..m /\ n \in 0..m /\ n - 1 \in 0..m
        BY <2>2
      <3> QED BY <1>1, <3>1 DEF Sifts
    <2> QED BY <2>1, <2>2
  <1> QED BY <1>2, <1>3 DEF Sifts

\* By the least length for which there is none.
LEMMA SiftsAll ==
    ASSUME NEW s, NEW T, NEW m \in Nat
    PROVE  \E f : Sifts(f, s, T, m)
  <1> DEFINE Lacking == {n \in Nat : \A f : ~Sifts(f, s, T, n)}
  <1> SUFFICES ASSUME Lacking # {} PROVE FALSE
    OBVIOUS
  <1>1. PICK n \in Lacking : \A k \in Lacking : n <= k
    <2>1. Lacking \subseteq Nat
      OBVIOUS
    <2> HIDE DEF Lacking
    <2> QED BY <2>1, LeastNat
  <1>2. CASE n = 0
    <2> DEFINE f == [k \in 0..0 |-> <<>>]
    <2>1. Sifts(f, s, T, 0)
      BY DEF Sifts
    <2> QED BY <1>1, <1>2, <2>1
  <1>3. CASE n # 0
    <2>1. n - 1 \in Nat /\ (n - 1) + 1 = n /\ ~(n <= n - 1)
      BY <1>1, <1>3
    <2>2. PICK f : Sifts(f, s, T, n - 1)
      BY <1>1, <2>1
    <2>3. \E g : Sifts(g, s, T, (n - 1) + 1)
      BY <2>1, <2>2, SiftsOneMore
    <2> QED BY <1>1, <2>1, <2>3
  <1> QED BY <1>2, <1>3

LEMMA WithoutSifts ==
    ASSUME NEW s \in Seq(Nat), NEW T
    PROVE  \E left : Sifts(left, s, T, Len(s)) /\ Without(s, T) = left[Len(s)]
  <1> DEFINE m == Len(s)
             Is(f) == f = [n \in 0..m |-> IF n = 0 THEN <<>>
                                          ELSE IF s[n] \in T THEN f[n - 1]
                                          ELSE Append(f[n - 1], s[n])]
             left == CHOOSE f : Is(f)
  <1>1. m \in Nat
    OBVIOUS
  <1>2. PICK f : Sifts(f, s, T, m)
    BY <1>1, SiftsAll
  <1>3. \E f1 : Is(f1)
    <2> DEFINE f1 == [n \in 0..m |-> f[n]]
    <2>1. \A n \in 0..m : n # 0 => n \in 1..m /\ n - 1 \in 0..m
      BY <1>1
    <2>2. \A n \in 0..m : f1[n] = IF n = 0 THEN <<>>
                                          ELSE IF s[n] \in T THEN f1[n - 1]
                                          ELSE Append(f1[n - 1], s[n])
      BY <1>2, <2>1 DEF Sifts
    <2>3. DOMAIN f1 = 0..m /\ f1 = [n \in 0..m |-> f1[n]]
      OBVIOUS
    <2> HIDE DEF f1, m
    <2>4. Is(f1)
      BY <2>2, <2>3
    <2> QED BY <2>4
  <1>4. Is(left)
    <2> HIDE DEF Is
    <2> QED BY <1>3
  <1>5. Without(s, T) = left[m]
    BY DEF Without
  <1> HIDE DEF left
  <1>6. Sifts(left, s, T, m)
    <2> HIDE DEF m
    <2>1. DOMAIN left = 0..m
      BY <1>4
    <2>2. \A n \in 0..m : left[n] = IF n = 0 THEN <<>>
                                          ELSE IF s[n] \in T THEN left[n - 1]
                                          ELSE Append(left[n - 1], s[n])
      BY <1>4
    <2>3. 0 \in 0..m /\ \A n \in 1..m : n \in 0..m /\ n # 0
      BY <1>1
    <2> QED BY <2>1, <2>2, <2>3 DEF Sifts
  <1> QED BY <1>5, <1>6

LEMMA AppendIs ==
    ASSUME NEW s \in Seq(Nat), IsInjective(s), NEW i \in Nat, i \notin Range(s)
    PROVE  /\ Append(s, i) \in Seq(Nat) /\ IsInjective(Append(s, i))
           /\ Range(Append(s, i)) = Range(s) \cup {i}
  <1> DEFINE r == Append(s, i)
             l == Len(s)
  <1>1. l \in Nat /\ DOMAIN s = 1..l /\ r \in Seq(Nat) /\ DOMAIN r = 1..l + 1
    OBVIOUS
  <1>2. r[l + 1] = i /\ \A n \in 1..l : r[n] = s[n]
    OBVIOUS
  <1> HIDE DEF r, l
  <1>3. \A n \in 1..l + 1 : n = l + 1 \/ n \in 1..l
    BY <1>1
  <1>4. \A n \in 1..l : s[n] # i /\ n \in 1..l + 1
    <2>1. \A n \in DOMAIN s : s[n] \in Range(s)
      BY DEF Range
    <2>2. \A n \in 1..l : n \in 1..l + 1
      BY <1>1
    <2> QED BY <1>1, <2>1, <2>2
  <1>5. IsInjective(r)
    <2>1. \A m, n \in 1..l : s[m] = s[n] => m = n
      BY <1>1 DEF IsInjective
    <2>2. \A m, n \in 1..l + 1 : r[m] = r[n] => m = n
      BY <1>2, <1>3, <1>4, <2>1
    <2> QED BY <1>1, <2>2 DEF IsInjective
  <1>6. Range(r) = Range(s) \cup {i}
    <2>1. Range(r) \subseteq Range(s) \cup {i}
      BY <1>1, <1>2, <1>3 DEF Range
    <2>2. Range(s) \cup {i} \subseteq Range(r)
      BY <1>1, <1>2, <1>4 DEF Range
    <2> QED BY <2>1, <2>2
  <1> QED BY <1>1, <1>5, <1>6 DEF r

\* By the first of s behind which it is not so.
LEMMA WithoutIs ==
    ASSUME NEW s \in Seq(Nat), IsInjective(s), NEW T
    PROVE  /\ Without(s, T) \in Seq(Nat) /\ IsInjective(Without(s, T))
           /\ Range(Without(s, T)) \subseteq Range(s) \ T
  <1> DEFINE l == Len(s)
  <1>1. l \in Nat /\ DOMAIN s = 1..l /\ \A n \in 1..l : s[n] \in Nat
    OBVIOUS
  <1>2. PICK left : Sifts(left, s, T, l) /\ Without(s, T) = left[l]
    BY WithoutSifts
  <1> DEFINE OfFirst(n) == {s[k] : k \in 1..n} \ T
             Good(n) == left[n] \in Seq(Nat) /\ IsInjective(left[n]) /\ Range(left[n]) \subseteq OfFirst(n)
             Bad == {n \in 0..l : ~Good(n)}
  <1>3. Good(0)
    <2>1. <<>> \in Seq(Nat) /\ IsInjective(<<>>) /\ Range(<<>>) = {}
      BY DEF IsInjective, Range
    <2> QED BY <1>2, <2>1 DEF Sifts
  <1>4. ASSUME NEW n \in 1..l, Good(n - 1) PROVE Good(n)
    <2> DEFINE r == left[n - 1]
    <2>1. r \in Seq(Nat) /\ IsInjective(r) /\ Range(r) \subseteq OfFirst(n - 1)
      BY <1>4
    <2>2. OfFirst(n - 1) \subseteq OfFirst(n) /\ s[n] \in Nat
      BY <1>1
    <2>3. s[n] \notin OfFirst(n - 1)
      <3> SUFFICES ASSUME NEW k \in 1..n - 1, s[k] = s[n] PROVE FALSE
        OBVIOUS
      <3>1. k \in DOMAIN s /\ n \in DOMAIN s /\ k # n
        BY <1>1
      <3> QED BY <3>1 DEF IsInjective
    <2>4. left[n] = IF s[n] \in T THEN r ELSE Append(r, s[n])
      BY <1>2 DEF Sifts
    <2>5. s[n] \notin T => s[n] \in OfFirst(n)
      BY <1>1
    <2> HIDE DEF r, OfFirst
    <2>6. CASE s[n] \in T
      BY <2>1, <2>2, <2>4, <2>6
    <2>7. CASE s[n] \notin T
      <3>1. s[n] \notin Range(r)
        BY <2>1, <2>3
      <3>2. /\ Append(r, s[n]) \in Seq(Nat) /\ IsInjective(Append(r, s[n]))
            /\ Range(Append(r, s[n])) = Range(r) \cup {s[n]}
        BY <2>1, <2>2, <3>1, AppendIs
      <3> QED BY <2>1, <2>2, <2>4, <2>5, <2>7, <3>2
    <2> QED BY <2>6, <2>7
  <1>5. Bad = {}
    <2> SUFFICES ASSUME Bad # {} PROVE FALSE
      OBVIOUS
    <2>1. Bad \subseteq Nat
      BY <1>1
    <2>2. PICK n \in Bad : \A k \in Bad : n <= k
      <3> HIDE DEF Bad
      <3> QED BY <2>1, LeastNat
    <2> HIDE DEF Good
    <2>3. n \in 0..l /\ n # 0
      BY <1>3
    <2>4. n \in 1..l /\ n - 1 \in 0..l /\ ~(n <= n - 1)
      BY <1>1, <2>3
    <2>5. n - 1 \notin Bad
      BY <2>1, <2>2, <2>4
    <2> QED BY <1>4, <2>4, <2>5
  <1>6. Good(l)
    <2> HIDE DEF Good
    <2> QED BY <1>1, <1>5
  <1>7. OfFirst(l) \subseteq Range(s) \ T
    BY <1>1 DEF Range
  <1> QED BY <1>2, <1>6, <1>7

LEMMA ConcatIs ==
    ASSUME NEW s \in Seq(Nat), IsInjective(s), NEW r \in Seq(Nat), IsInjective(r),
           Range(s) \cap Range(r) = {}
    PROVE  /\ s \o r \in Seq(Nat) /\ IsInjective(s \o r)
           /\ Range(s \o r) \subseteq Range(s) \cup Range(r)
  <1> DEFINE q == s \o r
             l == Len(s)
             k == Len(r)
  <1>1. l \in Nat /\ k \in Nat /\ DOMAIN s = 1..l /\ DOMAIN r = 1..k
    OBVIOUS
  <1>2. q \in Seq(Nat) /\ DOMAIN q = 1..l + k
    OBVIOUS
  <1>3. /\ \A n \in 1..l + k : n <= l => n \in 1..l /\ q[n] = s[n]
        /\ \A n \in 1..l + k : ~(n <= l) => n - l \in 1..k /\ q[n] = r[n - l]
    OBVIOUS
  <1> HIDE DEF q, l, k
  <1>4. /\ \A n \in 1..l : s[n] \in Range(s)
        /\ \A n \in 1..k : r[n] \in Range(r)
    BY <1>1 DEF Range
  <1>5. /\ \A m, n \in 1..l : s[m] = s[n] => m = n
        /\ \A m, n \in 1..k : r[m] = r[n] => m = n
    BY <1>1 DEF IsInjective
  <1>6. ASSUME NEW m \in 1..l + k, NEW n \in 1..l + k, q[m] = q[n] PROVE m = n
    <2>1. CASE m <= l /\ n <= l
      BY <1>3, <1>5, <1>6, <2>1
    <2>2. CASE ~(m <= l) /\ ~(n <= l)
      <3>1. m - l = n - l
        BY <1>3, <1>5, <1>6, <2>2
      <3> QED BY <1>1, <3>1
    <2>3. CASE m <= l /\ ~(n <= l)
      BY <1>3, <1>4, <1>6, <2>3
    <2>4. CASE ~(m <= l) /\ n <= l
      BY <1>3, <1>4, <1>6, <2>4
    <2> QED BY <2>1, <2>2, <2>3, <2>4
  <1>7. IsInjective(q)
    BY <1>2, <1>6 DEF IsInjective
  <1>8. Range(q) \subseteq Range(s) \cup Range(r)
    <2>1. \A n \in 1..l + k : q[n] \in Range(s) \cup Range(r)
      BY <1>3, <1>4
    <2> QED BY <1>2, <2>1 DEF Range
  <1> QED BY <1>2, <1>7, <1>8 DEF q

\* The due ones are waiting, each at one place.
InLine == line \in Seq(Nat) /\ Range(line) \subseteq Waiting /\ IsInjective(line)

LEMMA LineKept ==
    ASSUME InLine, line' = line, Waiting \subseteq Waiting'
    PROVE  InLine'
  BY DEF InLine

\* Some leave it, and what is left of it goes on waiting.
LEMMA LineShorter ==
    ASSUME InLine, NEW T, line' = Without(line, T), Waiting \ T \subseteq Waiting'
    PROVE  InLine'
  BY WithoutIs DEF InLine

LEMMA WriteLine ==
    ASSUME Rows, InLine, NEW i, NEW s, NEW n, Write(i, s, n)
    PROVE  InLine'
  <1>1. CASE i \notin Waiting
    BY <1>1, LineKept DEF Write, Waiting
  <1>2. CASE i \in Waiting
    <2>1. rows' = [rows EXCEPT ![i] = Now(i, s, rows[i].tries + n)] /\ line' = Without(line, {i})
      BY <1>2 DEF Write
    <2>2. Waiting \ {i} \subseteq Waiting'
      BY <2>1 DEF Waiting
    <2> QED BY <2>1, <2>2, LineShorter
  <1> QED BY <1>1, <1>2

LEMMA QueueLine ==
    ASSUME Rows, InLine, hooks \subseteq Hook, NEW o \in Order, Queue(o)
    PROVE  InLine'
  <1> DEFINE to == {h \in hooks : StoreOf[h] = StoreOf[o]}
             ids == NextId .. NextId + Cardinality(to) - 1
             c == Cardinality(to)
             more == [n \in 1 .. Cardinality(to) |-> NextId + n - 1]
  <1>1. c \in Nat /\ newest \in Nat
    BY DeliveriesAssumption, FS_Subset, FS_CardinalityType DEF Rows
  <1>2. PICK hookOf :
          rows' = [i \in DOMAIN rows \cup ids |->
                     IF i \in ids THEN NewRow(hookOf[i], o, "waiting", 0) ELSE rows[i]]
    BY DEF Queue
  <1>3. line' = line \o more
    BY DEF Queue
  <1> HIDE DEF c, to
  <1>4. /\ more \in Seq(Nat) /\ DOMAIN more = 1..Cardinality(to)
        /\ \A n \in 1..Cardinality(to) : more[n] = newest + n /\ more[n] \in ids
    BY <1>1 DEF NextId, c
  <1>5. \A i \in DOMAIN rows : i \notin ids
    BY <1>1 DEF NextId, Rows
  <1>6. Waiting \subseteq Waiting' /\ ids \subseteq Waiting'
    <2> HIDE DEF ids
    <2> QED BY <1>2, <1>5 DEF Waiting, NewRow
  <1> HIDE DEF more
  <1>7. IsInjective(more)
    BY <1>1, <1>4 DEF IsInjective, c
  <1>8. Range(more) \subseteq ids
    <2> HIDE DEF ids
    <2> QED BY <1>4 DEF Range
  <1> HIDE DEF ids
  <1>9. Range(line) \cap Range(more) = {}
    BY <1>5, <1>8 DEF InLine, Waiting
  <1>10. line' \in Seq(Nat) /\ IsInjective(line') /\ Range(line') \subseteq Range(line) \cup Range(more)
    BY <1>3, <1>4, <1>7, <1>9, ConcatIs DEF InLine
  <1> QED BY <1>6, <1>8, <1>10 DEF InLine

LEMMA LineStep ==
    ASSUME Rows, InLine, hooks \subseteq Hook, [Next]_vars
    PROVE  InLine'
  <1>1. \A i \in Waiting : i \in Nat /\ i \in DOMAIN rows /\ i # NextId
    BY DEF Rows, Waiting, NextId
  <1>2. CASE \E o \in Order : Queue(o)
    BY <1>2, QueueLine
  <1>3. ASSUME NEW h \in Hook, Test(h) PROVE InLine'
    <2>1. PICK s : rows' = [i \in DOMAIN rows \cup {NextId} |->
                              IF i = NextId THEN NewRow(h, NoOrder, s, 1) ELSE rows[i]]
      BY <1>3 DEF Test
    <2>2. line' = line
      BY <1>3 DEF Test
    <2>3. Waiting \subseteq Waiting'
      BY <1>1, <2>1 DEF Waiting
    <2> QED BY <2>2, <2>3, LineKept
  <1>4. ASSUME NEW h \in Hook, RetryFailed(h) PROVE InLine'
    <2> DEFINE failed == {i \in DOMAIN rows : rows[i].hook = h /\ rows[i].state = "gaveUp"}
    <2>1. line' = line /\ rows' = [i \in DOMAIN rows |->
                                     IF i \in failed THEN Now(i, "waiting", 0) ELSE rows[i]]
      BY <1>4 DEF RetryFailed
    <2>2. Waiting \subseteq Waiting'
      BY <2>1 DEF Waiting
    <2> QED BY <2>1, <2>2, LineKept
  <1>5. ASSUME NEW h \in Hook, DeleteHook(h) PROVE InLine'
    <2> DEFINE kept == {i \in DOMAIN rows : rows[i].hook # h}
    <2>1. rows' = [i \in kept |-> rows[i]] /\ line' = Without(line, DOMAIN rows \ kept)
      BY <1>5 DEF DeleteHook
    <2>2. Waiting \ (DOMAIN rows \ kept) \subseteq Waiting'
      BY <2>1 DEF Waiting
    <2> QED BY <2>1, <2>2, LineShorter
  <1>6. ASSUME NEW i \in DOMAIN rows, Due(i) PROVE InLine'
    <2>1. i \in Waiting /\ i \notin Range(line) /\ line' = Append(line, i) /\ Waiting' = Waiting
      BY <1>6 DEF Due, Waiting
    <2>2. line' \in Seq(Nat) /\ IsInjective(line') /\ Range(line') = Range(line) \cup {i}
      BY <1>1, <2>1, AppendIs DEF InLine
    <2> QED BY <2>1, <2>2 DEF InLine
  <1>7. ASSUME NEW i \in DOMAIN rows, SendAgain(i) PROVE InLine'
    <2> DEFINE rest == Without(line, {i})
               n == IF i \in Waiting THEN rows[i].tries ELSE 0
    <2>1. line' = Append(rest, i) /\ rows' = [rows EXCEPT ![i] = Now(i, "waiting", n)]
      BY <1>7 DEF SendAgain
    <2>2. rest \in Seq(Nat) /\ IsInjective(rest) /\ Range(rest) \subseteq Range(line) \ {i}
      BY WithoutIs DEF InLine
    <2>3. Waiting \subseteq Waiting' /\ i \in Waiting' /\ i \in Nat
      BY <2>1 DEF Waiting, Now, Rows
    <2> HIDE DEF rest
    <2>4. line' \in Seq(Nat) /\ IsInjective(line') /\ Range(line') = Range(rest) \cup {i}
      BY <2>1, <2>2, <2>3, AppendIs
    <2> QED BY <2>2, <2>3, <2>4 DEF InLine
  <1>8. ASSUME NEW i \in DOMAIN rows, Prune(i) PROVE InLine'
    <2>1. line' = line /\ i \notin Waiting /\ rows' = [j \in DOMAIN rows \ {i} |-> rows[j]]
      BY <1>8 DEF Prune
    <2>2. Waiting \subseteq Waiting'
      BY <2>1 DEF Waiting
    <2> QED BY <2>1, <2>2, LineKept
  <1>9. ASSUME UNCHANGED <<rows, line>> PROVE InLine'
    BY <1>9, LineKept DEF Waiting
  <1>10. CASE \E d \in batch : Skip(d)
    BY <1>9, <1>10, WriteLine DEF Skip
  <1>11. CASE \E d \in sending : Finish(d)
    BY <1>9, <1>11, WriteLine DEF Finish
  <1>12. CASE (\E n \in MaxAttempts : Configure(n)) \/ Pick \/ Crash \/ UNCHANGED vars
              \/ \E d \in batch : Start(d)
    BY <1>9, <1>12 DEF Configure, Pick, Crash, vars, Start, table
  <1> QED BY <1>2, <1>3, <1>4, <1>5, <1>6, <1>7, <1>8, <1>10, <1>11, <1>12 DEF Next

\* What is left of the types.
Plain ==
    /\ most \in MaxAttempts /\ allowed \in MaxAttempts
    /\ batch \subseteq Taken /\ sending \subseteq Taken
    /\ answered \subseteq Hook \X Nat /\ surprises \in Nat

LEMMA PlainStep ==
    ASSUME Rows, Plain, [Next]_vars
    PROVE  Plain'
  <1>1. events \in Nat /\ events + 1 \in Nat
    BY DEF Rows
  <1>2. surprises' \in Nat
    <2> SUFFICES surprises' = surprises \/ Surprise
      BY DEF Plain, Surprise
    <2>1. CASE \E h \in Hook : Test(h) \/ RetryFailed(h) \/ DeleteHook(h)
      BY <2>1 DEF Test, RetryFailed, DeleteHook
    <2>2. CASE \E i \in DOMAIN rows : Due(i) \/ SendAgain(i) \/ Prune(i)
      BY <2>2 DEF Due, SendAgain, Prune, history
    <2>3. CASE \E d \in batch : Start(d) \/ Skip(d)
      BY <2>3 DEF Start, Skip, history
    <2>4. CASE \E d \in sending : Finish(d)
      BY <2>4 DEF Finish
    <2>5. CASE (\E n \in MaxAttempts : Configure(n)) \/ Pick \/ Crash \/ UNCHANGED vars
      BY <2>5 DEF Configure, Pick, Crash, vars, history
    <2>6. CASE \E o \in Order : Queue(o)
      BY <2>6 DEF Queue
    <2> QED BY <2>1, <2>2, <2>3, <2>4, <2>5, <2>6 DEF Next
  <1>3. most' \in MaxAttempts /\ allowed' \in MaxAttempts
    BY DEF Plain, Next, vars, table, worker, history, Queue, Test, RetryFailed, DeleteHook, Due,
           SendAgain, Prune, Configure, Pick, Crash, Start, Skip, Finish
  <1>4. CASE Pick
    <2>1. \A i \in Picks : i \in DOMAIN rows
      BY DEF Picks, Waiting
    <2>2. \A i \in Picks : Read(i) \in Taken
      BY <2>1, Types DEF Read, Taken
    <2>3. batch' \subseteq Taken /\ sending' = sending /\ answered' = answered
      BY <1>4, <2>2 DEF Pick, history
    <2> QED BY <1>2, <1>3, <2>3 DEF Plain
  <1>5. ASSUME NEW d \in sending, Finish(d) PROVE Plain'
    <2>1. d.hook \in Hook /\ d.event \in Nat
      BY DEF Plain, Taken
    <2>2. /\ answered' \subseteq answered \cup {<<d.hook, d.event>>}
          /\ batch' = batch /\ sending' \subseteq sending
      BY <1>5 DEF Finish
    <2> QED BY <1>2, <1>3, <2>1, <2>2 DEF Plain
  <1>6. ASSUME NEW h \in Hook, Test(h) PROVE Plain'
    <2>1. answered' \subseteq answered \cup {<<h, events + 1>>} /\ batch' = batch /\ sending' = sending
      BY <1>6 DEF Test, worker
    <2> QED BY <1>1, <1>2, <1>3, <2>1 DEF Plain
  <1>7. ASSUME batch' \subseteq batch, sending' \subseteq sending \cup batch, answered' = answered
        PROVE  Plain'
    BY <1>2, <1>3, <1>7 DEF Plain
  <1>8. CASE (\E h \in Hook : RetryFailed(h) \/ DeleteHook(h)) \/ \E o \in Order : Queue(o)
    BY <1>7, <1>8 DEF RetryFailed, DeleteHook, Queue, worker
  <1>9. CASE \E i \in DOMAIN rows : Due(i) \/ SendAgain(i) \/ Prune(i)
    BY <1>7, <1>9 DEF Due, SendAgain, Prune, worker, history
  <1>10. CASE (\E n \in MaxAttempts : Configure(n)) \/ Crash \/ UNCHANGED vars
    BY <1>7, <1>10 DEF Configure, Crash, vars, worker, history
  <1>11. CASE \E d \in batch : Start(d) \/ Skip(d)
    BY <1>7, <1>11 DEF Start, Skip, history
  <1> QED BY <1>4, <1>5, <1>6, <1>8, <1>9, <1>10, <1>11 DEF Next

\* The types hold: each due delivery is waiting and at one place of the line,
\* and what isn't waiting was settled.
THEOREM DeliveryTypes == Spec => []TypeOK
  <1> DEFINE Inv == IInv /\ hooks \subseteq Hook
  <1>1. Init => InLine /\ Plain
    <2>1. <<>> \in Seq(Nat) /\ IsInjective(<<>>) /\ Range(<<>>) = {}
      BY DEF IsInjective, Range
    <2> QED BY <2>1 DEF Init, InLine, Plain
  <1>2. Inv /\ InLine /\ Plain /\ [Next]_vars => (InLine /\ Plain)'
    BY LineStep, PlainStep DEF IInv
  <1>3. Inv /\ InLine /\ Plain => TypeOK
    BY DEF IInv, Rows, InLine, Plain, TypeOK
  <1> HIDE DEF Inv
  <1>4. Spec => []Inv
    BY DeliveriesInvariant DEF Inv
  <1> QED BY <1>1, <1>2, <1>3, <1>4, PTL DEF Spec
=============================================================================
