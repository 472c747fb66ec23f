----------------------------- MODULE Deliveries -----------------------------
(***************************************************************************)
(* monokulo's webhook deliveries: the rows an order event is queued as     *)
(* (crates/monokulo/src/db/webhooks.rs), the worker that sends them in     *)
(* batches (crates/monokulo/src/webhooks/delivery.rs), and what merchants  *)
(* do with them meanwhile.                                                 *)
(*                                                                         *)
(* Times are left out but for their order: a waiting delivery is due, at a *)
(* place in the line of those that are, or will be.                        *)
(***************************************************************************)
EXTENDS Integers, Sequences, FiniteSets, Functions

CONSTANTS
    Hook, Order,        \* the webhooks, the orders
    StoreOf,            \* the store each of them is of
    NoOrder,            \* what a test delivery is about
    PerStore,           \* the most of a store in a batch (DELIVERY_PER_STORE)
    BatchSize,          \* the most in a batch (DELIVERY_BATCH)
    Concurrency,        \* the most being sent (DELIVERY_CONCURRENCY)
    MaxAttempts,        \* the settings there are of webhooks.max_attempts
    MaxEvents,          \* bound: how many events there are, tests too
    MaxSurprises        \* bound: how many crashes, lost writes, deletions,
                        \* changed settings and merchants' requests

ASSUME DeliveriesAssumption ==
    /\ IsFiniteSet(Hook) /\ NoOrder \notin Order
    /\ PerStore \in Nat \ {0} /\ BatchSize \in Nat \ {0} /\ Concurrency \in Nat \ {0}
    /\ MaxAttempts \subseteq Nat \ {0} /\ MaxEvents \in Nat /\ MaxSurprises \in Nat

VARIABLES
    hooks,              \* the webhooks not deleted
    rows,               \* the deliveries, by their ids (webhook_deliveries)
    newest,             \* the newest id given out (sqlite_sequence)
    line,               \* the due ones, by when they fell due
    most,               \* webhooks.max_attempts
    \* The worker's batch.
    batch,              \* the deliveries it read and hasn't begun with
    sending,            \* those it is sending
    allowed,            \* the setting, as it read it
    \* What happened.
    events,             \* how many events there were
    answered,           \* which an endpoint accepted, by webhook and event
    settled,            \* the deliveries once delivered or given up on
    surprises

table == <<hooks, rows, newest, line>>
worker == <<batch, sending, allowed>>
history == <<events, answered, settled, surprises>>
vars == <<table, most, worker, history>>

\* waiting: next_attempt_at_utc is set.
Delivery == [hook : Hook, order : Order \cup {NoOrder}, event : Nat,
             state : {"waiting", "delivered", "gaveUp"}, tries : Nat]

Waiting == {i \in DOMAIN rows : rows[i].state = "waiting"}
\* Mutant: a settled one stays due.
WithAll(s, T) == s
Without(s, T) ==
    LET left[n \in 0 .. Len(s)] ==
          IF n = 0 THEN <<>> ELSE IF s[n] \in T THEN left[n - 1] ELSE Append(left[n - 1], s[n])
    IN  left[Len(s)]

Init ==
    /\ hooks = Hook /\ rows = <<>> /\ newest = 0 /\ line = <<>> /\ most \in MaxAttempts
    /\ batch = {} /\ sending = {} /\ allowed = most
    /\ events = 0 /\ answered = {} /\ settled = {} /\ surprises = 0

Surprise == surprises < MaxSurprises /\ surprises' = surprises + 1

-----------------------------------------------------------------------------
(* New deliveries. *)

\* The ids are never given out again (AUTOINCREMENT).
\* Mutant: a deleted delivery's id is.
ReusedId == CHOOSE n \in 1 .. newest + 1 :
    (n = 1 \/ n - 1 \in DOMAIN rows) /\ \A i \in DOMAIN rows : i < n
NextId == newest + 1

NewRow(h, o, state, tries) ==
    [hook |-> h, order |-> o, event |-> events + 1, state |-> state, tries |-> tries]

Now(i, state, tries) ==
    [hook |-> rows[i].hook, order |-> rows[i].order, event |-> rows[i].event,
     state |-> state, tries |-> tries]

\* queue_order_event, of an event it didn't queue before: for each webhook of
\* the order's store.
Queue(o) ==
    LET to == {h \in hooks : StoreOf[h] = StoreOf[o]}
        ids == NextId .. NextId + Cardinality(to) - 1
    IN  /\ events < MaxEvents /\ events' = events + 1
        /\ \E hookOf \in Bijection(ids, to) :
             rows' = [i \in DOMAIN rows \cup ids |->
                        IF i \in ids THEN NewRow(hookOf[i], o, "waiting", 0) ELSE rows[i]]
        /\ newest' = newest + Cardinality(to)
        /\ line' = line \o [n \in 1 .. Cardinality(to) |-> NextId + n - 1]
        /\ UNCHANGED <<hooks, most, worker, answered, settled, surprises>>

\* A test delivery, sent before it is recorded (record_test_delivery).
Test(h) ==
    \E state \in {"delivered", IF most > 1 THEN "waiting" ELSE "gaveUp"} :
        /\ h \in hooks /\ events < MaxEvents /\ events' = events + 1
        /\ rows' = [i \in DOMAIN rows \cup {NextId} |->
                      IF i = NextId THEN NewRow(h, NoOrder, state, 1) ELSE rows[i]]
        /\ newest' = NextId
        /\ answered' = IF state = "delivered" THEN answered \cup {<<h, events + 1>>} ELSE answered
        /\ settled' = IF state = "waiting" THEN settled ELSE settled \cup {NextId}
        /\ UNCHANGED <<hooks, line, most, worker, surprises>>

\* Its next attempt falls due.
Due(i) ==
    /\ i \in Waiting \ Range(line)
    /\ line' = Append(line, i)
    /\ UNCHANGED <<hooks, rows, newest, most, worker, history>>

-----------------------------------------------------------------------------
(* The worker (run_delivery_tick). *)

Together(i, j) == rows[i].hook = rows[j].hook /\ rows[i].order = rows[j].order

\* Mutants: of those that are due; each of them; whatever was given up on, too.
OldestDue(i) == \A j \in Range(line) : Together(i, j) => i <= j
AnyDue(i) == TRUE
OldestKept(i) == \A j \in DOMAIN rows : Together(i, j) /\ rows[j].state # "delivered" => i <= j
Oldest(i) == \A j \in Waiting : Together(i, j) => i <= j

\* due_deliveries: the oldest waiting one of each webhook and order if it is
\* due, and then as many as there is room for, by when they fell due.
Ahead(T, i) == {j \in T : \E m, n \in DOMAIN line : m < n /\ line[m] = j /\ line[n] = i}
Picks ==
    LET first == {i \in Range(line) \cap Waiting : Oldest(i)}
        OfStore(i) == {j \in first : StoreOf[rows[j].hook] = StoreOf[rows[i].hook]}
        fair == {i \in first : Cardinality(Ahead(OfStore(i), i)) < PerStore}
    IN  {i \in fair : Cardinality(Ahead(fair, i)) < BatchSize}

Read(i) == [id |-> i, hook |-> rows[i].hook, order |-> rows[i].order,
            event |-> rows[i].event, tries |-> rows[i].tries]

Pick ==
    /\ batch = {} /\ sending = {} /\ Picks # {}
    /\ batch' = {Read(i) : i \in Picks} /\ allowed' = most
    /\ UNCHANGED <<table, most, sending, history>>

\* They are begun with in any order: the code takes them in the line's.
Start(d) ==
    /\ d \in batch /\ d.tries < allowed /\ Cardinality(sending) < Concurrency
    /\ batch' = batch \ {d} /\ sending' = sending \cup {d}
    /\ UNCHANGED <<table, most, allowed, history>>

\* The delivery i is written with a state, and tries more attempts.
Write(i, state, tries) ==
    IF i \notin Waiting THEN UNCHANGED <<rows, line, settled>>
    ELSE /\ rows' = [rows EXCEPT ![i] = Now(i, state, rows[i].tries + tries)]
         /\ line' = Without(line, {i})
         /\ settled' = IF state = "waiting" THEN settled ELSE settled \cup {i}

\* give_up_delivery: the most attempts was lowered, or the webhook's secret
\* can't be read, which any may be.  The write may fail.
Skip(d) ==
    /\ d \in batch /\ batch' = batch \ {d}
    /\ \/ Write(d.id, "gaveUp", 0) /\ UNCHANGED surprises
       \/ Surprise /\ UNCHANGED <<rows, line, settled>>
    /\ UNCHANGED <<hooks, newest, most, sending, allowed, events, answered>>

\* Tried again later, unless it arrived or that was the last attempt.
After(d, ok) ==
    IF ok THEN "delivered" ELSE IF d.tries + 1 < allowed THEN "waiting" ELSE "gaveUp"

\* record_delivery_attempt, with the endpoint's answer.  The write may fail.
Finish(d) ==
    \E ok \in BOOLEAN :
        /\ d \in sending /\ sending' = sending \ {d}
        /\ answered' = IF ok THEN answered \cup {<<d.hook, d.event>>} ELSE answered
        /\ \/ Write(d.id, After(d, ok), 1) /\ UNCHANGED surprises
           \/ Surprise /\ UNCHANGED <<rows, line, settled>>
        /\ UNCHANGED <<hooks, newest, most, batch, allowed, events>>

\* monokulo stops and starts again.
Crash ==
    /\ batch \cup sending # {} /\ Surprise
    /\ batch' = {} /\ sending' = {}
    /\ UNCHANGED <<table, most, allowed, events, answered, settled>>

-----------------------------------------------------------------------------
(* The settings page, and the age of deliveries. *)

\* send_delivery_again: it falls due now, and what was settled starts over.
SendAgain(i) ==
    /\ i \in DOMAIN rows /\ Surprise
    /\ rows' = [rows EXCEPT ![i] = Now(i, "waiting", IF i \in Waiting THEN rows[i].tries ELSE 0)]
    /\ line' = Append(Without(line, {i}), i)
    /\ UNCHANGED <<hooks, newest, most, worker, events, answered, settled>>

\* retry_failed_deliveries, of the failed ones as they were given up on.
RetryFailed(h) ==
    LET failed == {i \in DOMAIN rows : rows[i].hook = h /\ rows[i].state = "gaveUp"}
    IN  /\ failed # {} /\ Surprise
        /\ rows' = [i \in DOMAIN rows |->
                      IF i \in failed THEN Now(i, "waiting", 0) ELSE rows[i]]
        /\ UNCHANGED <<hooks, newest, line, most, worker, events, answered, settled>>

\* delete_webhook, whose deliveries go with it.
DeleteHook(h) ==
    LET kept == {i \in DOMAIN rows : rows[i].hook # h}
    IN  /\ h \in hooks /\ Surprise
        /\ hooks' = hooks \ {h}
        /\ rows' = [i \in kept |-> rows[i]]
        /\ line' = Without(line, DOMAIN rows \ kept)
        /\ UNCHANGED <<newest, most, worker, events, answered, settled>>

\* prune_deliveries, between two batches.
Prune(i) ==
    /\ batch = {} /\ sending = {} /\ i \in DOMAIN rows \ Waiting
    /\ rows' = [j \in DOMAIN rows \ {i} |-> rows[j]]
    /\ UNCHANGED <<hooks, newest, line, most, worker, history>>

Configure(n) ==
    /\ n # most /\ Surprise /\ most' = n
    /\ UNCHANGED <<table, worker, events, answered, settled>>

Next ==
    \/ \E o \in Order : Queue(o)
    \/ \E h \in Hook : Test(h) \/ RetryFailed(h) \/ DeleteHook(h)
    \/ \E i \in DOMAIN rows : Due(i) \/ SendAgain(i) \/ Prune(i)
    \/ \E n \in MaxAttempts : Configure(n)
    \/ Pick \/ Crash
    \/ \E d \in batch : Start(d) \/ Skip(d)
    \/ \E d \in sending : Finish(d)

Spec == Init /\ [][Next]_vars

\* Time passes, and the worker goes on (run_delivery_loop).
FairSpec ==
    /\ Spec
    /\ WF_vars(\E i \in DOMAIN rows : Due(i)) /\ WF_vars(Pick)
    /\ WF_vars(\E d \in batch : Start(d) \/ Skip(d)) /\ WF_vars(\E d \in sending : Finish(d))

-----------------------------------------------------------------------------

Taken == [id : Nat, hook : Hook, order : Order \cup {NoOrder}, event : Nat, tries : Nat]

TypeOK ==
    /\ hooks \subseteq Hook /\ newest \in Nat /\ most \in MaxAttempts /\ allowed \in MaxAttempts
    /\ DOMAIN rows \subseteq 1..newest /\ \A i \in DOMAIN rows : rows[i] \in Delivery
    /\ line \in Seq(Nat) /\ Range(line) \subseteq Waiting /\ IsInjective(line)
    /\ batch \subseteq Taken /\ sending \subseteq Taken
    /\ events \in Nat /\ answered \subseteq Hook \X Nat /\ surprises \in Nat
    /\ settled \subseteq 1..newest /\ DOMAIN rows \ Waiting \subseteq settled

\* Two events of one order are never sent to a webhook at once, whatever is
\* queued, sent again or lost while a batch is being sent (due_deliveries).
OneInFlight == \A d, e \in sending : d.hook = e.hook /\ d.order = e.order => d = e

\* An event is sent to a webhook only when every earlier one of its order was
\* delivered or given up on, once: only those a merchant asked for again may be
\* waiting (due_deliveries).
NoOvertaking ==
    [][\A d \in sending' \ sending : \A j \in Waiting :
        (j < d.id /\ rows[j].hook = d.hook /\ rows[j].order = d.order) => j \in settled]_vars

\* A delivery that is shown as delivered was accepted by its own endpoint,
\* though its webhook may have been deleted, or its row pruned or asked for
\* again, while an attempt was being made (record_delivery_attempt).
DeliveredWasAccepted ==
    \A i \in DOMAIN rows :
        rows[i].state = "delivered" => <<rows[i].hook, rows[i].event>> \in answered

\* Every delivery is settled in the end, or deleted with its webhook: none
\* waits for ever behind another, and none is tried for ever.
EventuallySettled ==
    \A i \in 1 .. MaxEvents * Cardinality(Hook) : i \in Waiting ~> i \notin Waiting
=============================================================================
