------------------------------ MODULE Settlement ------------------------------
(***************************************************************************)
(* The orders of one network and when their status is recomputed: the      *)
(* settlement tier (crates/engine/src/work/settlement.rs), and every       *)
(* transaction of the store that changes an order's payments, its deadline *)
(* or what a recompute goes by (crates/engine/src/store, scanner.rs).      *)
(*                                                                         *)
(* An action is one transaction, or the reading of a tip or a time that a  *)
(* later one goes by: a round, the fast path and a lookup each keep what   *)
(* they read while the others go on.  The chain is left out: the scanner's *)
(* transactions happen in any order and with any height the node may have  *)
(* named (NetworkScan says which of them happen when).                     *)
(***************************************************************************)
EXTENDS OrderStatus

CONSTANTS
    Order,
    Pay,            \* the outputs that pay the orders: the ids of their rows
    Pays,           \* Pays[p] is the order p pays
    Amount,         \* Amount[p], in piconero
    Price,          \* Price[o], xmr_amount_piconero
    Required,       \* Required[o], the confirmations it requires
    Deadline,       \* Deadline[o], expires_at as created
    Start,          \* the heights the node's chain may have at first
    MaxTip, MaxNow, \* bounds: heights are 1..MaxTip, times 0..MaxNow
    MaxSurprises    \* bound: changes of tip, jobs, voids, lookups, crashes, ...

Height == 1..MaxTip
Time == 0..MaxNow

\* An order asks for something (create_order refuses an amount of zero).
ASSUME SettlementAssumption ==
    /\ Pay \subseteq Nat /\ IsFiniteSet(Pay)
    /\ Pays \in [Pay -> Order] /\ Amount \in [Pay -> Nat]
    /\ Price \in [Order -> Nat \ {0}] /\ Required \in [Order -> Nat] /\ Deadline \in [Order -> Nat]
    /\ MaxTip \in Nat \ {0} /\ MaxNow \in Nat /\ MaxSurprises \in Nat
    /\ Start \subseteq Height

VARIABLES
    node,           \* the height of the node's chain
    now,
    surprises,
    roundNow,       \* the time the round took before it read its tip (Round.now)
    roundTip,       \* the tip the round read, and last_tip after it (None: none yet)
    observed,       \* this round's settlement tier has recorded its tip
    fast,           \* the fast pass: the tip it read and when, and what it has still to scan
    lookup,         \* the payment lookup that has recorded what it found
    \* the store
    row,            \* order_payments: [height, voided], or None
    order,          \* orders: the fields a recompute reads and writes
    pending,        \* pending_payment_recomputes
    highWater,      \* the highest recorded block
    cursor,         \* scanned_through_height of the store
    fork,           \* the fork of the open reorg job, or None
    settlementTip,  \* the SettlementTip position
    unsynchronized, \* the NodeUnsynchronized position
    \* auxiliary
    ahead,          \* the height each order was last recomputed at, if it was above
                    \* the settlement tip, or 0
    lowest          \* the lowest height the node had since each order's deadline
                    \* passed (None: it hasn't)

world == <<node, now, lowest>>
round == <<roundNow, roundTip, observed>>
beside == <<fast, lookup>>
chain == <<highWater, cursor, fork>>
positions == <<settlementTip, unsynchronized>>
orders == <<order, pending, ahead>>
vars == <<world, surprises, round, beside, row, orders, chain, positions>>

Rested == [tip |-> None, told |-> 0, due |-> {}]
NoLookup == [step |-> "none"]
Lookup ==
    {NoLookup} \cup [step : {"recorded"}, order : Order, now : Time]
              \cup [step : {"asked"}, order : Order, now : Time, tip : Height]

TypeOK ==
    /\ node \in Height /\ now \in Time /\ surprises \in 0..MaxSurprises
    /\ roundNow \in Time /\ roundTip \in Height \cup {None} /\ observed \in BOOLEAN
    /\ fast \in [tip : Height \cup {None}, told : Time, due : SUBSET Pay] /\ lookup \in Lookup
    /\ row \in [Pay -> [height : Height \cup {None}, voided : BOOLEAN] \cup {None}]
    /\ order \in [Order -> [status : Status, received : Nat, expires : Nat,
                            dueAt : Nat \cup {None}, dueHeight : Nat \cup {None},
                            cancelled : BOOLEAN, flagged : BOOLEAN]]
    /\ pending \subseteq Order
    /\ highWater \in 0..MaxTip /\ cursor \in 0..MaxTip
    /\ fork \in Height \cup {None}
    /\ settlementTip \in Height \cup {None} /\ unsynchronized \in BOOLEAN
    /\ ahead \in [Order -> 0..MaxTip]
    /\ lowest \in [Order -> Height \cup {None}]

Surprise == surprises < MaxSurprises /\ surprises' = surprises + 1

-----------------------------------------------------------------------------
(* A recompute. *)

Valid(R, p) == R[p] # None /\ ~R[p].voided
Counted(R, o) == {p \in Pay : Pays[p] = o /\ Valid(R, p)}

Views(R, o, tip) ==
    [p \in Counted(R, o) |->
        [amount |-> Amount[p],
         conf |-> IF R[p].height = None \/ R[p].height > tip THEN 0 ELSE tip - R[p].height + 1,
         zero |-> R[p].height = None]]

\* scan_row_behind.
Behind(tip) == cursor < tip \/ cursor < highWater \/ unsynchronized \/ (fork # None /\ cursor >= fork)

\* A counted payment is in a block above every recorded one: the node named
\* it, and no fork detection covers it yet.  Mutant: only in a block above
\* the tip.
AboveTip(R, o) == \E p \in Counted(R, o) : R[p].height # None /\ R[p].height > node
Unscanned(R, o) == \E p \in Counted(R, o) : R[p].height # None /\ R[p].height > highWater

Facts(R, o, tip, time) ==
    [lagging |-> Behind(tip), frozen |-> fork # None \/ Unscanned(R, o),
     conflicted |-> FALSE, proven |-> None, height |-> tip, now |-> time]

Terms(o, orec) ==
    [amount |-> Price[o], required |-> Required[o], expires |-> orec.expires,
     cancelled |-> orec.cancelled, status |-> orec.status]

PlanOf(R, o, orec, tip, time) ==
    Plan(Views(R, o, tip), Terms(o, orec), Facts(R, o, tip, time))

\* recompute_order_status, of the order read as orec with the payments R, at a
\* tip and a time read before.  (\E and not LET: TLC evaluates a LET or an argument
\* anew at each use, in ENABLED.)
Recompute(o, R, orec, tip, time) ==
    \E V \in {Views(R, o, tip)}, terms \in {Terms(o, orec)}, facts \in {Facts(R, o, tip, time)} :
    \E plan \in {Plan(V, terms, facts)} :
        /\ order' = [order EXCEPT ![o] =
              [status |-> plan.status, received |-> plan.received, expires |-> orec.expires,
               dueAt |-> plan.dueAt, dueHeight |-> plan.dueHeight,
               cancelled |-> orec.cancelled, flagged |-> orec.flagged]]
        /\ pending' = IF plan.keep THEN pending \cup {o} ELSE pending \ {o}
        /\ ahead' = [ahead EXCEPT ![o] = IF settlementTip # None /\ tip > settlementTip THEN tip ELSE 0]

\* The triggers of migration 0017: a payment changed and its order wasn't
\* recomputed in the same transaction.
ObligedBy(R) == pending \cup {Pays[p] : p \in {q \in Pay : R[q] # row[q]}}
LeaveObligation(R) == pending' = ObligedBy(R) /\ UNCHANGED <<order, ahead>>

\* enqueue_mined_payment_recomputes
Mined(R) == {o \in Order : \E p \in Counted(R, o) : R[p].height # None}

-----------------------------------------------------------------------------

Init ==
    /\ node \in Start /\ now = 0 /\ surprises = 0
    /\ roundNow = 0 /\ roundTip = None /\ observed = FALSE
    /\ fast = Rested /\ lookup = NoLookup
    /\ row = [p \in Pay |-> None]
    /\ order = [o \in Order |->
          [status |-> "pending", received |-> 0, expires |-> Deadline[o],
           dueAt |-> Deadline[o], dueHeight |-> None, cancelled |-> FALSE, flagged |-> FALSE]]
    /\ pending = {} /\ ahead = [o \in Order |-> 0]
    /\ lowest = [o \in Order |-> None]
    /\ highWater = 1 /\ cursor = 1 /\ fork = None
    /\ settlementTip = None /\ unsynchronized = FALSE

Tick ==
    /\ now < MaxNow /\ now' = now + 1
    /\ lowest' = [o \in Order |->
          IF lowest[o] = None /\ now' > order[o].expires THEN node ELSE lowest[o]]
    /\ UNCHANGED <<node, surprises, round, beside, row, orders, chain, positions>>

\* Blocks are added, or the chain is replaced by a shorter one.
NodeMoves(tip) ==
    /\ tip # node /\ Surprise
    /\ node' = tip
    /\ lowest' = [o \in Order |->
          IF lowest[o] # None /\ tip < lowest[o] THEN tip ELSE lowest[o]]
    /\ UNCHANGED <<now, round, beside, row, orders, chain, positions>>

\* A round takes the time, t, then asks for the tip.  (One that isn't told it
\* leaves the chain to the next.)
BeginRound(t) ==
    /\ t \in roundNow..now
    /\ roundNow' = t /\ roundTip' = node /\ observed' = FALSE
    /\ UNCHANGED <<world, surprises, beside, row, orders, chain, positions>>

Crash ==
    /\ Surprise
    /\ roundTip' = None /\ observed' = FALSE
    /\ fast' = Rested /\ lookup' = NoLookup
    /\ UNCHANGED <<world, roundNow, row, orders, chain, positions>>

-----------------------------------------------------------------------------
(* The settlement tier. *)

\* observe_settlement_tip.  Mutant: only the height is kept.
NoneShortened(tip) == {}
ShortenedBy(tip) == IF settlementTip = None \/ tip < settlementTip THEN Mined(row) ELSE {}

ObserveTip ==
    /\ roundTip # None /\ ~observed
    /\ observed' = TRUE
    /\ settlementTip' = roundTip
    /\ pending' = pending \cup ShortenedBy(roundTip)
    /\ UNCHANGED <<world, surprises, roundNow, roundTip, beside, row, order, ahead, chain,
                   unsynchronized>>

\* observe_node_synchronized, what the node answered being s.
ObserveSynchronized(s) ==
    /\ observed
    /\ s \/ surprises < MaxSurprises
    /\ surprises' = IF s THEN surprises ELSE surprises + 1
    /\ unsynchronized' = ~s
    /\ UNCHANGED <<world, round, beside, row, orders, chain, settlementTip>>

IsDue(o, tip, time) ==
    \/ order[o].dueAt # None /\ order[o].dueAt <= time
    \/ order[o].dueHeight # None /\ order[o].dueHeight <= tip

\* recompute_page: the orders owed a recompute, and the due ones.
RecomputeNext(o) ==
    /\ observed
    /\ o \in pending \/ IsDue(o, roundTip, roundNow)
    /\ Recompute(o, row, order[o], roundTip, roundNow)
    /\ UNCHANGED <<world, surprises, round, beside, row, chain, positions>>

-----------------------------------------------------------------------------
(* Payments. *)

SetRow(p, height, voided) == [row EXCEPT ![p] = [height |-> height, voided |-> voided]]

\* record_payment_match: a new row, or the height of one that isn't voided.
Match(p, height) ==
    IF row[p] = None \/ (~row[p].voided /\ height # None)
    THEN [height |-> height, voided |-> FALSE]
    ELSE row[p]

\* The round's mempool poll leaves the recompute to the settlement tier.
RecordPool(p) ==
    /\ row[p] = None
    /\ row' = [row EXCEPT ![p] = Match(p, None)]
    /\ LeaveObligation(row')
    /\ UNCHANGED <<world, surprises, round, beside, chain, positions>>

\* The fast path (fast_pass) takes the last round's tip, or the node's when
\* there is none, once for the transactions S that are new to it; the pass
\* before it is over.  (Told no tip at all, it only records: RecordPool.)
FastTold(S) ==
    /\ Surprise
    /\ S # {}
    /\ fast' = [tip |-> IF roundTip = None THEN node ELSE roundTip, told |-> now, due |-> S]
    /\ UNCHANGED <<world, round, lookup, row, orders, chain, positions>>

\* What the scan of one of them found is recorded and recomputed at once, by that
\* tip and by the time t at which the scan began, whatever a round has read since.
FastRecord(p, t) ==
    /\ p \in fast.due /\ t >= fast.told
    /\ row' = [row EXCEPT ![p] = Match(p, None)]
    /\ LET o == Pays[p] IN Recompute(o, row', order[o], fast.tip, t)
    /\ fast' = IF fast.due = {p} THEN Rested ELSE [fast EXCEPT !.due = @ \ {p}]
    /\ UNCHANGED <<world, surprises, round, lookup, chain, positions>>

\* lookup_payment: at a time t the node says where a transaction is, and what it
\* pays is recorded; the node is asked for its height; the order is recomputed,
\* in a transaction of its own, by that time and that height.
LookUp(p, height, t) ==
    /\ Surprise
    /\ lookup = NoLookup
    /\ row' = [row EXCEPT ![p] = Match(p, height)]
    /\ LeaveObligation(row')
    /\ lookup' = [step |-> "recorded", order |-> Pays[p], now |-> t]
    /\ UNCHANGED <<world, round, fast, chain, positions>>

LookUpAsks ==
    /\ lookup.step = "recorded"
    /\ lookup' = [step |-> "asked", order |-> lookup.order, now |-> lookup.now, tip |-> node]
    /\ UNCHANGED <<world, surprises, round, fast, row, orders, chain, positions>>

LookUpRecomputes ==
    /\ lookup.step = "asked"
    /\ Recompute(lookup.order, row, order[lookup.order], lookup.tip, lookup.now)
    /\ lookup' = NoLookup
    /\ UNCHANGED <<world, surprises, round, fast, row, chain, positions>>

\* A call fails, or the client goes away.
LookUpEnds ==
    /\ lookup # NoLookup
    /\ lookup' = NoLookup
    /\ UNCHANGED <<world, surprises, round, fast, row, orders, chain, positions>>

\* A block is committed (NetworkScan's CommitBlock): the next one, which
\* becomes the high-water mark, or one the store is behind at.  The payments
\* of it that are in the store learn its height; those that claim it and
\* aren't in it lose theirs.
CommitBlock(height, found) ==
    /\ fork = None /\ roundTip # None
    /\ \/ height = highWater + 1 /\ height <= roundTip
       \/ height <= highWater /\ height = cursor + 1
    /\ highWater' = IF height > highWater THEN height ELSE highWater
    /\ \/ cursor + 1 = height /\ cursor' = height
       \/ height > highWater /\ found = {} /\ cursor' = cursor
    /\ \A p \in found : row[p] # None => row[p].voided \/ row[p].height \in {None, height}
    /\ row' = [p \in Pay |->
          IF p \in found THEN Match(p, height)
          ELSE IF Valid(row, p) /\ row[p].height = height THEN [height |-> None, voided |-> FALSE]
          ELSE row[p]]
    /\ LeaveObligation(row')
    /\ UNCHANGED <<world, surprises, round, beside, fork, positions>>

\* The vanished-payment check found it in a block.
LocatePayment(p, height) ==
    /\ roundTip # None
    /\ Valid(row, p) /\ row[p].height = None
    /\ row' = SetRow(p, height, FALSE)
    /\ LeaveObligation(row')
    /\ UNCHANGED <<world, surprises, round, beside, chain, positions>>

\* void_and_notify: the inputs were spent; by the vanished-payment check, or
\* while a job re-examines its candidates.
VoidPayment(p) ==
    /\ Surprise
    /\ roundTip # None
    /\ Valid(row, p) /\ (row[p].height = None \/ fork # None)
    /\ row' = SetRow(p, None, TRUE)
    /\ LET o == Pays[p] IN Recompute(o, row', [order[o] EXCEPT !.flagged = TRUE], roundTip, roundNow)
    /\ UNCHANGED <<world, round, beside, chain, positions>>

\* unvoid_as_false_positive clears the flag with the last void.  Mutant: with
\* any of them.
AnyRestored(R, o) == TRUE
NoneVoided(R, o) == \A p \in Pay : Pays[p] = o /\ R[p] # None => ~R[p].voided

UnvoidPayment(p, height) ==
    /\ roundTip # None
    /\ row[p] # None /\ row[p].voided
    /\ row' = SetRow(p, height, FALSE)
    /\ LET o == Pays[p] IN
       Recompute(o, row', [order[o] EXCEPT !.flagged = @ /\ ~NoneVoided(row', o)], roundTip, roundNow)
    /\ UNCHANGED <<world, surprises, round, beside, chain, positions>>

-----------------------------------------------------------------------------
(* The job of a reorganisation (NetworkScan's chain tier). *)

OpenJob(f) ==
    /\ Surprise
    /\ roundTip # None
    /\ f <= highWater + 1
    /\ fork # None => f < fork
    /\ fork' = f
    /\ UNCHANGED <<world, round, beside, row, orders, highWater, cursor, positions>>

\* reexamine: a candidate is moved, or restored where a block has it.
Reexamine(p, height) ==
    /\ fork # None /\ roundTip # None
    /\ row[p] # None
    /\ row[p].voided => height # None
    /\ row[p].height # None => row[p].height >= fork
    /\ row' = SetRow(p, height, FALSE)
    /\ LeaveObligation(row')
    /\ UNCHANGED <<world, surprises, round, beside, chain, positions>>

\* The height h after the blocks from the fork on are forgotten.  Mutant: one
\* too many is.
RewoundTooFar(h) == IF h >= fork THEN fork - 2 ELSE h
Rewound(h) == IF h >= fork THEN fork - 1 ELSE h

\* finish_reorg
FinishJob ==
    /\ fork # None /\ roundTip # None
    /\ highWater' = Rewound(highWater) /\ cursor' = Rewound(cursor)
    /\ fork' = None
    /\ pending' = pending \cup Mined(row)
    /\ UNCHANGED <<world, surprises, round, beside, row, order, ahead, positions>>

-----------------------------------------------------------------------------

\* The merchant cancels an order nothing has reached (cancel_order and the
\* recompute in its transaction, at the recorded height).
CancelOrder(o) ==
    /\ order[o].status = "pending" /\ order[o].received = 0
    /\ Recompute(o, row,
                 [order[o] EXCEPT !.cancelled = TRUE, !.expires = Least({@, now})],
                 highWater, now)
    /\ UNCHANGED <<world, surprises, round, beside, row, chain, positions>>

Next ==
    \/ Tick \/ Crash \/ ObserveTip \/ FinishJob
    \/ \E h \in Height : NodeMoves(h) \/ OpenJob(h) \/ \E S \in SUBSET Pay : CommitBlock(h, S)
    \/ \E s \in BOOLEAN : ObserveSynchronized(s)
    \/ \E o \in Order : RecomputeNext(o) \/ CancelOrder(o)
    \/ LookUpAsks \/ LookUpRecomputes \/ LookUpEnds
    \/ \E S \in SUBSET Pay : FastTold(S)
    \/ \E t \in 0..now :
          \/ BeginRound(t)
          \/ \E p \in Pay : FastRecord(p, t) \/ \E h \in 1..node \cup {None} : LookUp(p, h, t)
    \/ \E p \in Pay :
          \/ RecordPool(p) \/ VoidPayment(p)
          \/ \E h \in 1..node : LocatePayment(p, h)
          \/ \E h \in 1..node \cup {None} : UnvoidPayment(p, h) \/ Reexamine(p, h)

Spec == Init /\ [][Next]_vars

\* Rounds follow each other; each reaches the settlement tier, which goes
\* through what it is owed and what is due; a job is finished, the next block
\* is committed, and a node that is asked again ends by being synchronized.
Fairness ==
    /\ WF_vars(BeginRound(now)) /\ WF_vars(ObserveTip) /\ WF_vars(FinishJob)
    /\ SF_vars(ObserveSynchronized(TRUE))
    /\ WF_vars(\E h \in Height : \E S \in SUBSET Pay : CommitBlock(h, S))
    /\ \A o \in Order : SF_vars(RecomputeNext(o))

FairSpec == Spec /\ Fairness

-----------------------------------------------------------------------------
(* Properties. *)

\* What the settlement tier would make of o if it recomputed it now.
Right(o) == PlanOf(row, o, order[o], settlementTip, now).status

Scheduled(o) == o \in pending \/ IsDue(o, settlementTip, now)

\* An order whose status is not what its payments, its deadline and the tip make
\* it is owed a recompute or due for one, whatever transaction made it so: a
\* payment changed (the triggers), blocks were added or taken away
\* (next_due_height, observe_settlement_tip), the deadline passed
\* (next_due_at_utc), what held it back ended (keep_obligation), and however old
\* the tip and the time were that it was recomputed by.  Except for an order
\* counted at a height above the settlement tier's, by a lookup or by a fast pass
\* that was told of a tip since taken back.
StaleIsScheduled ==
    \A o \in Order :
        settlementTip # None /\ ahead[o] <= settlementTip /\ ~Scheduled(o)
        => order[o].status = Right(o)

\* An order with a voided payment carries the double-spend flag, through
\* restores and further voids of its other payments (void_and_notify,
\* unvoid_as_false_positive, Decision::Restore).
VoidedIsFlagged ==
    \A p \in Pay : row[p] # None /\ row[p].voided => order[Pays[p]].flagged

\* No merchant is told to ship on blocks that may be discarded, nor to give up
\* on an order that may be paid: an order becomes settled only while no
\* reorganisation is open and every payment it counts is in a recorded block or
\* in none, and expired only on a synchronized node, when what is recorded has
\* been scanned, and every block that the node had when the deadline passed and
\* has kept (settlement_frozen, unscanned, scan_row_behind).  Not so the fast
\* path, whose tip may be from before the deadline.
AnnouncedSafely ==
    [][\A o \in Order :
        /\ (order[o].status \notin Settlement /\ order'[o].status \in Settlement) =>
              /\ fork' = None
              /\ \A p \in Counted(row', o) : row'[p].height # None => row'[p].height <= highWater'
        /\ (order[o].status # "expired" /\ order'[o].status = "expired") =>
              /\ now' > order'[o].expires /\ ~order'[o].cancelled
              /\ ~unsynchronized' /\ cursor' >= highWater'
              /\ fork' # None => cursor' < fork'
              /\ fast' = fast => lowest'[o] # None /\ cursor' >= lowest'[o]]_vars

\* Once nothing surprising happens any more, every order comes to show what its
\* payments and its deadline make it, and stays so, whatever was held back on
\* the way: a held order is tried again, and nothing holds it for ever.
EventuallyRight ==
    <>[](/\ settlementTip # None /\ fork = None /\ ~Behind(settlementTip)
         /\ \A o \in Order : ahead[o] <= settlementTip => order[o].status = Right(o))

=============================================================================
