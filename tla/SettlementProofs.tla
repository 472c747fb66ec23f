--------------------------- MODULE SettlementProofs ---------------------------
(***************************************************************************)
(* What holds of Settlement whatever the orders, the payments, the bounds  *)
(* and the amounts.  The rules of a status (Plan) are used through lemmas: *)
(* the two below, and PlanStays of OrderStatusProofs, which says how long  *)
(* a status lasts.                                                         *)
(***************************************************************************)
EXTENDS Settlement, OrderStatusProofs

-----------------------------------------------------------------------------
(* The rules of a status. *)

LEMMA DerivedExpired ==
    ASSUME NEW V, NEW o, NEW when, Derive(V, o, when) = "expired"
    PROVE  when > o.expires
BY DEF Derive

\* An order that becomes settled is not frozen (settlement_deferred).
LEMMA PlanSettles ==
    ASSUME NEW V, NEW o, NEW facts,
           o.status \notin Settlement, Plan(V, o, facts).status \in Settlement
    PROVE  ~facts.frozen
BY DEF Plan, SettlementDeferred, Settlement

\* An order that becomes expired is past its deadline, isn't cancelled, and
\* the store isn't lagging (expiry_held).
LEMMA PlanExpires ==
    ASSUME NEW V, NEW o, NEW facts,
           o.status # "expired", Plan(V, o, facts).status = "expired"
    PROVE  facts.now > o.expires /\ ~o.cancelled /\ ~facts.lagging
<1>1. Wanted(V, o, facts.now) = "expired" /\ ~ExpiryHeld(Wanted(V, o, facts.now), o, facts)
  BY DEF Plan
<1>2. ~facts.lagging
  BY <1>1 DEF ExpiryHeld
<1>3. Derive(V, o, facts.now) = "expired" /\ ~o.cancelled
  BY <1>1 DEF Wanted
<1> QED
  BY <1>2, <1>3, DerivedExpired

-----------------------------------------------------------------------------
(* The inductive invariant. *)

Row == [height : Height \cup {None}, voided : BOOLEAN] \cup {None}

IsOrder(r) ==
    /\ r = [status |-> r.status, received |-> r.received, expires |-> r.expires,
            dueAt |-> r.dueAt, dueHeight |-> r.dueHeight,
            cancelled |-> r.cancelled, flagged |-> r.flagged]
    /\ r.expires \in Nat /\ r.flagged \in BOOLEAN

Orders == order = [o \in Order |-> order[o]] /\ \A o \in Order : IsOrder(order[o])

\* What the fast pass and the lookup keep of what they read.
Reads ==
    /\ fast \in [tip : Height \cup {None}, told : Time, due : SUBSET Pay]
    /\ fast.due # {} => fast.tip # None
    /\ lookup \in Lookup
    /\ lookup # NoLookup => lookup.now <= now

\* TypeOK, but for what the payments add up to and what follows from it.
Shape ==
    /\ node \in Height /\ now \in Time
    /\ roundNow \in Time /\ roundNow <= now
    /\ roundTip \in Height \cup {None}
    /\ observed => roundTip # None
    /\ Reads
    /\ row \in [Pay -> Row]
    /\ Orders
    /\ highWater \in 0..MaxTip /\ cursor \in 0..MaxTip
    /\ fork \in Height \cup {None}
    /\ lowest \in [Order -> Height \cup {None}]

\* A tip read no earlier than a time past o's deadline is no lower than the
\* lowest since the deadline.
Since(o, tip, when) ==
    ~order[o].cancelled /\ when > order[o].expires => lowest[o] # None /\ lowest[o] <= tip

\* The round and the lookup each take the time first, then the tip.
TipsFollowTimes ==
    \A o \in Order :
        /\ lowest[o] # None => lowest[o] <= node
        /\ Since(o, node, now)
        /\ roundTip # None => Since(o, roundTip, roundNow)
        /\ lookup.step = "asked" => Since(o, lookup.tip, lookup.now)

IInv == Shape /\ VoidedIsFlagged /\ TipsFollowTimes

\* What AnnouncedSafely says of one order.
Safely(o) ==
    /\ (order[o].status \notin Settlement /\ order'[o].status \in Settlement) =>
          /\ fork' = None
          /\ \A p \in Counted(row', o) : row'[p].height # None => row'[p].height <= highWater'
    /\ (order[o].status # "expired" /\ order'[o].status = "expired") =>
          /\ now' > order'[o].expires /\ ~order'[o].cancelled
          /\ ~unsynchronized' /\ cursor' >= highWater'
          /\ fork' # None => cursor' < fork'
          /\ fast' = fast => lowest'[o] # None /\ cursor' >= lowest'[o]

\* What a step must preserve and may do.
Preserves == IInv' /\ \A o \in Order : Safely(o)

LEMMA FlagUpdate ==
    ASSUME NEW r, IsOrder(r), NEW b \in BOOLEAN
    PROVE  LET flagged == [r EXCEPT !.flagged = b]
           IN  /\ IsOrder(flagged) /\ flagged.flagged = b /\ flagged.status = r.status
               /\ flagged.expires = r.expires /\ flagged.cancelled = r.cancelled
BY DEF IsOrder

LEMMA CancelledUpdate ==
    ASSUME NEW r, IsOrder(r), NEW b \in BOOLEAN
    PROVE  LET cancelled == [r EXCEPT !.cancelled = b]
           IN  /\ IsOrder(cancelled) /\ cancelled.cancelled = b
               /\ cancelled.status = r.status /\ cancelled.flagged = r.flagged
BY DEF IsOrder

LEMMA DeadlineUpdate ==
    ASSUME NEW r, IsOrder(r), NEW x \in Nat
    PROVE  LET moved == [r EXCEPT !.expires = x]
           IN  /\ IsOrder(moved) /\ moved.cancelled = r.cancelled
               /\ moved.status = r.status /\ moved.flagged = r.flagged
BY DEF IsOrder

LEMMA NoneIsNoHeight == None \notin Height /\ Height \subseteq Int
BY PiconeroAssumption, SettlementAssumption DEF Height

\* What a recompute of o, read as orec, does to the orders.
LEMMA RecomputeStep ==
    ASSUME NEW o \in Order, NEW R, NEW orec, NEW tip, NEW when,
           Orders, IsOrder(orec), Recompute(o, R, orec, tip, when)
    PROVE  /\ Orders'
           /\ \A u \in Order : u # o => order'[u] = order[u]
           /\ order'[o].flagged = orec.flagged
           /\ order'[o].status = PlanOf(R, o, orec, tip, when).status
           /\ order'[o].expires = orec.expires /\ order'[o].cancelled = orec.cancelled
<1>1. PICK plan \in {PlanOf(R, o, orec, tip, when)} :
         order' = [order EXCEPT ![o] =
              [status |-> plan.status, received |-> plan.received, expires |-> orec.expires,
               dueAt |-> plan.dueAt, dueHeight |-> plan.dueHeight,
               cancelled |-> orec.cancelled, flagged |-> orec.flagged]]
  BY DEF Recompute, PlanOf
<1> DEFINE new == [status |-> plan.status, received |-> plan.received, expires |-> orec.expires,
                  dueAt |-> plan.dueAt, dueHeight |-> plan.dueHeight,
                  cancelled |-> orec.cancelled, flagged |-> orec.flagged]
<1>2. /\ IsOrder(new) /\ new.flagged = orec.flagged /\ new.status = plan.status
      /\ new.expires = orec.expires /\ new.cancelled = orec.cancelled
  BY DEF IsOrder
<1>3. order' = [order EXCEPT ![o] = new]
  BY <1>1
<1> HIDE DEF new
<1>4. order'[o] = new /\ \A u \in Order : u # o => order'[u] = order[u]
  BY <1>3 DEF Orders
<1>5. Orders'
  BY <1>2, <1>3, <1>4 DEF Orders
<1> QED
  BY <1>1, <1>2, <1>4, <1>5

\* What a recompute announces is safe: nothing is settled on blocks that may
\* be replaced, nothing expires that a block not yet scanned may pay.
LEMMA RecomputeIsSafe ==
    ASSUME NEW o \in Order, NEW orec, NEW tip \in Int, NEW when \in Int,
           Shape, row' \in [Pay -> Row], IsOrder(orec), orec.status = order[o].status,
           orec.cancelled \/ (orec.cancelled = order[o].cancelled /\ orec.expires = order[o].expires),
           Recompute(o, row', orec, tip, when), when <= now,
           UNCHANGED <<now, lowest, chain, unsynchronized>>,
           orec.cancelled \/ fast' # fast \/ Since(o, tip, when)
    PROVE  \A u \in Order : Safely(u)
<1> DEFINE facts == Facts(row', o, tip, when)
           rec == Terms(o, orec)
<1>1. /\ \A u \in Order : u # o => order'[u] = order[u]
      /\ order'[o].status = Plan(Views(row', o, tip), rec, facts).status
      /\ order'[o].expires = orec.expires /\ order'[o].cancelled = orec.cancelled
  BY RecomputeStep DEF PlanOf, Shape
<1>2. /\ facts.frozen = (fork # None \/ Unscanned(row', o))
      /\ facts.lagging = Behind(tip) /\ facts.now = when
      /\ rec.status = order[o].status
      /\ rec.expires = orec.expires /\ rec.cancelled = orec.cancelled
  BY DEF Facts, Terms
<1> HIDE DEF facts, rec
<1>3. ASSUME order[o].status \notin Settlement, order'[o].status \in Settlement
      PROVE  /\ fork' = None
             /\ \A p \in Counted(row', o) : row'[p].height # None => row'[p].height <= highWater'
  <2>1. fork = None /\ ~Unscanned(row', o)
    BY <1>1, <1>2, <1>3, PlanSettles
  <2>2. SUFFICES ASSUME NEW p \in Counted(row', o), row'[p].height # None
                 PROVE  row'[p].height <= highWater
    BY <2>1 DEF chain
  <2>3. ~(row'[p].height > highWater)
    BY <2>1, <2>2 DEF Unscanned
  <2>4. highWater \in Int
    BY SettlementAssumption DEF Shape
  <2>5. row'[p] \in [height : Height \cup {None}, voided : BOOLEAN]
    BY DEF Counted, Valid, Row
  <2>6. row'[p].height \in Int
    BY <2>2, <2>5, NoneIsNoHeight
  <2> QED
    BY <2>3, <2>4, <2>6
<1>4. ASSUME order[o].status # "expired", order'[o].status = "expired"
      PROVE  /\ now' > order'[o].expires /\ ~order'[o].cancelled
             /\ ~unsynchronized' /\ cursor' >= highWater'
             /\ fork' # None => cursor' < fork'
             /\ fast' = fast => lowest'[o] # None /\ cursor' >= lowest'[o]
  <2>1. when > orec.expires /\ ~orec.cancelled /\ ~Behind(tip)
    BY <1>1, <1>2, <1>4, PlanExpires
  <2>2. /\ cursor \in Int /\ highWater \in Int /\ (fork # None => fork \in Int)
        /\ lowest[o] # None => lowest[o] \in Int
        /\ now \in Int /\ orec.expires \in Int
    BY NoneIsNoHeight, SettlementAssumption DEF Shape, Time, IsOrder
  <2>3. ~unsynchronized /\ cursor >= highWater /\ cursor >= tip /\ (fork # None => cursor < fork)
    BY <2>1, <2>2 DEF Behind
  <2>4. fast' = fast => lowest[o] # None /\ lowest[o] <= tip
    BY <2>1 DEF Since
  <2> QED
    BY <1>1, <2>1, <2>2, <2>3, <2>4 DEF chain
<1>5. \A u \in Order : u # o => Safely(u)
  BY <1>1, Zenon DEF Safely
<1> QED
  BY <1>3, <1>4, <1>5 DEF Safely

\* A step that recomputes nothing announces nothing.
LEMMA NothingAnnounced ==
    ASSUME UNCHANGED order
    PROVE  \A o \in Order : Safely(o)
BY DEF Safely

\* Payments that aren't newly voided keep the flags right.
LEMMA FlagsKept ==
    ASSUME VoidedIsFlagged,
           \A p \in Pay : row'[p] # None /\ row'[p].voided => row[p] # None /\ row[p].voided,
           \A o \in Order : order'[o].flagged = order[o].flagged
    PROVE  VoidedIsFlagged'
BY SettlementAssumption DEF VoidedIsFlagged

LEMMA MatchStep ==
    ASSUME NEW p \in Pay, NEW height \in Height \cup {None}, row \in [Pay -> Row]
    PROVE  /\ Match(p, height) \in Row
           /\ Match(p, height) # None /\ Match(p, height).voided => row[p] # None /\ row[p].voided
BY DEF Match, Row

LEMMA RowStep ==
    ASSUME NEW p \in Pay, NEW height \in Height \cup {None}, NEW voided \in BOOLEAN,
           row \in [Pay -> Row], row' = SetRow(p, height, voided)
    PROVE  /\ row' \in [Pay -> Row]
           /\ row'[p] = [height |-> height, voided |-> voided]
           /\ row'[p].voided => voided
           /\ \A q \in Pay : q # p => row'[q] = row[q]
BY DEF SetRow, Row

\* Where no tip is read, and no deadline moved but a cancelled order's.
LEMMA TipsStillFollow ==
    ASSUME TipsFollowTimes, UNCHANGED <<node, now, lowest, roundNow, roundTip>>,
           lookup' = lookup \/ lookup'.step # "asked",
           \A o \in Order :
               \/ order'[o].cancelled
               \/ order'[o].cancelled = order[o].cancelled /\ order'[o].expires = order[o].expires
    PROVE  TipsFollowTimes'
<1> SUFFICES ASSUME NEW o \in Order
             PROVE  /\ lowest'[o] # None => lowest'[o] <= node'
                    /\ Since(o, node, now)'
                    /\ roundTip' # None => Since(o, roundTip, roundNow)'
                    /\ lookup'.step = "asked" => Since(o, lookup.tip, lookup.now)'
  BY DEF TipsFollowTimes
<1>1. /\ lowest[o] # None => lowest[o] <= node
      /\ Since(o, node, now)
      /\ roundTip # None => Since(o, roundTip, roundNow)
      /\ lookup.step = "asked" => Since(o, lookup.tip, lookup.now)
  BY DEF TipsFollowTimes
<1>2. CASE order'[o].cancelled
  BY <1>1, <1>2 DEF Since
<1>3. CASE order'[o].cancelled = order[o].cancelled /\ order'[o].expires = order[o].expires
  <2>1. CASE lookup' = lookup
    BY <1>1, <1>3, <2>1 DEF Since
  <2>2. CASE lookup'.step # "asked"
    BY <1>1, <1>3, <2>2 DEF Since
  <2> QED
    BY <2>1, <2>2
<1> QED
  BY <1>2, <1>3

-----------------------------------------------------------------------------
(* The steps. *)

\* A transaction that recomputes o with the payments row' preserves the
\* invariant if it flags o when one of its payments is void.
LEMMA RecomputePreserves ==
    ASSUME NEW o \in Order, NEW orec, NEW tip \in Int, NEW when \in Int,
           IInv, row' \in [Pay -> Row], IsOrder(orec), orec.status = order[o].status,
           orec.cancelled \/ (orec.cancelled = order[o].cancelled /\ orec.expires = order[o].expires),
           Recompute(o, row', orec, tip, when), when <= now,
           UNCHANGED <<world, round, chain, unsynchronized>>,
           Reads', lookup' = lookup \/ lookup'.step # "asked",
           orec.cancelled \/ fast' # fast \/ Since(o, tip, when),
           \A q \in Pay : row'[q] # None /\ row'[q].voided =>
               IF Pays[q] = o THEN orec.flagged ELSE row[q] # None /\ row[q].voided
    PROVE  Preserves
<1>1. \A u \in Order : Safely(u)
  BY RecomputeIsSafe DEF IInv, world
<1>2. /\ Orders' /\ order'[o].flagged = orec.flagged
      /\ order'[o].expires = orec.expires /\ order'[o].cancelled = orec.cancelled
      /\ \A u \in Order : u # o => order'[u] = order[u]
  BY RecomputeStep DEF IInv, Shape
<1>3. Shape'
  BY <1>2 DEF IInv, Shape, chain, world, round
<1>4. VoidedIsFlagged'
  BY <1>2, SettlementAssumption DEF IInv, VoidedIsFlagged
<1>5. TipsFollowTimes'
  <2>1. \A u \in Order :
           \/ order'[u].cancelled
           \/ order'[u].cancelled = order[u].cancelled /\ order'[u].expires = order[u].expires
    BY <1>2
  <2> QED
    BY <2>1, TipsStillFollow DEF IInv, world, round
<1> QED
  BY <1>1, <1>3, <1>4, <1>5 DEF Preserves, IInv

\* One that leaves the orders alone, if it voids no payment.
LEMMA OthersPreserve ==
    ASSUME IInv, UNCHANGED order, Shape', TipsFollowTimes',
           \A q \in Pay : row'[q] # None /\ row'[q].voided => row[q] # None /\ row[q].voided
    PROVE  Preserves
<1>1. VoidedIsFlagged'
  BY FlagsKept DEF IInv
<1> QED
  BY <1>1, NothingAnnounced DEF Preserves, IInv

\* One that changes payments, and no more than what it remembers besides.
LEMMA ScanPreserves ==
    ASSUME IInv, row' \in [Pay -> Row], UNCHANGED <<world, round, order, fork>>,
           Reads', lookup' = lookup \/ lookup'.step # "asked",
           highWater' \in 0..MaxTip, cursor' \in 0..MaxTip,
           \A q \in Pay : row'[q] # None /\ row'[q].voided => row[q] # None /\ row[q].voided
    PROVE  Preserves
<1>1. Shape'
  BY DEF IInv, Shape, Orders, world, round
<1>2. TipsFollowTimes'
  BY TipsStillFollow DEF IInv, world, round
<1> QED
  BY <1>1, <1>2, OthersPreserve

\* One that reads no tip, and changes neither a payment nor an order.
LEMMA RowsAloneStep ==
    ASSUME IInv, UNCHANGED <<world, row, order, roundNow, roundTip>>,
           observed' => roundTip # None,
           Reads', lookup' = lookup \/ lookup'.step # "asked",
           highWater' \in 0..MaxTip, cursor' \in 0..MaxTip, fork' \in Height \cup {None}
    PROVE  Preserves
<1>1. Shape'
  BY DEF IInv, Shape, Orders, world
<1>2. TipsFollowTimes'
  BY TipsStillFollow DEF IInv, world
<1> QED
  BY <1>1, <1>2, OthersPreserve

LEMMA ReadsRemain ==
    ASSUME Reads, UNCHANGED <<now, fast, lookup>>
    PROVE  Reads' /\ (lookup' = lookup \/ lookup'.step # "asked")
BY DEF Reads

LEMMA TypesOfReads ==
    ASSUME IInv
    PROVE  /\ node \in Int /\ now \in Int /\ roundNow \in Int /\ (roundTip # None => roundTip \in Int)
           /\ \A o \in Order : lowest[o] \in Height \cup {None} /\ order[o].expires \in Int
           /\ \A o \in Order : lowest[o] # None => lowest[o] \in Int
           /\ lookup # NoLookup => lookup.now \in Time /\ lookup.now <= now /\ lookup.order \in Order
           /\ lookup.step = "asked" => lookup # NoLookup /\ lookup.tip \in Height /\ lookup.tip \in Int
           /\ NoLookup.step = "none"
           /\ Time \subseteq Int
<1>1. Time \subseteq Int /\ Height \subseteq Int /\ None \notin Height
  BY NoneIsNoHeight, SettlementAssumption DEF Time
<1>2. lookup \in Lookup /\ (lookup # NoLookup => lookup.now <= now)
  BY DEF IInv, Shape, Reads
<1>3. /\ lookup # NoLookup => lookup.now \in Time /\ lookup.order \in Order
      /\ lookup.step = "asked" => lookup # NoLookup /\ lookup.tip \in Height
      /\ NoLookup.step = "none"
  BY <1>2 DEF Lookup, NoLookup
<1>4. \A o \in Order : order[o].expires \in Int
  BY DEF IInv, Shape, Orders, IsOrder
<1> QED
  BY <1>1, <1>2, <1>3, <1>4 DEF IInv, Shape

LEMMA TickPreserves == IInv /\ Tick => Preserves
<1> SUFFICES ASSUME IInv, Tick PROVE Preserves
  OBVIOUS
<1>1. /\ now' = now + 1 /\ now' \in Time /\ now' > now /\ now \in Int
      /\ UNCHANGED <<node, round, beside, row, order, chain>>
      /\ lowest' = [o \in Order |->
             IF lowest[o] = None /\ now' > order[o].expires THEN node ELSE lowest[o]]
  BY TypesOfReads, SettlementAssumption DEF Tick, Time, orders, IInv, Shape
<1>2. Reads'
  <2>1. lookup # NoLookup => lookup.now <= now'
    BY <1>1, TypesOfReads
  <2> QED
    BY <1>1, <2>1 DEF IInv, Shape, Reads, beside
<1>3. Shape'
  <2>1. lowest' \in [Order -> Height \cup {None}]
    BY <1>1 DEF IInv, Shape
  <2>2. roundNow' <= now'
    BY <1>1, TypesOfReads DEF IInv, Shape, round
  <2> QED
    BY <1>1, <1>2, <2>1, <2>2 DEF IInv, Shape, Orders, chain, round
<1>4. TipsFollowTimes'
  <2> SUFFICES ASSUME NEW o \in Order
               PROVE  /\ lowest'[o] # None => lowest'[o] <= node
                      /\ Since(o, node, now)'
                      /\ roundTip' # None => Since(o, roundTip, roundNow)'
                      /\ lookup'.step = "asked" => Since(o, lookup.tip, lookup.now)'
    BY <1>1 DEF TipsFollowTimes
  <2>1. /\ lowest[o] # None => lowest[o] <= node
        /\ Since(o, node, now)
        /\ roundTip # None => Since(o, roundTip, roundNow)
        /\ lookup.step = "asked" => Since(o, lookup.tip, lookup.now)
    BY DEF IInv, TipsFollowTimes
  <2>2. /\ lowest'[o] = IF lowest[o] = None /\ now' > order[o].expires THEN node ELSE lowest[o]
        /\ node \in Int /\ order[o].expires \in Int /\ roundNow \in Int /\ roundNow <= now
        /\ order'[o] = order[o] /\ roundTip' = roundTip /\ roundNow' = roundNow /\ node' = node
        /\ lookup' = lookup
        /\ None \notin Height /\ node \in Height
    BY <1>1, TypesOfReads, NoneIsNoHeight DEF IInv, Shape, round, beside
  <2>3. (lowest'[o] # None => lowest'[o] <= node) /\ Since(o, node, now)'
    BY <1>1, <2>1, <2>2 DEF Since
  <2>4. roundTip' # None => Since(o, roundTip, roundNow)'
    BY <1>1, <2>1, <2>2 DEF Since
  <2>5. lookup'.step = "asked" => Since(o, lookup.tip, lookup.now)'
    <3>1. lookup.step = "asked" => lookup.now \in Int /\ lookup.now <= now
      BY TypesOfReads
    <3> QED
      BY <1>1, <2>1, <2>2, <3>1 DEF Since
  <2> QED
    BY <2>3, <2>4, <2>5
<1> QED
  BY <1>1, <1>3, <1>4, OthersPreserve DEF IInv

LEMMA NodeMovesPreserves == ASSUME IInv, NEW h \in Height, NodeMoves(h) PROVE Preserves
<1>1. /\ node' = h /\ UNCHANGED <<now, round, beside, row, order, chain>>
      /\ lowest' = [o \in Order |-> IF lowest[o] # None /\ h < lowest[o] THEN h ELSE lowest[o]]
  BY DEF NodeMoves, orders
<1>2. Shape'
  <2>1. Reads'
    BY <1>1 DEF IInv, Shape, Reads, beside
  <2>2. lowest' \in [Order -> Height \cup {None}]
    BY <1>1 DEF IInv, Shape
  <2> QED
    BY <1>1, <2>1, <2>2 DEF IInv, Shape, Orders, chain, round
<1>3. TipsFollowTimes'
  <2> SUFFICES ASSUME NEW o \in Order
               PROVE  /\ lowest'[o] # None => lowest'[o] <= node'
                      /\ Since(o, node, now)'
                      /\ roundTip' # None => Since(o, roundTip, roundNow)'
                      /\ lookup'.step = "asked" => Since(o, lookup.tip, lookup.now)'
    BY DEF TipsFollowTimes
  <2>1. /\ lowest[o] # None => lowest[o] <= node
        /\ Since(o, node, now)
        /\ roundTip # None => Since(o, roundTip, roundNow)
        /\ lookup.step = "asked" => Since(o, lookup.tip, lookup.now)
    BY DEF IInv, TipsFollowTimes
  <2>2. /\ lowest'[o] = IF lowest[o] # None /\ h < lowest[o] THEN h ELSE lowest[o]
        /\ node' = h /\ h \in Int /\ h # None /\ (lowest[o] # None => lowest[o] \in Int)
        /\ order'[o] = order[o] /\ roundTip' = roundTip /\ roundNow' = roundNow /\ now' = now
        /\ lookup' = lookup /\ (roundTip # None => roundTip \in Int)
        /\ lookup.step = "asked" => lookup.tip \in Int
    BY <1>1, TypesOfReads, NoneIsNoHeight DEF IInv, Shape, round, beside
  <2>3. (lowest'[o] # None => lowest'[o] <= node') /\ Since(o, node, now)'
    BY <2>1, <2>2 DEF Since
  <2>4. roundTip' # None => Since(o, roundTip, roundNow)'
    BY <2>1, <2>2 DEF Since
  <2>5. lookup'.step = "asked" => Since(o, lookup.tip, lookup.now)'
    BY <2>1, <2>2 DEF Since
  <2> QED
    BY <2>3, <2>4, <2>5
<1> QED
  BY <1>1, <1>2, <1>3, OthersPreserve DEF IInv

\* A tip that is read now is no lower than the lowest since a deadline that
\* had passed at a time before.
LEMMA ReadNow ==
    ASSUME IInv, NEW o \in Order, NEW when \in Int, when <= now
    PROVE  Since(o, node, when)
<1>1. Since(o, node, now)
  BY DEF IInv, TipsFollowTimes
<1> QED
  BY <1>1, TypesOfReads DEF Since

LEMMA BeginRoundPreserves == ASSUME IInv, NEW t \in 0..now, BeginRound(t) PROVE Preserves
<1>1. /\ t \in Int /\ t <= now /\ roundNow' = t /\ roundTip' = node /\ observed' = FALSE
      /\ UNCHANGED <<world, beside, row, order, chain>>
  BY TypesOfReads DEF BeginRound, orders
<1>2. Shape'
  <2>1. t \in Time
    BY <1>1, SettlementAssumption DEF IInv, Shape, Time
  <2>2. Reads'
    BY <1>1, ReadsRemain DEF IInv, Shape, world, beside
  <2> QED
    BY <1>1, <2>1, <2>2 DEF IInv, Shape, Orders, chain, world
<1>3. TipsFollowTimes'
  <2>1. ASSUME NEW o \in Order
        PROVE  Since(o, node, t)
    BY <1>1, ReadNow
  <2> QED
    BY <1>1, <2>1 DEF IInv, TipsFollowTimes, Since, world, beside
<1> QED
  BY <1>1, <1>2, <1>3, OthersPreserve DEF IInv

LEMMA CrashPreserves == IInv /\ Crash => Preserves
<1> SUFFICES ASSUME IInv, Crash PROVE Preserves
  OBVIOUS
<1>1. /\ roundTip' = None /\ observed' = FALSE /\ fast' = Rested /\ lookup' = NoLookup
      /\ UNCHANGED <<world, roundNow, row, order, chain>>
  BY DEF Crash, orders
<1>2. Shape'
  <2>1. Reads'
    BY <1>1, SettlementAssumption DEF Reads, Rested, Lookup, Time
  <2> QED
    BY <1>1, <2>1 DEF IInv, Shape, Orders, chain, world
<1>3. TipsFollowTimes'
  BY <1>1, TypesOfReads DEF IInv, TipsFollowTimes, Since, world
<1> QED
  BY <1>1, <1>2, <1>3, OthersPreserve DEF IInv

LEMMA LookUpAsksPreserves == IInv /\ LookUpAsks => Preserves
<1> SUFFICES ASSUME IInv, LookUpAsks PROVE Preserves
  OBVIOUS
<1>1. /\ lookup.step = "recorded"
      /\ lookup' = [step |-> "asked", order |-> lookup.order, now |-> lookup.now, tip |-> node]
      /\ UNCHANGED <<world, round, fast, row, order, chain>>
  BY DEF LookUpAsks, orders
<1>2. lookup # NoLookup
  BY <1>1 DEF NoLookup
<1>3. /\ lookup.now \in Time /\ lookup.now <= now /\ lookup.order \in Order
      /\ lookup.now \in Int /\ node \in Height
  BY <1>2, TypesOfReads DEF IInv, Shape
<1>4. Shape'
  <2>1. lookup' \in Lookup /\ lookup'.now <= now
    BY <1>1, <1>3 DEF Lookup
  <2>2. Reads'
    BY <1>1, <2>1 DEF IInv, Shape, Reads, world
  <2> QED
    BY <1>1, <2>2 DEF IInv, Shape, Orders, chain, world, round
<1>5. TipsFollowTimes'
  <2>1. ASSUME NEW o \in Order
        PROVE  Since(o, node, lookup.now)
    BY <1>3, ReadNow
  <2> QED
    BY <1>1, <2>1 DEF IInv, TipsFollowTimes, Since, world, round
<1> QED
  BY <1>1, <1>4, <1>5, OthersPreserve DEF IInv

\* The steps that change no payment and no order.
LEMMA ChainSteps ==
    ASSUME IInv, NEW h \in Height, NEW s \in BOOLEAN, NEW t \in 0..now, NEW S \in SUBSET Pay,
           \/ Tick \/ BeginRound(t) \/ Crash \/ ObserveTip \/ FinishJob
           \/ NodeMoves(h) \/ OpenJob(h) \/ ObserveSynchronized(s) \/ UNCHANGED vars
           \/ FastTold(S) \/ LookUpAsks \/ LookUpEnds
    PROVE  Preserves
<1> USE DEF IInv, Shape
<1>0. UNCHANGED <<now, fast, lookup>> => Reads' /\ (lookup' = lookup \/ lookup'.step # "asked")
  BY ReadsRemain
<1>1. CASE Tick \/ BeginRound(t) \/ Crash \/ NodeMoves(h) \/ LookUpAsks
  BY <1>1, TickPreserves, BeginRoundPreserves, CrashPreserves, NodeMovesPreserves,
     LookUpAsksPreserves
<1>2. CASE ObserveTip
  BY <1>0, <1>2, RowsAloneStep DEF ObserveTip, chain, world, beside
<1>3. CASE FinishJob
  <2>1. Rewound(highWater) \in 0..MaxTip /\ Rewound(cursor) \in 0..MaxTip
    BY <1>3, SettlementAssumption DEF FinishJob, Rewound, Height
  <2> QED
    BY <1>0, <1>3, <2>1, RowsAloneStep DEF FinishJob, world, round, beside
<1>4. CASE OpenJob(h)
  BY <1>0, <1>4, RowsAloneStep DEF OpenJob, orders, world, round, beside
<1>5. CASE ObserveSynchronized(s)
  BY <1>0, <1>5, RowsAloneStep DEF ObserveSynchronized, chain, orders, world, round, beside
<1>6. CASE UNCHANGED vars
  BY <1>0, <1>6, RowsAloneStep DEF vars, chain, orders, world, round, beside
<1>7. CASE FastTold(S)
  <2>1. fast' = [tip |-> IF roundTip = None THEN node ELSE roundTip, told |-> now, due |-> S]
    BY <1>7 DEF FastTold
  <2>2. (IF roundTip = None THEN node ELSE roundTip) \in Height
    OBVIOUS
  <2>3. Reads' /\ lookup' = lookup
    BY <1>7, <2>1, <2>2, NoneIsNoHeight DEF FastTold, Reads, world
  <2> QED
    BY <1>7, <2>3, RowsAloneStep DEF FastTold, chain, orders, world, round
<1>8. CASE LookUpEnds
  <2>1. Reads' /\ lookup'.step # "asked"
    BY <1>8 DEF LookUpEnds, Reads, Lookup, NoLookup, world
  <2> QED
    BY <1>8, <2>1, RowsAloneStep DEF LookUpEnds, chain, orders, world, round
<1> QED
  BY <1>1, <1>2, <1>3, <1>4, <1>5, <1>6, <1>7, <1>8

\* The transactions that recompute an order.
LEMMA RecomputeSteps ==
    ASSUME IInv, NEW o \in Order,
           RecomputeNext(o) \/ LookUpRecomputes \/ CancelOrder(o)
    PROVE  Preserves
<1>1. /\ row \in [Pay -> Row] /\ highWater \in Int
      /\ roundTip # None => roundTip \in Int
      /\ now \in Int /\ roundNow \in Int /\ roundNow <= now
      /\ \A u \in Order : IsOrder(order[u])
  BY TypesOfReads, SettlementAssumption DEF IInv, Shape, Orders
<1>2. ASSUME NEW u \in Order
      PROVE  \A q \in Pay : row[q] # None /\ row[q].voided =>
                 IF Pays[q] = u THEN order[u].flagged ELSE row[q] # None /\ row[q].voided
  BY DEF IInv, VoidedIsFlagged
<1>3. UNCHANGED <<world, beside>> => Reads' /\ (lookup' = lookup \/ lookup'.step # "asked")
  BY ReadsRemain DEF IInv, Shape, world, beside
<1>4. CASE RecomputeNext(o)
  <2>1. roundTip # None /\ Since(o, roundTip, roundNow)
    BY <1>4 DEF RecomputeNext, IInv, Shape, TipsFollowTimes
  <2>2. /\ Recompute(o, row', order[o], roundTip, roundNow) /\ row' = row
        /\ UNCHANGED <<world, round, beside, chain, unsynchronized>>
    BY <1>4 DEF RecomputeNext, positions
  <2> QED
    BY <1>1, <1>2, <1>3, <2>1, <2>2, RecomputePreserves
<1>5. CASE LookUpRecomputes
  <2> DEFINE u == lookup.order
             tip == lookup.tip
             when == lookup.now
  <2>1. /\ lookup.step = "asked" /\ lookup' = NoLookup
        /\ Recompute(u, row', order[u], tip, when) /\ row' = row
        /\ UNCHANGED <<world, round, fast, chain, unsynchronized>>
    BY <1>5 DEF LookUpRecomputes, positions
  <2>2. u \in Order /\ tip \in Int /\ when \in Int /\ when <= now /\ lookup'.step = "none"
    BY <2>1, TypesOfReads
  <2>3. Since(u, tip, when)
    BY <2>1, <2>2 DEF IInv, TipsFollowTimes
  <2>4. Reads'
    BY <2>1 DEF IInv, Shape, Reads, Lookup, world
  <2>5. lookup'.step # "asked"
    BY <2>2
  <2> HIDE DEF u, tip, when
  <2> QED
    BY <1>1, <1>2, <2>1, <2>2, <2>3, <2>4, <2>5, RecomputePreserves
<1>6. CASE CancelOrder(o)
  <2> DEFINE expires == Least({order[o].expires, now})
             marked == [order[o] EXCEPT !.cancelled = TRUE]
             orec == [marked EXCEPT !.expires = expires]
  <2>1. /\ IsOrder(marked) /\ marked.cancelled /\ marked.status = order[o].status
        /\ marked.flagged = order[o].flagged
    BY <1>1, CancelledUpdate
  <2>2. /\ Recompute(o, row', orec, highWater, now) /\ row' = row
        /\ UNCHANGED <<world, round, beside, chain, unsynchronized>>
    BY <1>6 DEF CancelOrder, positions
  <2>3. expires \in Nat
    <3>1. order[o].expires \in Nat
      BY <1>1 DEF IsOrder
    <3>2. now \in Nat
      BY SettlementAssumption DEF IInv, Shape, Time
    <3> QED
      BY <3>1, <3>2, LeastOfTwo
  <2> HIDE DEF expires, marked
  <2>4. IsOrder(orec) /\ orec.cancelled /\ orec.status = order[o].status
        /\ orec.flagged = order[o].flagged
    BY <2>1, <2>3, DeadlineUpdate
  <2> HIDE DEF orec
  <2>5. \A q \in Pay : row'[q] # None /\ row'[q].voided =>
            IF Pays[q] = o THEN orec.flagged ELSE row[q] # None /\ row[q].voided
    BY <1>2, <2>2, <2>4
  <2>6. Reads' /\ lookup' = lookup
    BY <1>3, <2>2 DEF beside
  <2>7. row' \in [Pay -> Row] /\ now \in Int /\ now <= now /\ highWater \in Int
    BY <1>1, <2>2
  <2> QED
    BY <2>2, <2>4, <2>5, <2>6, <2>7, RecomputePreserves
<1> QED
  BY <1>4, <1>5, <1>6

LEMMA CommitPreserves ==
    ASSUME IInv, NEW h \in Height, NEW S \in SUBSET Pay, CommitBlock(h, S)
    PROVE  Preserves
<1>1. \A q \in Pay : /\ Match(q, h) \in Row
                     /\ Match(q, h) # None /\ Match(q, h).voided => row[q] # None /\ row[q].voided
  BY MatchStep DEF IInv, Shape
<1>2. row' = [q \in Pay |->
        IF q \in S THEN Match(q, h)
        ELSE IF Valid(row, q) /\ row[q].height = h THEN [height |-> None, voided |-> FALSE]
        ELSE row[q]]
  BY DEF CommitBlock
<1>3. /\ row' \in [Pay -> Row]
      /\ \A q \in Pay : row'[q] # None /\ row'[q].voided => row[q] # None /\ row[q].voided
  BY <1>1, <1>2 DEF IInv, Shape, Row
<1>4. highWater' \in 0..MaxTip /\ cursor' \in 0..MaxTip
  BY SettlementAssumption DEF CommitBlock, Height, IInv, Shape
<1>5. Reads' /\ (lookup' = lookup \/ lookup'.step # "asked")
  BY ReadsRemain DEF CommitBlock, IInv, Shape, world, beside
<1> QED
  BY <1>3, <1>4, <1>5, ScanPreserves DEF CommitBlock, LeaveObligation

\* The transactions that change payments and leave an obligation.
LEMMA ScanSteps ==
    ASSUME IInv, NEW p \in Pay, NEW h \in Height \cup {None}, NEW S \in SUBSET Pay, NEW t \in 0..now,
           \/ RecordPool(p) \/ LookUp(p, h, t) \/ Reexamine(p, h)
           \/ h \in Height /\ (CommitBlock(h, S) \/ LocatePayment(p, h))
    PROVE  Preserves
<1>0. /\ row \in [Pay -> Row] /\ highWater \in 0..MaxTip /\ cursor \in 0..MaxTip
      /\ UNCHANGED <<world, beside>> => Reads' /\ (lookup' = lookup \/ lookup'.step # "asked")
  BY ReadsRemain DEF IInv, Shape, world, beside
<1>1. CASE RecordPool(p)
  <2>1. /\ row' \in [Pay -> Row]
        /\ \A q \in Pay : row'[q] # None /\ row'[q].voided => row[q] # None /\ row[q].voided
    BY <1>0, <1>1, MatchStep DEF RecordPool
  <2> QED
    BY <1>0, <1>1, <2>1, ScanPreserves DEF RecordPool, LeaveObligation, chain
<1>2. CASE LookUp(p, h, t)
  <2>1. /\ row' \in [Pay -> Row]
        /\ \A q \in Pay : row'[q] # None /\ row'[q].voided => row[q] # None /\ row[q].voided
    BY <1>0, <1>2, MatchStep DEF LookUp
  <2>2. lookup' = [step |-> "recorded", order |-> Pays[p], now |-> t]
    BY <1>2 DEF LookUp
  <2>3. t \in Time /\ t <= now /\ Pays[p] \in Order
    BY TypesOfReads, SettlementAssumption DEF IInv, Shape, Time
  <2>4. Reads' /\ lookup'.step # "asked"
    BY <1>2, <2>2, <2>3 DEF LookUp, IInv, Shape, Reads, Lookup, world
  <2> QED
    BY <1>0, <1>2, <2>1, <2>4, ScanPreserves DEF LookUp, LeaveObligation, chain
<1>3. CASE Reexamine(p, h)
  <2>1. /\ row' \in [Pay -> Row] /\ ~row'[p].voided
        /\ \A q \in Pay : q # p => row'[q] = row[q]
    BY <1>0, <1>3, RowStep DEF Reexamine
  <2> QED
    BY <1>0, <1>3, <2>1, ScanPreserves DEF Reexamine, LeaveObligation, chain
<1>4. CASE h \in Height /\ LocatePayment(p, h)
  <2>1. /\ row' \in [Pay -> Row] /\ ~row'[p].voided
        /\ \A q \in Pay : q # p => row'[q] = row[q]
    BY <1>0, <1>4, RowStep DEF LocatePayment
  <2> QED
    BY <1>0, <1>4, <2>1, ScanPreserves DEF LocatePayment, LeaveObligation, chain
<1>5. CASE h \in Height /\ CommitBlock(h, S)
  BY <1>5, CommitPreserves
<1> QED
  BY <1>1, <1>2, <1>3, <1>4, <1>5

\* The transactions that change a payment and recompute its order.
LEMMA PaymentSteps ==
    ASSUME IInv, NEW p \in Pay, NEW h \in Height \cup {None}, NEW t \in 0..now,
           FastRecord(p, t) \/ VoidPayment(p) \/ UnvoidPayment(p, h)
    PROVE  Preserves
<1> DEFINE o == Pays[p]
<1>1. /\ o \in Order /\ IsOrder(order[o]) /\ row \in [Pay -> Row]
      /\ roundTip # None => roundTip \in Int /\ Since(o, roundTip, roundNow)
      /\ now \in Int /\ roundNow \in Int /\ roundNow <= now /\ t \in Int /\ t <= now
      /\ UNCHANGED <<world, beside>> => Reads' /\ (lookup' = lookup \/ lookup'.step # "asked")
  BY TypesOfReads, ReadsRemain, SettlementAssumption
     DEF IInv, Shape, Orders, TipsFollowTimes, world, beside
<1>2. \A q \in Pay : row[q] # None /\ row[q].voided => order[Pays[q]].flagged
  BY DEF IInv, VoidedIsFlagged
<1>3. CASE FastRecord(p, t)
  <2> DEFINE tip == fast.tip
  <2>1. /\ row' = [row EXCEPT ![p] = Match(p, None)] /\ p \in fast.due
        /\ Recompute(o, row', order[o], tip, t)
        /\ fast' = IF fast.due = {p} THEN Rested ELSE [fast EXCEPT !.due = @ \ {p}]
        /\ UNCHANGED <<world, round, lookup, chain, unsynchronized>>
    BY <1>3 DEF FastRecord, positions
  <2>2. /\ row' \in [Pay -> Row]
        /\ \A q \in Pay : row'[q] # None /\ row'[q].voided => row[q] # None /\ row[q].voided
    BY <1>1, <2>1, MatchStep
  <2>3. /\ fast \in [tip : Height \cup {None}, told : Time, due : SUBSET Pay]
        /\ tip \in Height /\ tip \in Int
    BY <2>1, NoneIsNoHeight DEF IInv, Shape, Reads
  <2>4. \A q \in Pay : row'[q] # None /\ row'[q].voided =>
            IF Pays[q] = o THEN order[o].flagged ELSE row[q] # None /\ row[q].voided
    BY <1>2, <2>2
  <2>5. fast'.due = fast.due \ {p}
    BY <2>1, <2>3 DEF Rested
  <2>6. fast' # fast
    BY <2>1, <2>5
  <2>7. Reads'
    <3>1. /\ fast' \in [tip : Height \cup {None}, told : Time, due : SUBSET Pay]
          /\ fast'.due # {} => fast'.tip = tip
      BY <2>1, <2>3, SettlementAssumption DEF Rested, Time
    <3> QED
      BY <2>1, <2>3, <3>1, NoneIsNoHeight DEF IInv, Shape, Reads, world
  <2> HIDE DEF tip, o
  <2> QED
    BY <1>1, <2>1, <2>2, <2>3, <2>4, <2>6, <2>7, RecomputePreserves
<1>4. CASE VoidPayment(p)
  <2> DEFINE orec == [order[o] EXCEPT !.flagged = TRUE]
  <2>1. /\ row' = SetRow(p, None, TRUE)
        /\ Recompute(o, row', orec, roundTip, roundNow) /\ roundTip # None
        /\ UNCHANGED <<world, round, beside, chain, unsynchronized>>
    BY <1>4 DEF VoidPayment, positions
  <2>2. /\ row' \in [Pay -> Row]
        /\ \A q \in Pay : q # p => row'[q] = row[q]
    BY <1>1, <2>1, RowStep
  <2>3. /\ IsOrder(orec) /\ orec.flagged = TRUE /\ orec.status = order[o].status
        /\ orec.cancelled = order[o].cancelled /\ orec.expires = order[o].expires
    BY <1>1, FlagUpdate
  <2>4. \A q \in Pay : row'[q] # None /\ row'[q].voided =>
            IF Pays[q] = o THEN orec.flagged ELSE row[q] # None /\ row[q].voided
    BY <2>2, <2>3
  <2> HIDE DEF orec, o
  <2> QED
    BY <1>1, <2>1, <2>2, <2>3, <2>4, RecomputePreserves
<1>5. CASE UnvoidPayment(p, h)
  <2> DEFINE flag == order[o].flagged /\ ~NoneVoided(row', o)
             orec == [order[o] EXCEPT !.flagged = flag]
  <2>1. /\ row' = SetRow(p, h, FALSE)
        /\ Recompute(o, row', orec, roundTip, roundNow) /\ roundTip # None
        /\ UNCHANGED <<world, round, beside, chain, unsynchronized>>
    BY <1>5 DEF UnvoidPayment, positions
  <2>2. /\ row' \in [Pay -> Row] /\ ~row'[p].voided
        /\ \A q \in Pay : q # p => row'[q] = row[q]
    BY <1>1, <2>1, RowStep
  <2>3. /\ IsOrder(orec) /\ orec.flagged = flag /\ orec.status = order[o].status
        /\ orec.cancelled = order[o].cancelled /\ orec.expires = order[o].expires
    <3>1. flag \in BOOLEAN
      OBVIOUS
    <3>2. IsOrder(order[o])
      BY <1>1
    <3> HIDE DEF flag
    <3> QED
      BY ONLY <3>1, <3>2, FlagUpdate, ZenonT(60)
  <2>4. ASSUME NEW q \in Pay, row'[q] # None, row'[q].voided
        PROVE  IF Pays[q] = o THEN orec.flagged ELSE row[q] # None /\ row[q].voided
    <3>1. q # p /\ row[q] # None /\ row[q].voided
      BY <2>2, <2>4
    <3>2. Pays[q] = o => order[o].flagged
      BY <1>2, <3>1
    <3>3. Pays[q] = o => ~NoneVoided(row', o)
      BY <2>4 DEF NoneVoided
    <3> QED
      BY <2>3, <3>1, <3>2, <3>3
  <2> HIDE DEF orec, o
  <2> QED
    BY <1>1, <2>1, <2>2, <2>3, <2>4, RecomputePreserves
<1> QED
  BY <1>3, <1>4, <1>5

LEMMA StepPreserves ==
    ASSUME IInv, [Next]_vars
    PROVE  Preserves
<1>1. ASSUME NEW h \in 1..node PROVE h \in Height
  BY <1>1, SettlementAssumption DEF IInv, Shape, Height
<1>2. 1 \in Height /\ 0 \in 0..now
  BY SettlementAssumption DEF Height, IInv, Shape, Time
<1>3. CASE \/ Tick \/ Crash \/ ObserveTip \/ FinishJob \/ LookUpAsks \/ LookUpEnds \/ UNCHANGED vars
           \/ \E h \in Height : NodeMoves(h) \/ OpenJob(h)
           \/ \E s \in BOOLEAN : ObserveSynchronized(s)
           \/ \E t \in 0..now : BeginRound(t)
           \/ \E S \in SUBSET Pay : FastTold(S)
  BY <1>2, <1>3, ChainSteps
<1>4. CASE (\E o \in Order : RecomputeNext(o) \/ CancelOrder(o)) \/ LookUpRecomputes
  <2>1. LookUpRecomputes => lookup.order \in Order
    BY TypesOfReads DEF LookUpRecomputes
  <2> QED
    BY <1>4, <2>1, RecomputeSteps
<1>5. CASE \E p \in Pay :
          \/ RecordPool(p)
          \/ \E h \in 1..node : LocatePayment(p, h)
          \/ \E h \in 1..node \cup {None} : Reexamine(p, h) \/ \E t \in 0..now : LookUp(p, h, t)
  BY <1>1, <1>2, <1>5, ScanSteps
<1>6. CASE \E h \in Height : \E S \in SUBSET Pay : CommitBlock(h, S)
  BY <1>6, CommitPreserves
<1>7. CASE \E p \in Pay :
          \/ VoidPayment(p) \/ \E t \in 0..now : FastRecord(p, t)
          \/ \E h \in 1..node \cup {None} : UnvoidPayment(p, h)
  BY <1>1, <1>2, <1>7, PaymentSteps
<1> QED
  BY <1>3, <1>4, <1>5, <1>6, <1>7 DEF Next

LEMMA Initially == Init => IInv
<1> SUFFICES ASSUME Init PROVE IInv
  OBVIOUS
<1>1. Shape
  <2>1. Orders
    <3>1. order = [o \in Order |-> order[o]]
      BY DEF Init
    <3>2. ASSUME NEW o \in Order PROVE IsOrder(order[o])
      BY SettlementAssumption DEF Init, IsOrder
    <3> QED
      BY <3>1, <3>2 DEF Orders
  <2>2. row \in [Pay -> Row]
    BY DEF Init, Row
  <2>3. 1 \in Height /\ 1 \in 0..MaxTip /\ 0 \in Time
    BY SettlementAssumption DEF Height, Time
  <2>4. Reads
    BY <2>3 DEF Init, Reads, Rested, Lookup
  <2>5. node \in Height
    BY SettlementAssumption DEF Init
  <2> QED
    BY <2>1, <2>2, <2>3, <2>4, <2>5 DEF Init, Shape
<1>2. VoidedIsFlagged
  BY DEF Init, VoidedIsFlagged
<1>3. TipsFollowTimes
  <2>1. ASSUME NEW o \in Order PROVE ~(0 > order[o].expires) /\ lowest[o] = None
    BY SettlementAssumption DEF Init
  <2>2. lookup.step # "asked" /\ now = 0 /\ roundNow = 0
    BY DEF Init, NoLookup
  <2> QED
    BY <2>1, <2>2 DEF TipsFollowTimes, Since
<1> QED
  BY <1>1, <1>2, <1>3 DEF IInv

\* The inductive invariant: the heights, the rows and the orders keep their
\* shape, the flags follow the voids, and the tips that a round and a lookup go
\* by are no older than the times.
THEOREM Invariant == Spec => []IInv
<1>1. IInv /\ [Next]_vars => IInv'
  BY StepPreserves DEF Preserves
<1> QED
  BY <1>1, Initially, PTL DEF Spec

\* However the scanner's transactions, voids, restores, reorganisations and
\* recomputes interleave, an order with a voided payment carries the
\* double-spend flag (void_and_notify, unvoid_as_false_positive).
THEOREM FlagsFollowVoids == Spec => []VoidedIsFlagged
<1>1. IInv => VoidedIsFlagged
  BY DEF IInv
<1> QED
  BY <1>1, Invariant, PTL

\* No order is announced as settled on blocks that may be replaced, nor as
\* expired while a block that the node has had since the deadline, and that is not
\* scanned yet, may pay it, by whichever transaction recomputes it and however old
\* the tip and the time are that it goes by; but for the fast path, whose tip may
\* be from before the deadline (plan_status, settlement_frozen, scan_row_behind).
THEOREM AnnouncementsAreSafe == Spec => AnnouncedSafely
<1>1. IInv /\ [Next]_vars => \A o \in Order : Safely(o)
  BY StepPreserves DEF Preserves
<1>2. IInv /\ [Next]_vars =>
        [\A o \in Order :
        /\ (order[o].status \notin Settlement /\ order'[o].status \in Settlement) =>
              /\ fork' = None
              /\ \A p \in Counted(row', o) : row'[p].height # None => row'[p].height <= highWater'
        /\ (order[o].status # "expired" /\ order'[o].status = "expired") =>
              /\ now' > order'[o].expires /\ ~order'[o].cancelled
              /\ ~unsynchronized' /\ cursor' >= highWater'
              /\ fork' # None => cursor' < fork'
              /\ fast' = fast => lowest'[o] # None /\ cursor' >= lowest'[o]]_vars
  BY <1>1 DEF Safely
<1> QED
  BY <1>2, Invariant, PTL DEF Spec, AnnouncedSafely

-----------------------------------------------------------------------------
(* The types. *)

OrderRecord ==
    [status : Status, received : Nat, expires : Nat,
     dueAt : Nat \cup {None}, dueHeight : Nat \cup {None},
     cancelled : BOOLEAN, flagged : BOOLEAN]

LEMMA HeightsAre ==
    /\ Height \subseteq Nat /\ Height \subseteq 0..MaxTip /\ 0..MaxTip \subseteq Nat
    /\ None \notin Nat /\ Time \subseteq Nat
BY PiconeroAssumption, SettlementAssumption DEF Height, Time

LEMMA RowViews ==
    ASSUME NEW R \in [Pay -> Row], NEW o, NEW tip \in Nat
    PROVE  IsViews(Views(R, o, tip))
<1> DEFINE W == Views(R, o, tip)
<1>1. DOMAIN W \subseteq Pay /\ IsFiniteSet(DOMAIN W) /\ DOMAIN W \subseteq Nat
  <2>1. DOMAIN W \in SUBSET Pay
    BY DEF Views, Counted
  <2> QED
    BY <2>1, SettlementAssumption, FS_Subset
<1>2. ASSUME NEW p \in DOMAIN W
      PROVE  /\ W[p].amount \in Nat /\ W[p].conf \in Nat /\ W[p].zero \in BOOLEAN
             /\ W[p].zero => W[p].conf = 0
  <2>1. p \in Pay /\ R[p] # None
    BY <1>2 DEF Views, Counted, Valid
  <2>2. R[p] \in [height : Height \cup {None}, voided : BOOLEAN]
    BY <2>1 DEF Row
  <2>3. R[p].height # None => R[p].height \in Nat
    BY <2>2, HeightsAre
  <2>4. Amount[p] \in Nat
    BY <2>1, SettlementAssumption
  <2>5. (IF R[p].height = None \/ R[p].height > tip THEN 0 ELSE tip - R[p].height + 1) \in Nat
    BY <2>3
  <2>6. /\ W[p].amount = Amount[p] /\ W[p].zero = (R[p].height = None)
        /\ W[p].conf = IF R[p].height = None \/ R[p].height > tip THEN 0 ELSE tip - R[p].height + 1
    BY <1>2 DEF Views
  <2>7. W[p].zero => W[p].conf = 0
    BY <2>6
  <2> HIDE DEF W
  <2> QED
    BY <2>4, <2>5, <2>6, <2>7
<1> QED
  BY <1>1, <1>2 DEF IsViews

LEMMA TermsHold ==
    ASSUME NEW o \in Order, NEW orec \in OrderRecord
    PROVE  HasTerms(Terms(o, orec))
<1>1. /\ Price[o] \in Nat \ {0} /\ Required[o] \in Nat
      /\ orec.expires \in Nat /\ orec.cancelled \in BOOLEAN
  BY SettlementAssumption DEF OrderRecord
<1> QED
  BY <1>1 DEF HasTerms, Terms

LEMMA PlanTyped ==
    ASSUME NEW W, IsViews(W), NEW o, HasTerms(o), o.expires \in Nat, o.status \in Status,
           NEW facts, facts.now \in Nat, facts.height \in Nat
    PROVE  LET plan == Plan(W, o, facts)
           IN  /\ plan.status \in Status /\ plan.received \in Nat
               /\ plan.dueAt \in Nat \cup {None} /\ plan.dueHeight \in Nat \cup {None}
<1>1. AfterDeadline(o, facts.now) \in Nat
  <2>1. o.expires + 1 \in Nat
    OBVIOUS
  <2> QED
    BY <2>1, GreatestOfTwo DEF AfterDeadline
<1>2. Wanted(W, o, facts.now) \in Status
  BY DEF Wanted, Derive, Status, Open, Terminal, Settlement
<1>3. Received(W) \in Nat
  BY TotalFacts DEF Received
<1>4. /\ "unconfirmed" \in Status /\ "confirming" \in Status
      /\ facts.height + 1 \in Nat
  BY DEF Status, Open
<1> DEFINE plan == Plan(W, o, facts)
<1>5. plan.status \in Status
  BY <1>2, <1>4 DEF Plan
<1>6. plan.received \in Nat /\ plan.dueAt \in Nat \cup {None} /\ plan.dueHeight \in Nat \cup {None}
  BY <1>1, <1>3, <1>4 DEF Plan, Retry
<1> QED
  BY <1>5, <1>6

\* What a recompute of o, read as orec, writes.
LEMMA RecomputeWrites ==
    ASSUME NEW o \in Order, NEW R \in [Pay -> Row], NEW orec \in OrderRecord, NEW tip \in 0..MaxTip,
           NEW when \in Nat, TypeOK, Recompute(o, R, orec, tip, when)
    PROVE  LET plan == Plan(Views(R, o, tip), Terms(o, orec), Facts(R, o, tip, when))
           IN  /\ order' \in [Order -> OrderRecord]
               /\ \A u \in Order : u # o => order'[u] = order[u]
               /\ order'[o].status = plan.status /\ order'[o].dueAt = plan.dueAt
               /\ order'[o].dueHeight = plan.dueHeight
               /\ order'[o].expires = orec.expires /\ order'[o].cancelled = orec.cancelled
               /\ pending' \subseteq Order /\ pending \subseteq pending' \cup {o}
               /\ pending' \subseteq pending \cup {o}
               /\ ahead' \in [Order -> 0..MaxTip]
               /\ \A u \in Order : u # o => ahead'[u] = ahead[u]
               /\ settlementTip # None => tip <= settlementTip \/ ahead'[o] = tip
<1> DEFINE W == Views(R, o, tip)
           asks == Terms(o, orec)
           facts == Facts(R, o, tip, when)
           plan == Plan(W, asks, facts)
<1>1. tip \in Nat
  BY HeightsAre
<1>2. IsViews(W) /\ HasTerms(asks) /\ asks.expires \in Nat /\ asks.status \in Status
      /\ facts.now \in Nat /\ facts.height \in Nat
  BY <1>1, RowViews, TermsHold DEF Terms, OrderRecord, Facts
<1>3. /\ plan.status \in Status /\ plan.received \in Nat
      /\ plan.dueAt \in Nat \cup {None} /\ plan.dueHeight \in Nat \cup {None}
  <2> HIDE DEF W, asks, facts
  <2> QED
    BY <1>2, PlanTyped
<1>4. PlanOf(R, o, orec, tip, when) = plan
  BY DEF PlanOf
<1> DEFINE new == [status |-> plan.status, received |-> plan.received, expires |-> orec.expires,
                   dueAt |-> plan.dueAt, dueHeight |-> plan.dueHeight,
                   cancelled |-> orec.cancelled, flagged |-> orec.flagged]
<1>5. /\ order' = [order EXCEPT ![o] = new]
      /\ pending' = IF plan.keep THEN pending \cup {o} ELSE pending \ {o}
      /\ ahead' = [ahead EXCEPT ![o] = IF settlementTip # None /\ tip > settlementTip THEN tip ELSE 0]
  <2> HIDE DEF plan
  <2> QED
    BY <1>4 DEF Recompute, PlanOf
<1>6. new \in OrderRecord
  <2> HIDE DEF plan
  <2> QED
    BY <1>3 DEF OrderRecord
<1>7. /\ order \in [Order -> OrderRecord] /\ pending \subseteq Order /\ ahead \in [Order -> 0..MaxTip]
      /\ 0 \in 0..MaxTip
  BY SettlementAssumption DEF TypeOK, OrderRecord
<1>8. /\ new.status = plan.status /\ new.dueAt = plan.dueAt /\ new.dueHeight = plan.dueHeight
      /\ new.expires = orec.expires /\ new.cancelled = orec.cancelled
  OBVIOUS
<1>9. settlementTip # None => settlementTip \in Nat
  BY HeightsAre DEF TypeOK
<1> HIDE DEF plan, new
<1>10. /\ order' \in [Order -> OrderRecord] /\ order'[o] = new
       /\ \A u \in Order : u # o => order'[u] = order[u]
  BY <1>5, <1>6, <1>7
<1>11. /\ pending' \subseteq Order /\ pending \subseteq pending' \cup {o}
       /\ pending' \subseteq pending \cup {o}
  BY <1>5, <1>7
<1>12. /\ ahead' \in [Order -> 0..MaxTip]
       /\ \A u \in Order : u # o => ahead'[u] = ahead[u]
       /\ settlementTip # None => tip <= settlementTip \/ ahead'[o] = tip
  BY <1>1, <1>5, <1>7, <1>9
<1> QED
  BY <1>8, <1>10, <1>11, <1>12 DEF plan

-----------------------------------------------------------------------------
(* What is neither owed a recompute nor due for one shows what it should. *)

\* Until it is due, a recompute of o at a height from b on changes nothing.
Covers(o, b) ==
    \A facts :
        (/\ facts.height \in Nat /\ facts.height >= b
         /\ facts.now \in Nat /\ facts.now >= now
         /\ facts.conflicted = FALSE
         /\ order[o].dueAt = None \/ facts.now < order[o].dueAt
         /\ order[o].dueHeight = None \/ facts.height < order[o].dueHeight)
        => Plan(Views(row, o, facts.height), Terms(o, order[o]), facts).status = order[o].status

\* What an order that isn't owed a recompute goes by: nothing that a chain may
\* take back, or the heights from one the settlement tier has reached on.
Kept(o) ==
    o \notin pending =>
        \E b \in Nat :
            /\ Covers(o, b)
            /\ o \notin Mined(row) => b = 0
            /\ settlementTip # None => b <= settlementTip \/ b <= ahead[o]

AllKept == \A o \in Order : Kept(o)

KInv == IInv /\ TypeOK /\ AllKept

LEMMA TypesAre ==
    ASSUME TypeOK
    PROVE  row \in [Pay -> Row] /\ order \in [Order -> OrderRecord] /\ now \in Nat
BY HeightsAre DEF TypeOK, Row, OrderRecord

\* The payments of an order are all a recompute reads of them.
LEMMA SameViews ==
    ASSUME NEW R, NEW S, NEW o, \A p \in Pay : Pays[p] = o => S[p] = R[p]
    PROVE  /\ \A tip : Views(S, o, tip) = Views(R, o, tip)
           /\ o \in Mined(S) <=> o \in Mined(R)
<1>1. Counted(S, o) = Counted(R, o)
  BY DEF Counted, Valid
<1>2. \A p \in Counted(R, o) : S[p] = R[p]
  BY DEF Counted
<1> QED
  BY <1>1, <1>2 DEF Views, Mined

\* A step that leaves o's record and what it goes by alone, or makes it owed a
\* recompute.
LEMMA UntouchedStaysKept ==
    ASSUME KInv, TypeOK', NEW o \in Order,
           order'[o] = order[o], ahead'[o] = ahead[o], now' >= now,
           o \in pending => o \in pending',
           o \notin pending' => \A p \in Pay : Pays[p] = o => row'[p] = row[p],
           \/ settlementTip' = settlementTip
           \/ /\ settlementTip' # None
              /\ settlementTip = None \/ settlementTip' < settlementTip
                 => (o \in Mined(row) => o \in pending')
    PROVE  Kept(o)'
<1> SUFFICES ASSUME o \notin pending'
             PROVE  \E b \in Nat :
                        /\ Covers(o, b)'
                        /\ o \notin Mined(row') => b = 0
                        /\ settlementTip' # None => b <= settlementTip' \/ b <= ahead'[o]
  BY DEF Kept
<1>1. PICK b \in Nat :
         /\ Covers(o, b)
         /\ o \notin Mined(row) => b = 0
         /\ settlementTip # None => b <= settlementTip \/ b <= ahead[o]
  BY DEF KInv, AllKept, Kept
<1>2. /\ \A tip : Views(row', o, tip) = Views(row, o, tip)
      /\ o \in Mined(row') <=> o \in Mined(row)
  BY SameViews
<1>3. now \in Nat /\ now' \in Nat
  BY HeightsAre DEF KInv, TypeOK
<1>4. Covers(o, b)'
  <2> SUFFICES ASSUME NEW facts,
                      facts.height \in Nat, facts.height >= b,
                      facts.now \in Nat, facts.now >= now',
                      facts.conflicted = FALSE,
                      order'[o].dueAt = None \/ facts.now < order'[o].dueAt,
                      order'[o].dueHeight = None \/ facts.height < order'[o].dueHeight
               PROVE  Plan(Views(row', o, facts.height), Terms(o, order'[o]), facts).status
                      = order'[o].status
    BY DEF Covers
  <2>1. facts.now >= now
    BY <1>3
  <2> QED
    BY <1>1, <1>2, <2>1 DEF Covers
<1>5. settlementTip' # None => b <= settlementTip' \/ b <= ahead'[o]
  <2>1. /\ settlementTip # None => settlementTip \in Nat
        /\ settlementTip' # None => settlementTip' \in Nat
    BY HeightsAre DEF KInv, TypeOK
  <2>2. CASE settlementTip' = settlementTip
    BY <1>1, <2>2
  <2>3. CASE settlementTip' # None /\ (settlementTip = None \/ settlementTip' < settlementTip)
    <3>1. b = 0
      BY <1>1, <2>1, <2>3
    <3> QED
      BY <2>1, <2>3, <3>1
  <2>4. CASE settlementTip' # None /\ settlementTip # None /\ ~(settlementTip' < settlementTip)
    BY <1>1, <2>1, <2>4
  <2> QED
    BY <2>2, <2>3, <2>4
<1> QED
  BY <1>1, <1>2, <1>4, <1>5

\* The payments of an order once the tip has risen; those that no block holds
\* show the same whatever the tip.
LEMMA RowsDeepen ==
    ASSUME NEW R \in [Pay -> Row], NEW o \in Order, NEW low \in Nat, NEW high \in Nat,
           o \in Mined(R) => high >= low
    PROVE  /\ Deepened(Views(R, o, low), Views(R, o, high))
           /\ o \notin Mined(R) => /\ Views(R, o, high) = Views(R, o, low)
                                   /\ \A x : ~Maturing(Views(R, o, low), x)
<1> DEFINE W == Views(R, o, low)
           X == Views(R, o, high)
<1>1. ASSUME NEW p \in Counted(R, o)
      PROVE  /\ R[p].height # None => R[p].height \in Nat
             /\ R[p].height # None => o \in Mined(R)
  <2>1. R[p] \in [height : Height \cup {None}, voided : BOOLEAN]
    BY DEF Counted, Valid, Row
  <2> QED
    BY <2>1, HeightsAre DEF Mined
<1>2. ASSUME NEW p \in Counted(R, o)
      PROVE  /\ X[p].amount = W[p].amount /\ X[p].zero = W[p].zero /\ X[p].conf >= W[p].conf
             /\ W[p].zero = (R[p].height = None)
             /\ R[p].height = None => X[p] = W[p]
  <2>1. /\ W[p] = [amount |-> Amount[p],
                   conf |-> IF R[p].height = None \/ R[p].height > low THEN 0 ELSE low - R[p].height + 1,
                   zero |-> R[p].height = None]
        /\ X[p] = [amount |-> Amount[p],
                   conf |-> IF R[p].height = None \/ R[p].height > high THEN 0 ELSE high - R[p].height + 1,
                   zero |-> R[p].height = None]
    BY DEF Views
  <2>2. R[p].height # None => high >= low /\ R[p].height \in Nat
    BY <1>1
  <2> QED
    BY <2>1, <2>2
<1>3. DOMAIN W = Counted(R, o) /\ DOMAIN X = Counted(R, o)
  BY DEF Views
<1>4. Deepened(W, X)
  <2> HIDE DEF W, X
  <2> QED
    BY <1>2, <1>3 DEF Deepened
<1>5. ASSUME o \notin Mined(R)
      PROVE  X = W /\ \A x : ~Maturing(W, x)
  <2>1. \A p \in Counted(R, o) : R[p].height = None
    BY <1>1, <1>5
  <2>2. X = W
    BY <2>1 DEF Views
  <2>3. \A p \in DOMAIN W : W[p].zero
    <3> HIDE DEF W, X
    <3> QED
      BY <1>2, <1>3, <2>1
  <2> HIDE DEF W, X
  <2> QED
    BY <2>2, <2>3 DEF Maturing
<1> QED
  BY <1>4, <1>5

\* An order that was recomputed.
LEMMA RecomputedIsKept ==
    ASSUME KInv, TypeOK', NEW o \in Order, NEW orec \in OrderRecord, NEW tip \in 0..MaxTip,
           NEW when \in Nat, when <= now,
           Recompute(o, row', orec, tip, when), UNCHANGED <<now, settlementTip>>
    PROVE  Kept(o)'
<1> DEFINE W == Views(row', o, tip)
           asks == Terms(o, orec)
           facts == Facts(row', o, tip, when)
           plan == Plan(W, asks, facts)
<1>1. /\ row' \in [Pay -> Row] /\ now \in Nat /\ tip \in Nat /\ TypeOK
      /\ settlementTip # None => settlementTip \in Nat
  BY HeightsAre DEF TypeOK, Row, KInv
<1>2. /\ order' \in [Order -> OrderRecord]
      /\ order'[o].status = plan.status /\ order'[o].dueAt = plan.dueAt
      /\ order'[o].dueHeight = plan.dueHeight
      /\ order'[o].expires = orec.expires /\ order'[o].cancelled = orec.cancelled
      /\ settlementTip # None => tip <= settlementTip \/ ahead'[o] = tip
  BY <1>1, RecomputeWrites
<1>3. PICK b \in Nat : b = IF o \in Mined(row') THEN tip ELSE 0
  BY <1>1
<1>4. Covers(o, b)'
  <2> HIDE DEF plan
  <2> SUFFICES ASSUME NEW later,
                      later.height \in Nat, later.height >= b,
                      later.now \in Nat, later.now >= now,
                      later.conflicted = FALSE,
                      plan.dueAt = None \/ later.now < plan.dueAt,
                      plan.dueHeight = None \/ later.height < plan.dueHeight
               PROVE  Plan(Views(row', o, later.height), Terms(o, order'[o]), later).status
                      = order'[o].status
    BY <1>2 DEF Covers
  <2> DEFINE X == Views(row', o, later.height)
             u == Terms(o, order'[o])
  <2>1. /\ Deepened(W, X)
        /\ o \notin Mined(row') => X = W /\ \A x : ~Maturing(W, x)
    BY <1>1, <1>3, RowsDeepen
  <2>2. IsViews(W) /\ IsViews(X)
    BY <1>1, RowViews
  <2>3. HasTerms(asks) /\ HasTerms(u)
    BY <1>2, TermsHold
  <2>4. /\ u.amount = asks.amount /\ u.required = asks.required
        /\ u.expires = asks.expires /\ u.cancelled = asks.cancelled
        /\ u.status = plan.status
    BY <1>2 DEF Terms
  <2>5. /\ facts.now = when /\ facts.height = tip /\ facts.conflicted = FALSE
    BY DEF Facts
  <2>6. Maturing(W, asks) => later.height >= facts.height
    BY <1>3, <2>1, <2>5
  <2>7. later.height = facts.height => X = W
    BY <2>5
  <2>8. u.status = order'[o].status
    BY DEF Terms
  <2> HIDE DEF W, X, u, asks, facts
  <2>9. /\ u.status = Plan(W, asks, facts).status
        /\ Plan(W, asks, facts).dueAt = None \/ later.now < Plan(W, asks, facts).dueAt
        /\ Plan(W, asks, facts).dueHeight = None \/ later.height < Plan(W, asks, facts).dueHeight
    BY <2>4 DEF plan
  <2>10. /\ facts.now \in Nat /\ facts.height \in Nat
         /\ later.now >= facts.now /\ later.conflicted = facts.conflicted
    <3>1. later.now >= when
      BY <1>1
    <3> QED
      BY <1>1, <2>5, <3>1
  <2>11. Plan(X, u, later).status = u.status
    BY <2>1, <2>2, <2>3, <2>4, <2>6, <2>7, <2>9, <2>10, PlanStays
  <2> QED
    BY <2>8, <2>11 DEF X, u
<1>5. /\ o \notin Mined(row') => b = 0
      /\ settlementTip # None => b <= settlementTip \/ b <= ahead'[o]
  <2> HIDE DEF plan
  <2> QED
    BY <1>1, <1>2, <1>3
<1> QED
  BY <1>4, <1>5 DEF Kept

Keeps == TypeOK' /\ AllKept'

\* A transaction that recomputes o, whose payments alone it may change.
LEMMA RecomputeKeeps ==
    ASSUME KInv, IInv', NEW o \in Order, NEW orec \in OrderRecord, NEW tip \in 0..MaxTip,
           NEW when \in Nat, when <= now, Recompute(o, row', orec, tip, when),
           \A p \in Pay : Pays[p] # o => row'[p] = row[p],
           UNCHANGED <<now, observed, positions>>, surprises' \in 0..MaxSurprises
    PROVE  Keeps
<1>1. row' \in [Pay -> Row] /\ TypeOK /\ now \in Nat
  BY TypesAre DEF KInv, IInv, Shape
<1>2. /\ order' \in [Order -> OrderRecord] /\ pending' \subseteq Order
      /\ ahead' \in [Order -> 0..MaxTip]
      /\ \A u \in Order : u # o => order'[u] = order[u] /\ ahead'[u] = ahead[u]
      /\ pending \subseteq pending' \cup {o}
  BY <1>1, RecomputeWrites
<1>3. TypeOK'
  BY <1>1, <1>2 DEF IInv, Shape, Reads, TypeOK, Row, OrderRecord, positions
<1>4. ASSUME NEW u \in Order PROVE Kept(u)'
  <2>1. CASE u = o
    BY <1>3, <2>1, RecomputedIsKept DEF positions
  <2>2. CASE u # o
    <3>1. /\ order'[u] = order[u] /\ ahead'[u] = ahead[u]
          /\ u \in pending => u \in pending'
      BY <1>2, <2>2
    <3>2. \A p \in Pay : Pays[p] = u => row'[p] = row[p]
      BY <2>2
    <3>3. now' >= now /\ settlementTip' = settlementTip
      BY <1>1 DEF positions
    <3> QED
      BY <1>3, <3>1, <3>2, <3>3, UntouchedStaysKept
  <2> QED
    BY <2>1, <2>2
<1> QED
  BY <1>3, <1>4 DEF Keeps, AllKept

\* One that recomputes nothing, but leaves an obligation where it changes a
\* payment.
LEMMA ObligationKeeps ==
    ASSUME KInv, IInv', UNCHANGED <<order, ahead>>,
           pending \subseteq pending', pending' \subseteq Order,
           \A p \in Pay : Pays[p] \notin pending' => row'[p] = row[p],
           now' \in Time, now' >= now, surprises' \in 0..MaxSurprises, observed' \in BOOLEAN,
           unsynchronized' \in BOOLEAN,
           \/ settlementTip' = settlementTip
           \/ /\ settlementTip' \in Height
              /\ settlementTip = None \/ settlementTip' < settlementTip
                 => Mined(row) \subseteq pending'
    PROVE  Keeps
<1>1. TypeOK'
  BY DEF KInv, IInv, Shape, Reads, TypeOK, Row
<1>2. ASSUME NEW o \in Order PROVE Kept(o)'
  <2>1. settlementTip' \in Height => settlementTip' # None
    BY HeightsAre
  <2>2. \A p \in Pay : Pays[p] = o => (o \notin pending' => row'[p] = row[p])
    OBVIOUS
  <2> QED
    BY <1>1, <2>1, <2>2, UntouchedStaysKept
<1> QED
  BY <1>1, <1>2 DEF Keeps, AllKept

\* One that changes no payment and no order.
LEMMA QuietKeeps ==
    ASSUME KInv, IInv', UNCHANGED <<row, orders, settlementTip>>,
           now' \in Time, now' >= now, surprises' \in 0..MaxSurprises, observed' \in BOOLEAN,
           unsynchronized' \in BOOLEAN
    PROVE  Keeps
BY ObligationKeeps DEF orders, KInv, TypeOK

\* One that leaves its obligations to the triggers.
LEMMA TriggerKeeps ==
    ASSUME KInv, IInv', LeaveObligation(row'), surprises' \in 0..MaxSurprises,
           UNCHANGED <<now, observed, positions>>
    PROVE  Keeps
<1>1. \A p \in Pay : Pays[p] \in Order
  BY SettlementAssumption
<1>2. pending \subseteq pending' /\ pending' \subseteq Order
  BY <1>1 DEF LeaveObligation, ObligedBy, KInv, TypeOK
<1>3. \A p \in Pay : Pays[p] \notin pending' => row'[p] = row[p]
  BY DEF LeaveObligation, ObligedBy
<1>4. now' \in Time /\ now' >= now /\ observed' \in BOOLEAN /\ unsynchronized' \in BOOLEAN
  BY HeightsAre DEF positions, KInv, TypeOK
<1> QED
  BY <1>2, <1>3, <1>4, ObligationKeeps DEF LeaveObligation, positions

LEMMA SurpriseCounts ==
    ASSUME surprises \in 0..MaxSurprises
    PROVE  /\ Surprise => surprises' \in 0..MaxSurprises
           /\ surprises < MaxSurprises => surprises + 1 \in 0..MaxSurprises
BY SettlementAssumption DEF Surprise

\* The steps, as in StepPreserves.
LEMMA ChainKeeps ==
    ASSUME KInv, IInv', NEW h \in Height, NEW s \in BOOLEAN, NEW t, NEW S,
           \/ Tick \/ BeginRound(t) \/ Crash \/ ObserveTip \/ FinishJob
           \/ NodeMoves(h) \/ OpenJob(h) \/ ObserveSynchronized(s) \/ UNCHANGED vars
           \/ FastTold(S) \/ LookUpAsks \/ LookUpEnds
    PROVE  Keeps
<1>1. /\ now \in Time /\ now >= now /\ surprises \in 0..MaxSurprises /\ observed \in BOOLEAN
      /\ unsynchronized \in BOOLEAN /\ pending \subseteq Order
      /\ Surprise => surprises' \in 0..MaxSurprises
  BY HeightsAre, SurpriseCounts DEF KInv, TypeOK
<1>2. Mined(row) \subseteq Order
  BY DEF Mined
<1>3. CASE Tick
  <2>1. now + 1 \in Time /\ now + 1 >= now
    BY <1>1, <1>3, SettlementAssumption DEF Tick, Time
  <2> QED
    BY <1>1, <1>3, <2>1, QuietKeeps DEF Tick, round, positions
<1>4. CASE BeginRound(t) \/ LookUpAsks \/ LookUpEnds
  BY <1>1, <1>4, QuietKeeps DEF BeginRound, LookUpAsks, LookUpEnds, world, round, positions
<1>5. CASE Crash \/ FastTold(S)
  BY <1>1, <1>5, QuietKeeps DEF Crash, FastTold, world, round, positions
<1>6. CASE ObserveTip
  <2>1. roundTip \in Height
    BY <1>6 DEF ObserveTip, KInv, TypeOK
  <2>2. pending \subseteq pending' /\ pending' \subseteq Order
    BY <1>1, <1>2, <1>6 DEF ObserveTip, ShortenedBy
  <2>3. settlementTip = None \/ settlementTip' < settlementTip => Mined(row) \subseteq pending'
    BY <1>6 DEF ObserveTip, ShortenedBy
  <2> QED
    BY <1>1, <1>6, <2>1, <2>2, <2>3, ObligationKeeps DEF ObserveTip, world
<1>7. CASE FinishJob
  <2>1. pending \subseteq pending' /\ pending' \subseteq Order
    BY <1>1, <1>2, <1>7 DEF FinishJob
  <2> QED
    BY <1>1, <1>7, <2>1, ObligationKeeps DEF FinishJob, world, round, positions
<1>8. CASE NodeMoves(h)
  BY <1>1, <1>8, QuietKeeps DEF NodeMoves, round, positions
<1>9. CASE OpenJob(h)
  BY <1>1, <1>9, QuietKeeps DEF OpenJob, world, round, positions
<1>10. CASE ObserveSynchronized(s)
  <2>1. surprises' \in 0..MaxSurprises
    BY <1>1, <1>10, SurpriseCounts DEF ObserveSynchronized
  <2> QED
    BY <1>1, <1>10, <2>1, QuietKeeps DEF ObserveSynchronized, world, round
<1>11. CASE UNCHANGED vars
  BY <1>1, <1>11, QuietKeeps DEF vars, world, round, positions
<1> QED
  BY <1>3, <1>4, <1>5, <1>6, <1>7, <1>8, <1>9, <1>10, <1>11

LEMMA RecomputesKeep ==
    ASSUME KInv, IInv', NEW o \in Order,
           RecomputeNext(o) \/ LookUpRecomputes \/ CancelOrder(o)
    PROVE  Keeps
<1>1. /\ order[o] \in OrderRecord /\ now \in Nat /\ surprises \in 0..MaxSurprises
      /\ highWater \in 0..MaxTip /\ now <= now
      /\ roundTip # None => roundTip \in 0..MaxTip
      /\ roundNow \in Nat /\ roundNow <= now
      /\ Surprise => surprises' \in 0..MaxSurprises
  BY HeightsAre, TypesAre, SurpriseCounts DEF KInv, TypeOK, IInv, Shape
<1>2. CASE RecomputeNext(o)
  <2>1. roundTip # None
    BY <1>2 DEF RecomputeNext, KInv, IInv, Shape
  <2> QED
    BY <1>1, <1>2, <2>1, RecomputeKeeps DEF RecomputeNext, world, round
<1>3. CASE LookUpRecomputes
  <2> DEFINE u == lookup.order
             tip == lookup.tip
             when == lookup.now
  <2>1. /\ lookup.step = "asked" /\ row' = row
        /\ Recompute(u, row', order[u], tip, when)
        /\ UNCHANGED <<now, observed, positions>> /\ surprises' = surprises
    BY <1>3 DEF LookUpRecomputes, world, round
  <2>2. u \in Order /\ tip \in 0..MaxTip /\ when \in Nat /\ when <= now
    BY <2>1, TypesOfReads, HeightsAre DEF KInv
  <2>3. order[u] \in OrderRecord
    BY <2>2, TypesAre DEF KInv
  <2> HIDE DEF u, tip, when
  <2> QED
    BY <1>1, <2>1, <2>2, <2>3, RecomputeKeeps
<1>4. CASE CancelOrder(o)
  <2> DEFINE expires == Least({order[o].expires, now})
             orec == [order[o] EXCEPT !.cancelled = TRUE, !.expires = expires]
  <2>1. expires \in Nat
    <3>1. order[o].expires \in Int /\ now \in Int
      BY <1>1 DEF OrderRecord
    <3>2. expires = IF order[o].expires <= now THEN order[o].expires ELSE now
      BY <3>1, LeastOfTwo
    <3> QED
      BY <1>1, <3>2 DEF OrderRecord
  <2>2. Recompute(o, row, orec, highWater, now)
    BY <1>4 DEF CancelOrder
  <2> HIDE DEF expires
  <2>3. orec \in OrderRecord
    BY <1>1, <2>1 DEF OrderRecord
  <2> HIDE DEF orec
  <2> QED
    BY <1>1, <1>4, <2>2, <2>3, RecomputeKeeps DEF CancelOrder, world, round
<1> QED
  BY <1>2, <1>3, <1>4

LEMMA ScansKeep ==
    ASSUME KInv, IInv', NEW p \in Pay, NEW h, NEW S, NEW t,
           \/ RecordPool(p) \/ LookUp(p, h, t) \/ Reexamine(p, h)
           \/ CommitBlock(h, S) \/ LocatePayment(p, h)
    PROVE  Keeps
<1>1. /\ surprises \in 0..MaxSurprises
      /\ Surprise => surprises' \in 0..MaxSurprises
  BY SurpriseCounts DEF KInv, TypeOK
<1>2. CASE RecordPool(p)
  BY <1>1, <1>2, TriggerKeeps DEF RecordPool, world, round
<1>3. CASE LookUp(p, h, t)
  BY <1>1, <1>3, TriggerKeeps DEF LookUp, world, round
<1>4. CASE Reexamine(p, h)
  BY <1>1, <1>4, TriggerKeeps DEF Reexamine, world, round
<1>5. CASE CommitBlock(h, S)
  BY <1>1, <1>5, TriggerKeeps DEF CommitBlock, world, round
<1>6. CASE LocatePayment(p, h)
  BY <1>1, <1>6, TriggerKeeps DEF LocatePayment, world, round
<1> QED
  BY <1>2, <1>3, <1>4, <1>5, <1>6

LEMMA PaymentsKeep ==
    ASSUME KInv, IInv', NEW p \in Pay, NEW h, NEW t \in 0..now,
           FastRecord(p, t) \/ VoidPayment(p) \/ UnvoidPayment(p, h)
    PROVE  Keeps
<1> DEFINE o == Pays[p]
<1>1. o \in Order
  BY SettlementAssumption
<1>2. /\ order[o] \in OrderRecord /\ surprises \in 0..MaxSurprises
      /\ roundTip # None => roundTip \in 0..MaxTip
      /\ roundNow \in Nat /\ roundNow <= now /\ t \in Nat /\ t <= now
      /\ p \in fast.due => fast.tip \in 0..MaxTip
      /\ Surprise => surprises' \in 0..MaxSurprises
      /\ row \in [Pay -> Row]
  <2>1. order[o] \in OrderRecord /\ row \in [Pay -> Row]
    BY <1>1, TypesAre DEF KInv
  <2>2. t \in Nat /\ t <= now
    BY HeightsAre DEF KInv, TypeOK
  <2>3. p \in fast.due => fast.tip \in 0..MaxTip
    BY HeightsAre DEF KInv, IInv, Shape, Reads
  <2> QED
    BY <2>1, <2>2, <2>3, HeightsAre, SurpriseCounts DEF KInv, TypeOK, IInv, Shape
<1>3. CASE FastRecord(p, t)
  <2> DEFINE tip == fast.tip
  <2>1. /\ Recompute(o, row', order[o], tip, t) /\ tip \in 0..MaxTip
        /\ UNCHANGED <<now, surprises, observed, positions>>
    BY <1>2, <1>3 DEF FastRecord, world, round
  <2>2. \A q \in Pay : Pays[q] # o => row'[q] = row[q]
    BY <1>2, <1>3 DEF FastRecord
  <2> HIDE DEF tip, o
  <2> QED
    BY <1>1, <1>2, <2>1, <2>2, RecomputeKeeps
<1>4. CASE VoidPayment(p)
  <2> DEFINE orec == [order[o] EXCEPT !.flagged = TRUE]
  <2>1. /\ Recompute(o, row', orec, roundTip, roundNow) /\ roundTip # None
        /\ UNCHANGED <<now, observed, positions>> /\ Surprise
    BY <1>4 DEF VoidPayment, world, round
  <2>2. \A q \in Pay : Pays[q] # o => row'[q] = row[q]
    BY <1>2, <1>4 DEF VoidPayment, SetRow
  <2>3. orec \in OrderRecord
    BY <1>2 DEF OrderRecord
  <2> HIDE DEF orec, o
  <2> QED
    BY <1>1, <1>2, <2>1, <2>2, <2>3, RecomputeKeeps
<1>5. CASE UnvoidPayment(p, h)
  <2> DEFINE flag == order[o].flagged /\ ~NoneVoided(row', o)
             orec == [order[o] EXCEPT !.flagged = flag]
  <2>1. /\ Recompute(o, row', orec, roundTip, roundNow) /\ roundTip # None
        /\ UNCHANGED <<now, surprises, observed, positions>>
    BY <1>5 DEF UnvoidPayment, world, round
  <2>2. \A q \in Pay : Pays[q] # o => row'[q] = row[q]
    BY <1>2, <1>5 DEF UnvoidPayment, SetRow
  <2>3. orec \in OrderRecord
    <3>1. flag \in BOOLEAN
      OBVIOUS
    <3> HIDE DEF flag
    <3> QED
      BY <1>2, <3>1 DEF OrderRecord
  <2> HIDE DEF orec, o
  <2> QED
    BY <1>1, <1>2, <2>1, <2>2, <2>3, RecomputeKeeps
<1> QED
  BY <1>3, <1>4, <1>5

LEMMA StepKeeps ==
    ASSUME KInv, IInv', [Next]_vars
    PROVE  Keeps
<1>1. 1 \in Height /\ 0 \in 0..now
  BY HeightsAre, SettlementAssumption DEF Height, KInv, TypeOK
<1>2. CASE \/ Tick \/ Crash \/ ObserveTip \/ FinishJob \/ LookUpAsks \/ LookUpEnds \/ UNCHANGED vars
           \/ \E h \in Height : NodeMoves(h) \/ OpenJob(h)
           \/ \E s \in BOOLEAN : ObserveSynchronized(s)
           \/ \E t \in 0..now : BeginRound(t)
           \/ \E S \in SUBSET Pay : FastTold(S)
  BY <1>1, <1>2, ChainKeeps
<1>3. CASE (\E o \in Order : RecomputeNext(o) \/ CancelOrder(o)) \/ LookUpRecomputes
  <2>1. LookUpRecomputes => lookup.order \in Order
    BY TypesOfReads DEF LookUpRecomputes, KInv
  <2> QED
    BY <1>3, <2>1, RecomputesKeep
<1>4. CASE \E p \in Pay :
          \/ RecordPool(p)
          \/ \E h \in 1..node : LocatePayment(p, h)
          \/ \E h \in 1..node \cup {None} : Reexamine(p, h) \/ \E t \in 0..now : LookUp(p, h, t)
  BY <1>4, ScansKeep
<1>5. CASE \E h \in Height : \E S \in SUBSET Pay : CommitBlock(h, S)
  <2>1. PICK h \in Height, S \in SUBSET Pay : CommitBlock(h, S)
    BY <1>5
  <2>2. LeaveObligation(row') /\ UNCHANGED <<now, surprises, observed, positions>>
    BY <2>1 DEF CommitBlock, world, round
  <2>3. surprises \in 0..MaxSurprises
    BY DEF KInv, TypeOK
  <2> QED
    BY <2>2, <2>3, TriggerKeeps
<1>6. CASE \E p \in Pay :
          \/ VoidPayment(p) \/ \E t \in 0..now : FastRecord(p, t)
          \/ \E h \in 1..node \cup {None} : UnvoidPayment(p, h)
  BY <1>1, <1>6, PaymentsKeep
<1> QED
  BY <1>2, <1>3, <1>4, <1>5, <1>6 DEF Next

\* A new order is pending until its deadline.
LEMMA NewOrderIsKept == Init => KInv
<1> SUFFICES ASSUME Init PROVE KInv
  OBVIOUS
<1>1. IInv
  BY Initially
<1>2. TypeOK
  <2>1. \A o \in Order : order[o] = [status |-> "pending", received |-> 0, expires |-> Deadline[o],
           dueAt |-> Deadline[o], dueHeight |-> None, cancelled |-> FALSE, flagged |-> FALSE]
    BY DEF Init
  <2>2. "pending" \in Status /\ 0 \in Nat /\ Deadline \in [Order -> Nat]
    BY SettlementAssumption DEF Status, Open
  <2>3. order \in [Order -> OrderRecord]
    BY <2>1, <2>2 DEF Init, OrderRecord
  <2>4. /\ 1 \in Height /\ 1 \in 0..MaxTip /\ 0 \in Time /\ 0 \in 0..MaxSurprises /\ 0 \in 0..MaxTip
    BY SettlementAssumption DEF Height, Time
  <2>5. row \in [Pay -> Row]
    BY DEF Init, Row
  <2>6. fast \in [tip : Height \cup {None}, told : Time, due : SUBSET Pay] /\ lookup \in Lookup
    BY <1>1 DEF IInv, Shape, Reads
  <2>7. node \in Height
    BY SettlementAssumption DEF Init
  <2> QED
    BY <2>3, <2>4, <2>5, <2>6, <2>7 DEF Init, TypeOK, OrderRecord, Row
<1>3. ASSUME NEW o \in Order PROVE Kept(o)
  <2>1. Covers(o, 0)
    <3> SUFFICES ASSUME NEW facts,
                        facts.height \in Nat, facts.now \in Nat, facts.conflicted = FALSE,
                        order[o].dueAt = None \/ facts.now < order[o].dueAt
                 PROVE  Plan(Views(row, o, facts.height), Terms(o, order[o]), facts).status
                        = order[o].status
      BY DEF Covers
    <3> DEFINE W == Views(row, o, facts.height)
               asks == Terms(o, order[o])
    <3>1. /\ order[o].status = "pending" /\ order[o].expires = Deadline[o]
          /\ order[o].dueAt = Deadline[o] /\ order[o].cancelled = FALSE
          /\ row \in [Pay -> Row] /\ order[o] \in OrderRecord
      BY <1>2, TypesAre DEF Init
    <3>2. facts.now < Deadline[o]
      BY <3>1, PiconeroAssumption, SettlementAssumption
    <3>3. IsViews(W) /\ HasTerms(asks) /\ asks.expires = Deadline[o] /\ asks.cancelled = FALSE
          /\ asks.status = "pending"
      BY <3>1, RowViews, TermsHold DEF Terms
    <3>4. DOMAIN W = {}
      BY DEF Views, Counted, Valid, Init
    <3> HIDE DEF W, asks
    <3>5. Received(W) = 0
      BY <3>3, <3>4, TotalFacts DEF Received
    <3>6. Derive(W, asks, facts.now) = "pending"
      <4>1. ~Covered(W, asks.amount)
        BY <3>3, <3>5 DEF Covered, HasTerms
      <4>2. ~(facts.now > asks.expires)
        BY <3>2, <3>3, SettlementAssumption
      <4> QED
        BY <3>5, <4>1, <4>2 DEF Derive
    <3>7. Plan(W, asks, facts).status = "pending"
      BY <3>3, <3>6 DEF Plan, Wanted, ExpiryHeld, SettlementDeferred, Settlement
    <3> QED
      BY <3>1, <3>7 DEF W, asks
  <2> QED
    BY <2>1 DEF Kept, Init
<1> QED
  BY <1>1, <1>2, <1>3 DEF KInv, AllKept

\* With what a recompute goes by, the invariant is inductive.
THEOREM RecomputesAreKept == Spec => []KInv
<1>1. KInv /\ [Next]_vars => KInv'
  <2> SUFFICES ASSUME KInv, [Next]_vars PROVE KInv'
    OBVIOUS
  <2>1. IInv'
    BY StepPreserves DEF KInv, Preserves
  <2> QED
    BY <2>1, StepKeeps DEF Keeps, KInv
<1> QED
  BY <1>1, NewOrderIsKept, PTL DEF Spec

\* The orders, the payments and the positions keep their types; in particular
\* every status, deadline and schedule a recompute writes is one the order's
\* table has (recompute_order_status).
THEOREM TypesHold == Spec => []TypeOK
<1>1. KInv => TypeOK
  BY DEF KInv
<1> QED
  BY <1>1, RecomputesAreKept, PTL

\* Whatever transactions interleave, an order whose status is not what its
\* payments, its deadline and the tip make it is owed a recompute or due for
\* one: nothing the status depends on changes unnoticed (the triggers of
\* migration 0017, next_due_at_utc, next_due_height, observe_settlement_tip,
\* keep_obligation).
THEOREM StaleOrdersAreScheduled == Spec => []StaleIsScheduled
<1>1. ASSUME KInv PROVE StaleIsScheduled
  <2> SUFFICES ASSUME NEW o \in Order,
                      settlementTip # None, ahead[o] <= settlementTip, ~Scheduled(o)
               PROVE  order[o].status = Right(o)
    BY DEF StaleIsScheduled
  <2> DEFINE facts == Facts(row, o, settlementTip, now)
  <2>1. /\ settlementTip \in Nat /\ now \in Nat /\ ahead[o] \in Nat
        /\ order[o].dueAt \in Nat \cup {None} /\ order[o].dueHeight \in Nat \cup {None}
    BY <1>1, HeightsAre DEF KInv, TypeOK
  <2>2. PICK b \in Nat : Covers(o, b) /\ (b <= settlementTip \/ b <= ahead[o])
    BY <1>1 DEF KInv, AllKept, Kept, Scheduled
  <2>3. facts.height = settlementTip /\ facts.now = now /\ facts.conflicted = FALSE
    BY DEF Facts
  <2>4. /\ order[o].dueAt = None \/ now < order[o].dueAt
        /\ order[o].dueHeight = None \/ settlementTip < order[o].dueHeight
    BY <2>1 DEF Scheduled, IsDue
  <2>5. settlementTip >= b /\ now >= now
    BY <2>1, <2>2
  <2>6. Right(o) = Plan(Views(row, o, settlementTip), Terms(o, order[o]), facts).status
    BY DEF Right, PlanOf
  <2> HIDE DEF facts
  <2>7. Plan(Views(row, o, facts.height), Terms(o, order[o]), facts).status = order[o].status
    BY <2>1, <2>2, <2>3, <2>4, <2>5 DEF Covers
  <2> QED
    BY <2>3, <2>6, <2>7
<1> QED
  BY <1>1, RecomputesAreKept, PTL
=============================================================================
