---------------------------- MODULE MCOrderStatus ----------------------------
(***************************************************************************)
(* The status rules over the payments an order may come to have: they are  *)
(* sighted in the pool or in a block, mined, and thrown out of their block *)
(* while blocks and time go by.  The rules are compared with a definition  *)
(* that doesn't order the payments.                                        *)
(***************************************************************************)
EXTENDS OrderStatus

CONSTANTS
    Ids,        \* the payments' row ids
    Amounts,    \* bound: what a payment may be of
    Prices,     \* bound: what the order may ask
    Depths,     \* bound: the confirmations it may require
    MaxTop, MaxTime, Expiry,
    Absent      \* a payment not sighted yet

\* An order asks for something (create_order refuses an amount of zero).
ASSUME HistoryAssumption ==
    /\ Ids \subseteq Nat /\ IsFiniteSet(Ids)
    /\ Amounts \subseteq Nat /\ Prices \subseteq Nat \ {0} /\ Depths \subseteq Nat
    /\ MaxTop \in Nat \ {0} /\ MaxTime \in Nat /\ Expiry \in Nat
    /\ Absent \notin Int \cup {None}

VARIABLES asked, amount, place, top, time

historyVars == <<asked, amount, place, top, time>>

\* place[p]: not sighted, in no block (None), or in the block of that height.
Places == {Absent, None} \cup 1..MaxTop

HistoryInit ==
    /\ asked \in [amount : Prices, required : Depths, expires : {Expiry}, cancelled : BOOLEAN]
    /\ amount \in [Ids -> Amounts]
    /\ place = [p \in Ids |-> Absent]
    /\ top = 1 /\ time = 0

Place(p, h) ==
    /\ h # Absent /\ place[p] # h
    /\ place' = [place EXCEPT ![p] = h]
    /\ UNCHANGED <<asked, amount, top, time>>

NewTop(t) == top' = t /\ t # top /\ UNCHANGED <<asked, amount, place, time>>
TimePasses == time < MaxTime /\ time' = time + 1 /\ UNCHANGED <<asked, amount, place, top>>

HistoryNext ==
    \/ \E p \in Ids : \E h \in Places : Place(p, h)
    \/ \E t \in 1..MaxTop : NewTop(t)
    \/ TimePasses

HistorySpec == HistoryInit /\ [][HistoryNext]_historyVars

-----------------------------------------------------------------------------

\* The views recompute_order_status makes of the rows, the tip at t.
ViewsAt(t) ==
    [p \in {q \in Ids : place[q] # Absent} |->
        [amount |-> amount[p],
         conf |-> IF place[p] = None \/ place[p] > t THEN 0 ELSE t - place[p] + 1,
         zero |-> place[p] = None]]
Seen == ViewsAt(top)

\* What the payments at least c blocks deep add up to.
Deep(c) == Total(Seen, {p \in DOMAIN Seen : Seen[p].conf >= c})

\* The status is that of the payments deep enough, however they are listed:
\* settled exactly when those alone cover the price (overpaid by everything
\* received), unconfirmed only while nothing is mined (derive_status,
\* covering).
StatusByDepth ==
    Derive(Seen, asked, time) =
        CASE Deep(asked.required) >= asked.amount ->
                IF Deep(0) > asked.amount THEN "overpaid" ELSE "paid"
          [] Deep(asked.required) < asked.amount /\ Deep(0) >= asked.amount ->
                IF \E p \in DOMAIN Seen : ~Seen[p].zero THEN "confirming" ELSE "unconfirmed"
          [] OTHER ->
                IF time > asked.expires THEN "expired" ELSE IF Deep(0) = 0 THEN "pending" ELSE "partial"

\* A covered order shows the greatest depth at which its payments still cover
\* the price (order_confirmations).
ConfirmationsByDepth ==
    Deep(0) >= asked.amount =>
        LET shown == Confirmations(Seen, asked.amount)
        IN  Deep(shown) >= asked.amount /\ Deep(shown + 1) < asked.amount

\* A later payment to the address, dust or a second overpayment, never walks a
\* settled order back or lowers the confirmations of a covered one (covering).
LaterPaymentHarmless ==
    [][(\E p \in Ids : place[p] = Absent /\ place'[p] # Absent) =>
         /\ Derive(Seen, asked, time) \in Settlement => Derive(Seen', asked, time) \in Settlement
         /\ Covered(Seen, asked.amount) =>
               Covered(Seen', asked.amount) /\ Confirmations(Seen', asked.amount) >= Confirmations(Seen, asked.amount)]_historyVars

\* What may hold a settlement back.
Holds == {"nothing", "frozen", "unproven"}
NothingProven == [p \in {} |-> [amount |-> 0, conf |-> 0, zero |-> TRUE]]

\* What a recompute goes by: the order with its status before (of which
\* plan_status tells only settled and expired apart), and the facts.
OrderWas(old) ==
    [amount |-> asked.amount, required |-> asked.required, expires |-> asked.expires,
     cancelled |-> asked.cancelled, status |-> old]
FactsAt(h, n, lagging, conflicted, hold) ==
    [lagging |-> lagging, conflicted |-> conflicted, frozen |-> hold = "frozen",
     proven |-> IF hold = "unproven" THEN NothingProven ELSE None,
     height |-> h, now |-> n]

\* What recomputes now may write.
Plans(conflicted) ==
    {Plan(Seen, OrderWas(old), FactsAt(top, time, lagging, conflicted, hold)) :
        old \in {"pending", "paid", "expired"}, lagging \in BOOLEAN, hold \in Holds}

\* Until the time and the height a recompute schedules the order for, another
\* recompute would write the same status, whatever the holds on it have become:
\* an order that is stale is due (next_due_at_utc, next_due_height).
ScheduleCovers ==
    \A conflicted \in BOOLEAN : \A plan \in Plans(conflicted) :
    \A h \in top..MaxTop : \A n \in time..MaxTime :
        (/\ plan.dueAt = None \/ n < plan.dueAt
         /\ plan.dueHeight = None \/ h < plan.dueHeight)
        => \A lagging \in BOOLEAN : \A hold \in Holds :
              Plan(ViewsAt(h), OrderWas(plan.status),
                   FactsAt(h, n, lagging, conflicted, hold)).status = plan.status
=============================================================================
