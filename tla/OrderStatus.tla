----------------------------- MODULE OrderStatus -----------------------------
(***************************************************************************)
(* The rules an order's status is decided by (crates/engine/src/status.rs  *)
(* and plan_status in crates/engine/src/store/mod.rs), pure functions of   *)
(* the payments that count toward the order and of what a recompute knows. *)
(*                                                                         *)
(* The payments are a function V from their row ids to views               *)
(*    [amount, conf, zero],                                                *)
(* zero meaning that the payment has no block height.                      *)
(***************************************************************************)
EXTENDS Integers, FiniteSets, Functions

CONSTANTS
    MaxPiconero,    \* u64::MAX: sums of amounts saturate there
    None            \* no time, no height, no proven blocks to go by

ASSUME PiconeroAssumption == MaxPiconero \in Nat /\ None \notin Int

Open == {"pending", "unconfirmed", "confirming", "partial"}
Settlement == {"paid", "overpaid"}
Terminal == Settlement \cup {"expired", "cancelled"}
Status == Open \cup Terminal

Least(S) == CHOOSE m \in S : \A n \in S : m <= n
Greatest(S) == CHOOSE m \in S : \A n \in S : m >= n

-----------------------------------------------------------------------------
(* The payments. *)

\* What the payments P of V add up to.
Total(V, P) == Least({MaxPiconero, SumFunctionOnSet([p \in DOMAIN V |-> V[p].amount], P)})
Received(V) == Total(V, DOMAIN V)

\* p comes before q in the order the payments are counted in: deepest first,
\* mined before unmined, then as the store lists them.
\* Mutant: as the store lists them.
ListedBefore(V, p, q) == p < q
Before(V, p, q) ==
    \/ V[p].conf > V[q].conf
    \/ V[p].conf = V[q].conf /\ ~V[p].zero /\ V[q].zero
    \/ V[p].conf = V[q].conf /\ V[p].zero = V[q].zero /\ p < q

Covered(V, amount) == Received(V) >= amount

\* Mutant: one payment too many.
CoveringOneMore(V, amount) ==
    {q \in DOMAIN V : LET earlier == {p \in DOMAIN V : Before(V, p, q)}
                      IN  earlier = {} \/ Total(V, earlier) <= amount}

\* The payments that cover the amount: each one counted before it was reached,
\* and the first.
Covering(V, amount) ==
    {q \in DOMAIN V : LET earlier == {p \in DOMAIN V : Before(V, p, q)}
                      IN  earlier = {} \/ Total(V, earlier) < amount}

LeastConfirmed(V, P) == IF P = {} THEN 0 ELSE Least({V[p].conf : p \in P})

Confirmations(V, amount) ==
    LeastConfirmed(V, IF Covered(V, amount) THEN Covering(V, amount) ELSE DOMAIN V)

-----------------------------------------------------------------------------
(* The status of an order o, [amount, required, expires], at time now. *)

Derive(V, o, now) ==
    IF Covered(V, o.amount)
    THEN LET covering == Covering(V, o.amount)
         IN  IF LeastConfirmed(V, covering) >= o.required
             THEN IF Received(V) > o.amount THEN "overpaid" ELSE "paid"
             ELSE IF covering # {} /\ \A p \in covering : V[p].zero
                  THEN "unconfirmed" ELSE "confirming"
    ELSE IF now > o.expires THEN "expired"
    ELSE IF Received(V) = 0 THEN "pending" ELSE "partial"

\* A cancelled order stays so while it is short.
Wanted(V, o, now) ==
    LET derived == Derive(V, o, now)
    IN  IF o.cancelled /\ derived \in {"pending", "partial", "expired"} THEN "cancelled" ELSE derived

\* The expiry waits: a block not scanned yet may hold the payment.
ExpiryHeld(wanted, o, facts) ==
    wanted = "expired" /\ o.status # "expired" /\ facts.lagging

\* The settlement waits: two payments share an output key, the heights may be
\* of a chain that is being replaced, or the blocks aren't proven
\* (facts.proven: the payments as proven, None while nothing is checked).
SettlementDeferred(wanted, o, facts) ==
    /\ wanted \in Settlement
    /\ \/ facts.conflicted
       \/ /\ o.status \notin Settlement
          /\ facts.frozen \/ (facts.proven # None /\ Derive(facts.proven, o, facts.now) \notin Settlement)

\* Mutant: every payment is.
AllMaturing(V, o) == \A p \in DOMAIN V : ~V[p].zero /\ V[p].conf < o.required

\* A mined payment is short of the confirmations required: the next block
\* changes what the order shows.
Maturing(V, o) == \E p \in DOMAIN V : ~V[p].zero /\ V[p].conf < o.required

AfterDeadline(o, now) == Greatest({o.expires + 1, now})

\* When an order that was held back is tried again.  Mutant: never.
NoRetry(now) == None
Retry(now) == now

\* plan_status: what a recompute writes, and when the status can next change
\* without a payment changing (None if never).
Plan(V, o, facts) ==
    LET wanted == Wanted(V, o, facts.now)
        expiryHeld == ExpiryHeld(wanted, o, facts)
        deferred == SettlementDeferred(wanted, o, facts)
        status == IF expiryHeld THEN o.status
                  ELSE IF deferred THEN IF \A p \in DOMAIN V : V[p].zero THEN "unconfirmed" ELSE "confirming"
                  ELSE wanted
        final == ~expiryHeld /\ ~deferred /\ status \in Terminal
    IN  [status |-> status,
         received |-> Received(V),
         dueAt |-> IF expiryHeld \/ deferred THEN Retry(facts.now)
                   ELSE IF final \/ Covered(V, o.amount) THEN None
                   ELSE AfterDeadline(o, facts.now),
         dueHeight |-> IF ~expiryHeld /\ ~deferred /\ ~final /\ Maturing(V, o)
                       THEN facts.height + 1 ELSE None,
         keep |-> deferred]

=============================================================================
