------------------------------ MODULE Conflicts ------------------------------
(***************************************************************************)
(* Payments of one order that share an output key                          *)
(* (crates/engine/src/store/conflicts.rs): only one of them can ever be    *)
(* spent, so only one is credited.  The others are superseded by it, which *)
(* each recompute of the order decides anew, while payments are found,     *)
(* move between blocks, and are voided and restored as double spends.      *)
(***************************************************************************)
EXTENDS Integers, Sequences, FiniteSets

CONSTANTS
    Keys,           \* the output keys
    Heights,        \* the heights of blocks
    MaxPayments,    \* bound: how many payments the order gets
    Checking,       \* is proof of work checked (proof_network)?
    None, Spent     \* no height, not voided; voided as a double spend

ASSUME ConflictsAssumption ==
    /\ Heights \subseteq Nat /\ MaxPayments \in Nat /\ Checking \in BOOLEAN
    /\ None \notin Int /\ Spent \notin Int /\ None # Spent

VARIABLES
    pay,        \* the payments, by their row ids (order_payments)
    counted,    \* those the last recompute counted toward the order
    unsettled,  \* it found a conflict with no payment in a block
    fresh       \* nothing changed since that recompute

vars == <<pay, counted, unsettled, fresh>>

\* void: not voided (None), Spent elsewhere, or superseded by the payment it
\* names (voided_at_utc, superseded_by).  proven: its block (block_hash) is the
\* proven one at its height.
Payment == [key : Keys, height : Heights \cup {None}, void : Nat \cup {None, Spent}, proven : BOOLEAN]

Live(p, i) == p[i].void # Spent
Sharing(p, k) == {i \in DOMAIN p : p[i].key = k /\ Live(p, i)}

Init == pay = <<>> /\ counted = {} /\ unsettled = FALSE /\ fresh = TRUE

-----------------------------------------------------------------------------
(* settle_output_key_conflicts, of the payments p. *)

InBlock(p, i) == p[i].height # None /\ (Checking => p[i].proven)

Earlier(p, i, j) ==
    \/ p[i].height < p[j].height
    \/ p[i].height = p[j].height /\ i < j

\* The credited one, if one is in a block.
Credited(p, k) ==
    {w \in Sharing(p, k) :
        InBlock(p, w) /\ \A i \in Sharing(p, k) \ {w} : InBlock(p, i) => Earlier(p, w, i)}

\* While none is, the one shown as received: in a block before in none.
ShownBefore(p, i, j) ==
    IF p[i].height # None /\ p[j].height # None THEN Earlier(p, i, j)
    ELSE p[i].height # None \/ (p[j].height = None /\ i < j)
Shown(p, k) == {s \in Sharing(p, k) : \A i \in Sharing(p, k) \ {s} : ShownBefore(p, s, i)}

Conflicting(p, k) == \E i, j \in Sharing(p, k) : i # j

\* Mutant: while nothing is in a block, all of them count.
CountingAll(p, k) == IF Credited(p, k) # {} THEN Credited(p, k) ELSE Sharing(p, k)
Counting(p, k) ==
    IF ~Conflicting(p, k) THEN Sharing(p, k)
    ELSE IF Credited(p, k) # {} THEN Credited(p, k) ELSE Shown(p, k)

\* supersede.  A payment brought back is what it was before.
\* Mutant: what was superseded once stays so.
KeptBack(r) == r
BroughtBack(r) == [r EXCEPT !.void = None]
Superseded(r, winner) == [r EXCEPT !.void = winner]

SettledRow(p, i) ==
    IF ~Live(p, i) THEN p[i]
    ELSE IF ~Conflicting(p, p[i].key) \/ Credited(p, p[i].key) \subseteq {i} THEN BroughtBack(p[i])
    ELSE Superseded(p[i], CHOOSE w \in Credited(p, p[i].key) : TRUE)
Settled(p) == [i \in DOMAIN p |-> SettledRow(p, i)]

\* recompute_order_status, of the payments p.
RecomputeOf(p) ==
    /\ pay' = Settled(p)
    /\ counted' = UNION {Counting(p, k) : k \in Keys}
    /\ unsettled' = (\E k \in Keys : Conflicting(p, k) /\ Credited(p, k) = {})
    /\ fresh' = TRUE

-----------------------------------------------------------------------------
(* What changes the payments.  An order is recomputed in the transaction    *)
(* that voids or rechecks a payment, and in one that follows otherwise.      *)

Changed(p) == pay' = p /\ fresh' = FALSE /\ UNCHANGED <<counted, unsettled>>

\* record_payment_match, of a payment not seen before.
Record(k, h) ==
    /\ Len(pay) < MaxPayments
    /\ Changed(Append(pay, [key |-> k, height |-> h, void |-> None, proven |-> FALSE]))

\* Mutant: what was proven of the block it was in is kept.
StillProven(r, h) == [r EXCEPT !.height = h]
WithHeight(r, h) ==
    LET moved == [r EXCEPT !.height = h] IN IF r.height = h THEN r ELSE [moved EXCEPT !.proven = FALSE]

\* Seen again, mined, moved by a reorganisation or thrown out of its block: a
\* superseded one is followed too (record_payment_match,
\* update_payment_block_height).
Move(i, h) ==
    /\ Live(pay, i) /\ pay[i].height # h
    /\ Changed([pay EXCEPT ![i] = WithHeight(@, h)])

\* Its block is found to be the proven one at its height, or is no longer.
Prove(i) ==
    /\ Live(pay, i) /\ pay[i].height # None
    /\ Changed([pay EXCEPT ![i].proven = ~@])

\* Another live payment has its key (shares_output_key).
Shares(i) == \E j \in DOMAIN pay \ {i} : pay[j].key = pay[i].key /\ Live(pay, j)

\* Its transaction is nowhere and its inputs are spent, as a unit found from a
\* row it read before: nothing is voided if its key is shared by now
\* (void_and_notify_in_tx).
Void(i) ==
    /\ Live(pay, i)
    /\ RecomputeOf(IF Shares(i) THEN pay
                   ELSE [pay EXCEPT ![i] = [WithHeight(@, None) EXCEPT !.void = Spent]])

Unvoided(i, h) == [pay EXCEPT ![i] = [WithHeight(@, h) EXCEPT !.void = None]]

\* Back in a block after a reorganisation (Decision::Restore), or a false
\* accusation (unvoid_as_false_positive).
Restore(i, h) == ~Live(pay, i) /\ h # None /\ Changed(Unvoided(i, h))
Recheck(i, h) == ~Live(pay, i) /\ RecomputeOf(Unvoided(i, h))

Recompute == ~fresh /\ RecomputeOf(pay)

Next ==
    \/ \E k \in Keys, h \in Heights \cup {None} : Record(k, h)
    \/ \E i \in DOMAIN pay :
        \/ \E h \in Heights \cup {None} : Move(i, h) \/ Restore(i, h) \/ Recheck(i, h)
        \/ Prove(i) \/ Void(i)
    \/ Recompute

Spec == Init /\ [][Next]_vars

-----------------------------------------------------------------------------

TypeOK ==
    /\ pay \in Seq(Payment) /\ Len(pay) <= MaxPayments
    /\ \A i \in DOMAIN pay :
        /\ pay[i].void \in Nat => pay[i].void \in DOMAIN pay \ {i}
        /\ pay[i].height = None => ~pay[i].proven
    /\ counted \subseteq DOMAIN pay
    /\ unsettled \in BOOLEAN /\ fresh \in BOOLEAN

\* The order never counts a key's money twice, and once recomputed it counts it
\* whenever one of the payments isn't a double spend.
KeyCountsOnce ==
    /\ \A i, j \in counted : pay[i].key = pay[j].key => i = j
    /\ fresh => \A i \in DOMAIN pay : Live(pay, i) =>
                    \E j \in counted : pay[j].key = pay[i].key /\ pay[j].void = None

\* The payment credited is the earliest in a block, and the others are
\* superseded by it; while none is, nothing is superseded and the order is kept
\* from settling (settle_output_key_conflicts).
CreditFollowsBlocks ==
    fresh =>
        \A i, j \in DOMAIN pay :
            (i # j /\ pay[i].key = pay[j].key /\ Live(pay, i) /\ Live(pay, j)) =>
                /\ i \in counted /\ InBlock(pay, j) =>
                        InBlock(pay, i) /\ Earlier(pay, i, j) /\ pay[j].void = i
                /\ ~InBlock(pay, i) => (i \in counted => unsettled)
                /\ unsettled \/ i \in counted \/ pay[i].void \in counted
                /\ pay[i].void \in Nat => InBlock(pay, pay[i].void)

\* A superseded payment stands behind a payment of its key that stands itself,
\* even before the order is recomputed: no money of the order is lost by two
\* payments superseded for each other, or for a double spend.
SupersededIsBacked ==
    \A i \in DOMAIN pay : pay[i].void \in Nat =>
        pay[pay[i].void].key = pay[i].key /\ pay[pay[i].void].void = None
=============================================================================
