--------------------------- MODULE ConflictsProofs ---------------------------
(***************************************************************************)
(* For any number of payments, keys and heights: proofs of the invariants  *)
(* of Conflicts, which are inductive together.                             *)
(***************************************************************************)
EXTENDS Conflicts, WellFoundedInduction, TLAPS

\* The payments p, as the order may have them.
Rows(p) ==
    /\ p \in Seq(Payment)
    /\ \A i \in DOMAIN p :
        /\ p[i].void \in Nat => p[i].void \in DOMAIN p \ {i}
        /\ p[i].height = None => ~p[i].proven

LEMMA Apart == None \notin Nat /\ Spent \notin Nat /\ None # Spent
  BY ConflictsAssumption, SMT

LEMMA RowTypes ==
    ASSUME NEW p, Rows(p)
    PROVE  /\ DOMAIN p = 1..Len(p) /\ Len(p) \in Nat
           /\ \A i \in DOMAIN p :
                /\ i \in Nat /\ p[i] \in Payment /\ p[i].key \in Keys
                /\ p[i].height # None => p[i].height \in Nat
  <1>1. p \in Seq(Payment)
    BY DEF Rows
  <1>2. DOMAIN p = 1..Len(p) /\ Len(p) \in Nat
    BY <1>1, SMT
  <1>3. \A i \in DOMAIN p : i \in Nat /\ p[i] \in Payment
    BY <1>1, <1>2, SMT
  <1>4. \A i \in DOMAIN p : p[i].key \in Keys /\ p[i].height \in Heights \cup {None}
    BY <1>3 DEF Payment
  <1> QED BY <1>2, <1>3, <1>4, ConflictsAssumption

-----------------------------------------------------------------------------
(* The earliest of some payments. *)

LEMMA LeastOf ==
    ASSUME NEW T, T \subseteq Nat, T # {}
    PROVE  \E x \in T : \A y \in T : x <= y
  <1>1. PICK x \in T : \A y \in T : <<y, x>> \notin OpToRel(<, Nat)
    BY WFMin, NatLessThanWellFounded, Zenon
  <1>2. \A y \in T : ~(y < x)
    BY <1>1, Zenon DEF OpToRel
  <1> QED BY <1>2, SMT

\* Of payments that have heights, one is before all the others.
LEMMA EarliestOf ==
    ASSUME NEW p, Rows(p), NEW B, B \subseteq DOMAIN p, B # {},
           \A i \in B : p[i].height # None
    PROVE  \E w \in B : \A i \in B \ {w} : Earlier(p, w, i)
  <1>1. \A i \in B : i \in Nat /\ p[i].height \in Nat
    BY RowTypes
  <1>2. PICK h \in {p[i].height : i \in B} : \A g \in {p[i].height : i \in B} : h <= g
    <2>1. {p[i].height : i \in B} \subseteq Nat /\ {p[i].height : i \in B} # {}
      BY <1>1
    <2> QED BY <2>1, LeastOf
  <1> DEFINE I == {i \in B : p[i].height = h}
  <1>3. PICK w \in I : \A i \in I : w <= i
    <2>1. I \subseteq Nat /\ I # {}
      BY <1>1, <1>2
    <2> HIDE DEF I
    <2> QED BY <2>1, LeastOf
  <1>4. ASSUME NEW i \in B, i # w
        PROVE  Earlier(p, w, i)
    <2>1. p[w].height = h /\ w \in B /\ h <= p[i].height
      BY <1>2, <1>3
    <2>2. CASE p[i].height = h
      <3>1. w <= i
        BY <1>3, <2>2
      <3> QED BY <1>1, <1>4, <2>1, <2>2, <3>1, SMT DEF Earlier
    <2>3. CASE p[i].height # h
      BY <1>1, <2>1, <2>3, SMT DEF Earlier
    <2> QED BY <2>2, <2>3
  <1> QED BY <1>3, <1>4

\* Of two payments in blocks only one is before the other.
LEMMA EarlierIsStrict ==
    ASSUME NEW p, Rows(p), NEW i \in DOMAIN p, NEW j \in DOMAIN p,
           p[i].height # None, p[j].height # None, Earlier(p, i, j), Earlier(p, j, i)
    PROVE  FALSE
  <1>1. i \in Nat /\ j \in Nat /\ p[i].height \in Nat /\ p[j].height \in Nat
    BY RowTypes
  <1> QED BY <1>1, SMT DEF Earlier

-----------------------------------------------------------------------------
(* Which payment of a key counts. *)

LEMMA CreditedIsOne ==
    ASSUME NEW p, Rows(p), NEW k
    PROVE  /\ \A i, j \in Credited(p, k) : i = j
           /\ (\E i \in Sharing(p, k) : InBlock(p, i)) => Credited(p, k) # {}
  <1>1. ASSUME NEW i \in Credited(p, k), NEW j \in Credited(p, k), i # j
        PROVE  FALSE
    <2>1. i \in DOMAIN p /\ j \in DOMAIN p /\ p[i].height # None /\ p[j].height # None
      BY DEF Credited, Sharing, InBlock
    <2>2. Earlier(p, i, j) /\ Earlier(p, j, i)
      BY <1>1 DEF Credited
    <2> QED BY <2>1, <2>2, EarlierIsStrict
  <1>2. ASSUME \E i \in Sharing(p, k) : InBlock(p, i)
        PROVE  Credited(p, k) # {}
    <2> DEFINE B == {i \in Sharing(p, k) : InBlock(p, i)}
    <2>1. B \subseteq DOMAIN p /\ B # {} /\ \A i \in B : p[i].height # None
      BY <1>2 DEF Sharing, InBlock
    <2>2. PICK w \in B : \A i \in B \ {w} : Earlier(p, w, i)
      <3> HIDE DEF B
      <3> QED BY <2>1, EarliestOf
    <2>3. w \in Credited(p, k)
      BY <2>2 DEF Credited
    <2> QED BY <2>3
  <1> QED BY <1>1, <1>2

LEMMA ShownIsOne ==
    ASSUME NEW p, Rows(p), NEW k
    PROVE  /\ \A i, j \in Shown(p, k) : i = j
           /\ Sharing(p, k) # {} => Shown(p, k) # {}
  <1>1. Sharing(p, k) \subseteq DOMAIN p
    BY DEF Sharing
  <1>2. ASSUME NEW i \in Shown(p, k), NEW j \in Shown(p, k), i # j
        PROVE  FALSE
    <2>1. i \in DOMAIN p /\ j \in DOMAIN p /\ ShownBefore(p, i, j) /\ ShownBefore(p, j, i)
      BY <1>1, <1>2 DEF Shown
    <2>2. CASE p[i].height # None /\ p[j].height # None
      <3>1. Earlier(p, i, j) /\ Earlier(p, j, i)
        BY <2>1, <2>2 DEF ShownBefore
      <3> QED BY <2>1, <2>2, <3>1, EarlierIsStrict
    <2>3. CASE ~(p[i].height # None /\ p[j].height # None)
      <3>1. i \in Nat /\ j \in Nat
        BY <2>1, RowTypes
      <3>2. i < j /\ j < i
        BY <2>1, <2>3 DEF ShownBefore
      <3> QED BY <3>1, <3>2, SMT
    <2> QED BY <2>2, <2>3
  <1>3. ASSUME Sharing(p, k) # {}
        PROVE  Shown(p, k) # {}
    <2> DEFINE B == {i \in Sharing(p, k) : p[i].height # None}
    <2>1. CASE B # {}
      <3>1. B \subseteq DOMAIN p /\ \A i \in B : p[i].height # None
        BY <1>1
      <3>2. PICK w \in B : \A i \in B \ {w} : Earlier(p, w, i)
        <4> HIDE DEF B
        <4> QED BY <2>1, <3>1, EarliestOf
      <3>3. \A i \in Sharing(p, k) \ {w} : ShownBefore(p, w, i)
        BY <3>2 DEF ShownBefore
      <3> QED BY <3>2, <3>3 DEF Shown
    <2>2. CASE B = {}
      <3>1. Sharing(p, k) \subseteq Nat
        BY <1>1, RowTypes
      <3>2. PICK w \in Sharing(p, k) : \A i \in Sharing(p, k) : w <= i
        BY <1>3, <3>1, LeastOf
      <3>3. ASSUME NEW i \in Sharing(p, k), i # w
            PROVE  ShownBefore(p, w, i)
        <4>1. w < i
          BY <3>1, <3>2, <3>3, SMT
        <4>2. p[w].height = None /\ p[i].height = None
          BY <2>2
        <4> QED BY <4>1, <4>2 DEF ShownBefore
      <3> QED BY <3>2, <3>3 DEF Shown
    <2> QED BY <2>1, <2>2
  <1> QED BY <1>2, <1>3

\* Exactly one payment of a key counts, if there is one that can.
LEMMA CountingIsOne ==
    ASSUME NEW p, Rows(p), NEW k
    PROVE  /\ Counting(p, k) \subseteq Sharing(p, k)
           /\ \A i, j \in Counting(p, k) : i = j
           /\ Sharing(p, k) # {} => Counting(p, k) # {}
  <1>1. Credited(p, k) \subseteq Sharing(p, k) /\ Shown(p, k) \subseteq Sharing(p, k)
    BY DEF Credited, Shown
  <1>2. CASE ~Conflicting(p, k)
    BY <1>2 DEF Counting, Conflicting
  <1>3. CASE Conflicting(p, k)
    BY <1>1, <1>3, CreditedIsOne, ShownIsOne DEF Counting
  <1> QED BY <1>2, <1>3

-----------------------------------------------------------------------------
(* What settling leaves. *)

LEMMA Revoided ==
    ASSUME NEW r \in Payment, NEW v \in Nat \cup {None, Spent}
    PROVE  LET new == [r EXCEPT !.void = v]
           IN  /\ new \in Payment /\ new.key = r.key /\ new.height = r.height
               /\ new.proven = r.proven /\ new.void = v
  BY SMT DEF Payment

LEMMA Reproven ==
    ASSUME NEW r \in Payment, NEW v \in BOOLEAN
    PROVE  LET new == [r EXCEPT !.proven = v]
           IN  /\ new \in Payment /\ new.key = r.key /\ new.void = r.void
               /\ new.height = r.height /\ new.proven = v
  <1> DEFINE new == [r EXCEPT !.proven = v]
  <1>1. r = [key |-> r.key, height |-> r.height, void |-> r.void, proven |-> r.proven]
        /\ r.key \in Keys /\ r.height \in Heights \cup {None} /\ r.void \in Nat \cup {None, Spent}
    BY DEF Payment
  <1>2. new.key = r.key /\ new.void = r.void /\ new.height = r.height
    BY <1>1
  <1>3. new.proven = v
    BY <1>1, Zenon
  <1>4. new = [key |-> r.key, height |-> r.height, void |-> r.void, proven |-> v]
    BY <1>1
  <1>5. new \in Payment
    <2> HIDE DEF new
    <2> QED BY <1>1, <1>4, Zenon DEF Payment
  <1> QED BY <1>2, <1>3, <1>5

\* Settling rewrites voids alone, and neither makes nor undoes a double spend's.
LEMMA SettledRows ==
    ASSUME NEW p, Rows(p)
    PROVE  /\ Rows(Settled(p)) /\ DOMAIN Settled(p) = DOMAIN p /\ Len(Settled(p)) = Len(p)
           /\ \A i \in DOMAIN p :
                /\ Settled(p)[i].key = p[i].key /\ Settled(p)[i].height = p[i].height
                /\ Settled(p)[i].proven = p[i].proven
                /\ Live(Settled(p), i) <=> Live(p, i)
                /\ Live(p, i) =>
                     IF ~Conflicting(p, p[i].key) \/ Credited(p, p[i].key) \subseteq {i}
                     THEN Settled(p)[i].void = None
                     ELSE /\ Settled(p)[i].void \in Nat /\ Settled(p)[i].void # i
                          /\ Settled(p)[i].void \in Credited(p, p[i].key)
  <1> DEFINE q == Settled(p)
  <1>1. /\ DOMAIN p = 1..Len(p) /\ Len(p) \in Nat
        /\ \A i \in DOMAIN p : i \in Nat /\ p[i] \in Payment
    BY RowTypes
  <1>2. DOMAIN q = DOMAIN p /\ \A i \in DOMAIN p : q[i] = SettledRow(p, i)
    BY DEF Settled
  <1> HIDE DEF q
  <1>3. ASSUME NEW i \in DOMAIN p
        PROVE  /\ q[i] \in Payment
               /\ q[i].key = p[i].key /\ q[i].height = p[i].height /\ q[i].proven = p[i].proven
               /\ Live(q, i) <=> Live(p, i)
               /\ q[i].void \in Nat => q[i].void \in DOMAIN p \ {i}
               /\ Live(p, i) =>
                    IF ~Conflicting(p, p[i].key) \/ Credited(p, p[i].key) \subseteq {i}
                    THEN q[i].void = None
                    ELSE q[i].void \in Nat /\ q[i].void # i /\ q[i].void \in Credited(p, p[i].key)
    <2>1. /\ p[i] \in Payment
          /\ p[i].void \in Nat => p[i].void \in DOMAIN p \ {i}
      BY <1>1 DEF Rows
    <2>2. CASE ~Live(p, i)
      <3>1. q[i] = p[i]
        BY <1>2, <2>2 DEF SettledRow
      <3> QED BY <2>1, <2>2, <3>1 DEF Live
    <2>3. CASE Live(p, i) /\ (~Conflicting(p, p[i].key) \/ Credited(p, p[i].key) \subseteq {i})
      <3>1. q[i] = BroughtBack(p[i])
        BY <1>2, <2>3 DEF SettledRow
      <3>2. /\ q[i] \in Payment /\ q[i].key = p[i].key /\ q[i].height = p[i].height
            /\ q[i].proven = p[i].proven /\ q[i].void = None
        BY <2>1, <3>1, Revoided DEF BroughtBack
      <3> QED BY <2>3, <3>2, Apart DEF Live
    <2>4. CASE Live(p, i) /\ ~(~Conflicting(p, p[i].key) \/ Credited(p, p[i].key) \subseteq {i})
      <3> DEFINE w == CHOOSE x \in Credited(p, p[i].key) : TRUE
      <3>1. w \in Credited(p, p[i].key) /\ w # i
        BY <2>4, CreditedIsOne
      <3>2. w \in DOMAIN p
        BY <3>1 DEF Credited, Sharing
      <3>3. w \in Nat /\ w # Spent
        BY <1>1, <3>2, Apart
      <3>4. q[i] = Superseded(p[i], w)
        BY <1>2, <2>4 DEF SettledRow
      <3> HIDE DEF w
      <3>5. /\ q[i] \in Payment /\ q[i].key = p[i].key /\ q[i].height = p[i].height
            /\ q[i].proven = p[i].proven /\ q[i].void = w
        BY <2>1, <3>3, <3>4, Revoided DEF Superseded
      <3> QED BY <2>4, <3>1, <3>2, <3>3, <3>5 DEF Live
    <2> QED BY <2>2, <2>3, <2>4
  <1>4. q \in Seq(Payment) /\ Len(q) = Len(p)
    <2>1. q \in [1..Len(p) -> Payment]
      <3>1. q = [i \in DOMAIN p |-> q[i]]
        BY DEF q, Settled
      <3> QED BY <1>1, <1>3, <3>1
    <2> QED BY <1>1, <2>1, SMT
  <1>5. Rows(q)
    <2>1. \A i \in DOMAIN q : q[i].height = None => ~q[i].proven
      BY <1>2, <1>3 DEF Rows
    <2> QED BY <1>2, <1>3, <1>4, <2>1 DEF Rows
  <1> QED BY <1>2, <1>3, <1>4, <1>5 DEF q

\* So that settling again would find the same.
LEMMA SettledAgain ==
    ASSUME NEW p, Rows(p)
    PROVE  /\ \A k : Sharing(Settled(p), k) = Sharing(p, k)
           /\ \A i \in DOMAIN p : InBlock(Settled(p), i) <=> InBlock(p, i)
           /\ \A i, j \in DOMAIN p : Earlier(Settled(p), i, j) <=> Earlier(p, i, j)
  BY SettledRows DEF Sharing, InBlock, Earlier

-----------------------------------------------------------------------------
(* The inductive invariant: what is promised of every state. *)

IInv == TypeOK /\ KeyCountsOnce /\ CreditFollowsBlocks /\ SupersededIsBacked

LEMMA TypesAreRows == TypeOK <=> /\ Rows(pay) /\ Len(pay) <= MaxPayments
                                 /\ counted \subseteq DOMAIN pay
                                 /\ unsettled \in BOOLEAN /\ fresh \in BOOLEAN
  BY DEF TypeOK, Rows

\* A recompute makes all of it true, whatever the payments were.
LEMMA RecomputeMakesRight ==
    ASSUME NEW p, Rows(p), Len(p) <= MaxPayments, RecomputeOf(p)
    PROVE  IInv'
  <1>1. /\ pay' = Settled(p) /\ counted' = UNION {Counting(p, k) : k \in Keys}
        /\ unsettled' = (\E k \in Keys : Conflicting(p, k) /\ Credited(p, k) = {}) /\ fresh'
    BY DEF RecomputeOf
  <1>2. Rows(pay') /\ DOMAIN pay' = DOMAIN p /\ Len(pay') = Len(p)
    BY <1>1, SettledRows
  <1>3. \A i \in DOMAIN p :
          /\ p[i].key \in Keys /\ pay'[i].key = p[i].key /\ (Live(pay', i) <=> Live(p, i))
          /\ InBlock(pay', i) <=> InBlock(p, i)
          /\ Live(p, i) => i \in Sharing(p, p[i].key)
    BY <1>1, RowTypes, SettledRows, SettledAgain DEF Sharing
  <1>4. \A i \in counted' : i \in DOMAIN p /\ Live(p, i) /\ i \in Counting(p, p[i].key)
    BY <1>1, CountingIsOne DEF Sharing
  <1>5. \A i \in DOMAIN p : i \in Counting(p, p[i].key) => i \in counted'
    BY <1>1, <1>3
  <1>6. TypeOK'
    BY <1>1, <1>2, <1>4 DEF TypeOK, Rows
  \* The one that counts isn't voided.
  <1>7. ASSUME NEW i \in counted'
        PROVE  pay'[i].void = None
    <2>1. i \in DOMAIN p /\ Live(p, i) /\ i \in Counting(p, p[i].key)
      BY <1>4
    <2>2. ~Conflicting(p, p[i].key) \/ Credited(p, p[i].key) \subseteq {i}
      <3>1. CASE Conflicting(p, p[i].key) /\ Credited(p, p[i].key) # {}
        BY <2>1, <3>1, CreditedIsOne DEF Counting
      <3> QED BY <3>1
    <2> QED BY <1>1, <2>1, <2>2, SettledRows
  <1>8. KeyCountsOnce'
    <2>1. \A i, j \in counted' : pay'[i].key = pay'[j].key => i = j
      BY <1>3, <1>4, CountingIsOne
    <2>2. ASSUME NEW i \in DOMAIN p, Live(p, i)
          PROVE  \E j \in counted' : pay'[j].key = pay'[i].key /\ pay'[j].void = None
      <3>1. PICK j \in Counting(p, p[i].key) : TRUE
        BY <1>3, <2>2, CountingIsOne
      <3>2. j \in DOMAIN p /\ p[j].key = p[i].key
        BY CountingIsOne DEF Sharing
      <3> QED BY <1>3, <1>5, <1>7, <2>2, <3>1, <3>2
    <2> QED BY <1>2, <1>3, <2>1, <2>2 DEF KeyCountsOnce
  <1>9. CreditFollowsBlocks'
    <2> SUFFICES ASSUME NEW i \in DOMAIN p, NEW j \in DOMAIN p,
                        i # j, p[i].key = p[j].key, Live(p, i), Live(p, j)
                 PROVE  /\ i \in counted' /\ InBlock(pay', j) =>
                             InBlock(pay', i) /\ Earlier(pay', i, j) /\ pay'[j].void = i
                        /\ ~InBlock(pay', i) => (i \in counted' => unsettled')
                        /\ unsettled' \/ i \in counted' \/ pay'[i].void \in counted'
                        /\ pay'[i].void \in Nat => InBlock(pay', pay'[i].void)
      BY <1>2, <1>3 DEF CreditFollowsBlocks
    <2> DEFINE k == p[i].key
    <2>1. Conflicting(p, k) /\ i \in Sharing(p, k) /\ j \in Sharing(p, k) /\ k \in Keys
      BY <1>3 DEF Conflicting
    <2>2. CASE Credited(p, k) = {}
      <3>1. unsettled' /\ ~InBlock(p, j)
        BY <1>1, <2>1, <2>2, CreditedIsOne
      <3>2. pay'[i].void \notin Nat
        BY <1>1, <2>2, SettledRows, Apart
      <3> QED BY <1>3, <3>1, <3>2
    <2>3. CASE Credited(p, k) # {}
      <3>1. PICK w : Credited(p, k) = {w}
        <4>1. PICK w : w \in Credited(p, k)
          BY <2>3
        <4>2. Credited(p, k) = {w}
          BY <4>1, CreditedIsOne
        <4> QED BY <4>2
      <3>2. /\ w \in Sharing(p, k) /\ InBlock(p, w)
            /\ \A x \in Sharing(p, k) \ {w} : InBlock(p, x) => Earlier(p, w, x)
        BY <3>1 DEF Credited
      <3>3. i \in counted' <=> i = w
        BY <1>4, <1>5, <2>1, <3>1 DEF Counting
      <3>4. w \in counted'
        <4>1. w \in DOMAIN p /\ p[w].key = k
          BY <3>2 DEF Sharing
        <4> QED BY <1>5, <2>1, <3>1, <4>1 DEF Counting
      <3>5. \A x \in DOMAIN p : x \in Sharing(p, k) /\ x # w => pay'[x].void = w
        BY <1>1, <2>1, <3>1, SettledRows DEF Sharing
      <3>6. i = w /\ InBlock(p, j) => Earlier(pay', i, j)
        BY <1>1, <2>1, <3>2, SettledAgain
      <3>7. pay'[i].void \in Nat => InBlock(pay', pay'[i].void)
        <4>1. i = w => pay'[i].void \notin Nat
          BY <1>1, <3>1, SettledRows, Apart
        <4>2. w \in DOMAIN p
          BY <3>2 DEF Sharing
        <4> QED BY <1>3, <2>1, <3>2, <3>5, <4>1, <4>2
      <3> QED BY <1>3, <2>1, <3>2, <3>3, <3>4, <3>5, <3>6, <3>7
    <2> QED BY <2>2, <2>3
  <1>10. SupersededIsBacked'
    <2> SUFFICES ASSUME NEW i \in DOMAIN p, pay'[i].void \in Nat
                 PROVE  pay'[pay'[i].void].key = pay'[i].key /\ pay'[pay'[i].void].void = None
      BY <1>2 DEF SupersededIsBacked
    <2>1. Live(p, i)
      BY <1>3, Apart DEF Live
    <2>2. Conflicting(p, p[i].key) /\ pay'[i].void \in Credited(p, p[i].key)
      BY <1>1, <2>1, SettledRows, Apart
    <2> DEFINE w == pay'[i].void
    <2>3. w \in DOMAIN p /\ p[w].key = p[i].key /\ w \in Counting(p, p[i].key)
      BY <2>2 DEF Credited, Sharing, Counting
    <2>4. w \in counted'
      BY <1>5, <2>3
    <2> QED BY <1>3, <1>7, <2>3, <2>4
  <1> QED BY <1>6, <1>8, <1>9, <1>10 DEF IInv

-----------------------------------------------------------------------------
(* What changes the payments. *)

\* The payments p are those of pay, moved, restored, or with one more.
Follows(p) ==
    /\ Rows(p) /\ Len(p) <= MaxPayments /\ DOMAIN pay \subseteq DOMAIN p
    /\ \A i \in DOMAIN pay : p[i].key = pay[i].key /\ p[i].void \in {pay[i].void, None}
    /\ \A i \in DOMAIN p \ DOMAIN pay : p[i].void = None

LEMMA ChangedStep ==
    ASSUME IInv, NEW p, Follows(p), Changed(p)
    PROVE  IInv'
  <1>1. pay' = p /\ ~fresh' /\ fresh' \in BOOLEAN /\ counted' = counted /\ unsettled' = unsettled
    BY DEF Changed
  <1>2. /\ counted \subseteq DOMAIN pay /\ unsettled \in BOOLEAN
        /\ \A i, j \in counted : pay[i].key = pay[j].key => i = j
    BY DEF IInv, TypeOK, KeyCountsOnce
  <1>3. TypeOK'
    BY <1>1, <1>2 DEF TypeOK, Follows, Rows
  <1>4. KeyCountsOnce' /\ CreditFollowsBlocks'
    <2>1. \A i, j \in counted : p[i].key = p[j].key => i = j
      BY <1>2 DEF Follows
    <2> QED BY <1>1, <2>1 DEF KeyCountsOnce, CreditFollowsBlocks
  <1>5. SupersededIsBacked'
    <2> SUFFICES ASSUME NEW i \in DOMAIN p, p[i].void \in Nat
                 PROVE  p[p[i].void].key = p[i].key /\ p[p[i].void].void = None
      BY <1>1 DEF SupersededIsBacked
    <2>1. i \in DOMAIN pay /\ p[i].void = pay[i].void
      BY Apart DEF Follows
    <2>2. /\ pay[i].void \in DOMAIN pay
          /\ pay[pay[i].void].key = pay[i].key /\ pay[pay[i].void].void = None
      BY <2>1 DEF IInv, TypeOK, SupersededIsBacked
    <2> QED BY <2>1, <2>2 DEF Follows
  <1> QED BY <1>3, <1>4, <1>5 DEF IInv

LEMMA Moved ==
    ASSUME NEW r \in Payment, r.height = None => ~r.proven, NEW h \in Heights \cup {None}
    PROVE  /\ WithHeight(r, h) \in Payment
           /\ WithHeight(r, h).key = r.key /\ WithHeight(r, h).void = r.void
           /\ WithHeight(r, h).height = None => ~WithHeight(r, h).proven
  <1> DEFINE moved == [r EXCEPT !.height = h]
             new == [moved EXCEPT !.proven = FALSE]
  <1>1. moved \in Payment /\ moved.key = r.key /\ moved.void = r.void
    BY SMT DEF Payment
  <1>2. new \in Payment /\ new.key = r.key /\ new.void = r.void /\ ~new.proven
    <2> HIDE DEF moved
    <2> QED BY <1>1, Reproven
  <1>3. CASE r.height = h
    BY <1>3 DEF WithHeight
  <1>4. CASE r.height # h
    <2>1. WithHeight(r, h) = new
      BY <1>4 DEF WithHeight
    <2> HIDE DEF new
    <2> QED BY <1>2, <2>1
  <1> QED BY <1>3, <1>4

\* One payment's row rewritten.
LEMMA OneRow ==
    ASSUME IInv, NEW i \in DOMAIN pay, NEW r \in Payment, r.key = pay[i].key,
           r.height = None => ~r.proven, r.void \in {pay[i].void, None, Spent},
           NEW p, p = [pay EXCEPT ![i] = r]
    PROVE  /\ Rows(p) /\ DOMAIN p = DOMAIN pay /\ Len(p) <= MaxPayments
           /\ \A j \in DOMAIN pay : p[j] = IF j = i THEN r ELSE pay[j]
           /\ r.void \in {pay[i].void, None} => Follows(p)
  <1>1. Rows(pay) /\ Len(pay) <= MaxPayments /\ pay \in Seq(Payment)
    BY TypesAreRows DEF IInv, Rows
  <1>2. /\ p \in Seq(Payment) /\ DOMAIN p = DOMAIN pay /\ Len(p) = Len(pay)
        /\ \A j \in DOMAIN pay : p[j] = IF j = i THEN r ELSE pay[j]
    <2>1. DOMAIN pay = 1..Len(pay) /\ Len(pay) \in Nat /\ \A j \in DOMAIN pay : pay[j] \in Payment
      BY <1>1, RowTypes
    <2>2. DOMAIN p = DOMAIN pay /\ \A j \in DOMAIN pay : p[j] = IF j = i THEN r ELSE pay[j]
      OBVIOUS
    <2>3. p = [j \in 1..Len(pay) |-> p[j]]
      BY <2>1
    <2>4. p \in [1..Len(pay) -> Payment]
      BY <2>1, <2>2, <2>3
    <2>5. p \in Seq(Payment) /\ Len(p) = Len(pay)
      BY <2>1, <2>4, SMT
    <2> QED BY <2>2, <2>5
  <1>3. ASSUME NEW j \in DOMAIN p
        PROVE  /\ p[j].void \in Nat => p[j].void \in DOMAIN p \ {j}
               /\ p[j].height = None => ~p[j].proven
    BY <1>1, <1>2, Apart DEF Rows
  <1>4. Rows(p)
    BY <1>2, <1>3 DEF Rows
  <1>5. r.void \in {pay[i].void, None} => Follows(p)
    BY <1>1, <1>2, <1>4 DEF Follows
  <1> QED BY <1>1, <1>2, <1>4, <1>5

LEMMA RecordStep ==
    ASSUME IInv, NEW k \in Keys, NEW h \in Heights \cup {None}, Record(k, h)
    PROVE  \E p : Follows(p) /\ Changed(p)
  <1> DEFINE new == [key |-> k, height |-> h, void |-> None, proven |-> FALSE]
             p == Append(pay, new)
  <1>1. Rows(pay) /\ pay \in Seq(Payment)
    BY TypesAreRows DEF IInv, Rows
  <1>2. new \in Payment /\ new.void = None /\ ~new.proven
    BY DEF Payment
  <1>3. /\ p \in Seq(Payment) /\ Len(p) = Len(pay) + 1
        /\ DOMAIN pay = 1..Len(pay) /\ DOMAIN p = 1 .. Len(pay) + 1
        /\ \A i \in 1..Len(pay) : p[i] = pay[i]
        /\ p[Len(pay) + 1] = new
    <2> HIDE DEF new
    <2> QED BY <1>1, <1>2, SMT
  <1>4. Len(p) <= MaxPayments /\ Changed(p)
    <2>1. Len(pay) < MaxPayments /\ Len(pay) \in Nat /\ Len(p) = Len(pay) + 1
      BY <1>1, <1>3 DEF Record
    <2>2. Len(p) <= MaxPayments
      <3> HIDE DEF p
      <3> QED BY <2>1, ConflictsAssumption, SMT
    <2> QED BY <2>2 DEF Record
  <1> HIDE DEF p
  <1>5. DOMAIN pay \subseteq DOMAIN p /\ DOMAIN p \ DOMAIN pay = {Len(pay) + 1}
    <2>1. Len(pay) \in Nat
      BY <1>1
    <2> QED BY <1>3, <2>1, SMT
  <1>6. ASSUME NEW i \in DOMAIN p
        PROVE  /\ p[i].void \in Nat => p[i].void \in DOMAIN p \ {i}
               /\ p[i].height = None => ~p[i].proven
    <2>1. CASE i \in DOMAIN pay
      BY <1>1, <1>3, <1>5, <2>1 DEF Rows
    <2>2. CASE i = Len(pay) + 1
      BY <1>2, <1>3, <2>2, Apart
    <2> QED BY <1>5, <2>1, <2>2
  <1>7. Rows(p)
    BY <1>3, <1>6 DEF Rows
  <1>8. \A i \in DOMAIN pay : p[i].key = pay[i].key /\ p[i].void = pay[i].void
    BY <1>3
  <1>9. \A i \in DOMAIN p \ DOMAIN pay : p[i].void = None
    BY <1>2, <1>3, <1>5
  <1>10. Follows(p)
    BY <1>4, <1>5, <1>7, <1>8, <1>9 DEF Follows
  <1> QED BY <1>4, <1>10

LEMMA MoveStep ==
    ASSUME IInv, NEW i \in DOMAIN pay, NEW h \in Heights \cup {None},
           Move(i, h) \/ Restore(i, h) \/ Prove(i)
    PROVE  \E p : Follows(p) /\ Changed(p)
  <1>1. pay[i] \in Payment /\ (pay[i].height = None => ~pay[i].proven)
    BY TypesAreRows, RowTypes DEF IInv, Rows
  <1> DEFINE moved == WithHeight(pay[i], h)
  <1>2. moved \in Payment /\ moved.key = pay[i].key /\ moved.void = pay[i].void
        /\ (moved.height = None => ~moved.proven)
    BY <1>1, Moved
  <1> HIDE DEF moved
  <1>3. CASE Move(i, h)
    <2>1. Changed([pay EXCEPT ![i] = moved])
      BY <1>3 DEF Move, moved
    <2> QED BY <1>2, <2>1, OneRow
  <1>4. CASE Restore(i, h)
    <2> DEFINE r == [moved EXCEPT !.void = None]
    <2>1. r \in Payment /\ r.key = pay[i].key /\ r.void = None /\ (r.height = None => ~r.proven)
      BY <1>2, Revoided
    <2>2. Changed([pay EXCEPT ![i] = r])
      BY <1>4 DEF Restore, Unvoided, moved
    <2> HIDE DEF r
    <2> QED BY <2>1, <2>2, OneRow
  <1>5. CASE Prove(i)
    <2> DEFINE r == [pay[i] EXCEPT !.proven = ~pay[i].proven]
    <2>1. pay[i].height # None /\ Changed([pay EXCEPT ![i] = r])
      BY <1>5 DEF Prove
    <2>2. r \in Payment /\ r.key = pay[i].key /\ r.void = pay[i].void /\ r.height = pay[i].height
      <3> DEFINE v == ~pay[i].proven
      <3>1. v \in BOOLEAN
        BY Zenon
      <3> HIDE DEF v
      <3>2. LET new == [pay[i] EXCEPT !.proven = v]
            IN  /\ new \in Payment /\ new.key = pay[i].key /\ new.void = pay[i].void
                /\ new.height = pay[i].height /\ new.proven = v
        BY <1>1, <3>1, Reproven
      <3> QED BY <3>2 DEF v
    <2> HIDE DEF r
    <2> QED BY <2>1, <2>2, OneRow
  <1> QED BY <1>3, <1>4, <1>5

\* A void or a recheck settles what the payments are then.
LEMMA VoidStep ==
    ASSUME IInv, NEW i \in DOMAIN pay, Void(i)
    PROVE  \E p : Rows(p) /\ Len(p) <= MaxPayments /\ RecomputeOf(p)
  <1>1. pay[i] \in Payment /\ (pay[i].height = None => ~pay[i].proven)
    BY TypesAreRows, RowTypes DEF IInv, Rows
  <1>2. CASE Shares(i)
    BY <1>2, TypesAreRows DEF IInv, Void
  <1>3. CASE ~Shares(i)
    <2> DEFINE moved == WithHeight(pay[i], None)
               r == [moved EXCEPT !.void = Spent]
    <2>1. moved \in Payment /\ moved.key = pay[i].key /\ (moved.height = None => ~moved.proven)
      BY <1>1, Moved
    <2>2. r \in Payment /\ r.key = pay[i].key /\ r.void = Spent /\ (r.height = None => ~r.proven)
      <3> HIDE DEF moved
      <3> QED BY <2>1, Revoided
    <2>3. RecomputeOf([pay EXCEPT ![i] = r])
      BY <1>3 DEF Void
    <2> HIDE DEF r
    <2> DEFINE p == [pay EXCEPT ![i] = r]
    <2>4. Rows(p) /\ Len(p) <= MaxPayments
      BY <2>2, OneRow
    <2> QED BY <2>3, <2>4
  <1> QED BY <1>2, <1>3

LEMMA RecheckStep ==
    ASSUME IInv, NEW i \in DOMAIN pay, NEW h \in Heights \cup {None}, Recheck(i, h)
    PROVE  \E p : Rows(p) /\ Len(p) <= MaxPayments /\ RecomputeOf(p)
  <1>1. pay[i] \in Payment /\ (pay[i].height = None => ~pay[i].proven)
    BY TypesAreRows, RowTypes DEF IInv, Rows
  <1> DEFINE moved == WithHeight(pay[i], h)
             r == [moved EXCEPT !.void = None]
  <1>2. moved \in Payment /\ moved.key = pay[i].key /\ (moved.height = None => ~moved.proven)
    BY <1>1, Moved
  <1>3. r \in Payment /\ r.key = pay[i].key /\ r.void = None /\ (r.height = None => ~r.proven)
    <2> HIDE DEF moved
    <2> QED BY <1>2, Revoided
  <1>4. RecomputeOf([pay EXCEPT ![i] = r])
    BY DEF Recheck, Unvoided
  <1> HIDE DEF r
  <1> DEFINE p == [pay EXCEPT ![i] = r]
  <1>5. Rows(p) /\ Len(p) <= MaxPayments
    BY <1>3, OneRow
  <1> QED BY <1>4, <1>5

\* A step changes the payments, or settles them.
LEMMA StepOrSettle ==
    ASSUME IInv, Next
    PROVE  \/ \E p : Follows(p) /\ Changed(p)
           \/ \E p : Rows(p) /\ Len(p) <= MaxPayments /\ RecomputeOf(p)
  <1>1. CASE \E k \in Keys, h \in Heights \cup {None} : Record(k, h)
    BY <1>1, RecordStep
  <1>2. CASE \E i \in DOMAIN pay : \E h \in Heights \cup {None} : Move(i, h) \/ Restore(i, h)
    BY <1>2, MoveStep
  <1>3. CASE \E i \in DOMAIN pay : Prove(i)
    BY <1>3, MoveStep
  <1>4. CASE \E i \in DOMAIN pay : \E h \in Heights \cup {None} : Recheck(i, h)
    BY <1>4, RecheckStep
  <1>5. CASE \E i \in DOMAIN pay : Void(i)
    BY <1>5, VoidStep
  <1>6. CASE Recompute
    <2>1. Rows(pay) /\ Len(pay) <= MaxPayments /\ RecomputeOf(pay)
      BY <1>6, TypesAreRows DEF IInv, Recompute
    <2> QED BY <2>1
  <1> QED BY <1>1, <1>2, <1>3, <1>4, <1>5, <1>6 DEF Next

-----------------------------------------------------------------------------
(* The theorems. *)

\* Whatever is found, moved, voided and restored, every state is right
\* (settle_output_key_conflicts).
THEOREM ConflictsInvariant == Spec => []IInv
  <1>1. Init => IInv
    <2> SUFFICES ASSUME Init PROVE IInv
      OBVIOUS
    <2>1. pay = <<>> /\ DOMAIN pay = {} /\ Len(pay) = 0 /\ pay \in Seq(Payment)
      BY SMT DEF Init
    <2>2. Len(pay) <= MaxPayments
      BY <2>1, ConflictsAssumption, SMT
    <2> QED BY <2>1, <2>2
            DEF Init, IInv, TypeOK, KeyCountsOnce, CreditFollowsBlocks, SupersededIsBacked
  <1>2. IInv /\ [Next]_vars => IInv'
    <2>1. CASE IInv /\ Next
      BY <2>1, StepOrSettle, ChangedStep, RecomputeMakesRight
    <2>2. CASE IInv /\ UNCHANGED vars
      BY <2>2 DEF vars, IInv, TypeOK, KeyCountsOnce, CreditFollowsBlocks, SupersededIsBacked,
                  Live, InBlock, Earlier
    <2> QED BY <2>1, <2>2
  <1> QED BY <1>1, <1>2, PTL DEF Spec

\* A payment superseded names another payment of the order, and the payments
\* counted are its payments.
THEOREM ConflictsTypes == Spec => []TypeOK
  <1>1. IInv => TypeOK BY DEF IInv
  <1> QED BY <1>1, ConflictsInvariant, PTL

\* An order never counts a key's money twice, and leaves none of it out that is
\* no double spend (recompute_order_status).
THEOREM MoneyCountsOnce == Spec => []KeyCountsOnce
  <1>1. IInv => KeyCountsOnce BY DEF IInv
  <1> QED BY <1>1, ConflictsInvariant, PTL

\* The earliest payment in a block is credited; while there is none, the order
\* can't settle (settle_output_key_conflicts).
THEOREM BlocksDecide == Spec => []CreditFollowsBlocks
  <1>1. IInv => CreditFollowsBlocks BY DEF IInv
  <1> QED BY <1>1, ConflictsInvariant, PTL

\* What a payment is superseded for stands itself (supersede).
THEOREM WinnersStand == Spec => []SupersededIsBacked
  <1>1. IInv => SupersededIsBacked BY DEF IInv
  <1> QED BY <1>1, ConflictsInvariant, PTL
=============================================================================
