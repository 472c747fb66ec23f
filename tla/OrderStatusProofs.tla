--------------------------- MODULE OrderStatusProofs ---------------------------
(***************************************************************************)
(* What the status rules give whatever the payments, the price and the     *)
(* confirmations required: the lemmas on sums, on the order the payments   *)
(* are counted in and on Plan hold of any views, and the theorems are the  *)
(* invariants of MCOrderStatus for every payment history.                  *)
(***************************************************************************)
EXTENDS MCOrderStatus, TLAPS, FiniteSetTheorems, NaturalsInduction, WellFoundedInduction

-----------------------------------------------------------------------------
(* Smallest sets: what an induction over a finite set comes to. *)

LEMMA LeastNat ==
    ASSUME NEW T, T \subseteq Nat, T # {}
    PROVE  \E x \in T : \A y \in T : x <= y
<1>1. PICK x \in T : \A y \in T : <<y, x>> \notin OpToRel(<, Nat)
  BY WFMin, NatLessThanWellFounded, Zenon
<1>2. \A y \in T : ~(y < x)
  BY <1>1, Zenon DEF OpToRel
<1> QED
  BY <1>2, SMT

\* Of the subsets of a finite set that have a property, one has no proper
\* subset that has it.
LEMMA SmallestSet ==
    ASSUME NEW S, IsFiniteSet(S), NEW Having, Having \subseteq SUBSET S, Having # {}
    PROVE  \E T \in Having : /\ IsFiniteSet(T)
                             /\ \A U \in SUBSET T : U # T => U \notin Having
<1> DEFINE sizes == {Cardinality(T) : T \in Having}
<1>1. \A T \in SUBSET S : IsFiniteSet(T) /\ Cardinality(T) \in Nat
  BY FS_Subset, FS_CardinalityType
<1>2. sizes \subseteq Nat /\ sizes # {}
  BY <1>1
<1>3. PICK n \in sizes : \A m \in sizes : n <= m
  <2> HIDE DEF sizes
  <2> QED BY <1>2, LeastNat
<1>4. PICK T \in Having : Cardinality(T) = n
  BY <1>3
<1>5. ASSUME NEW U \in SUBSET T, U # T, U \in Having
      PROVE  FALSE
  <2>1. Cardinality(U) < Cardinality(T)
    BY <1>1, <1>4, <1>5, FS_Subset, FS_CardinalityType
  <2>2. n <= Cardinality(U)
    BY <1>3, <1>5
  <2> QED
    BY <1>1, <1>2, <1>4, <1>5, <2>1, <2>2
<1> QED
  BY <1>1, <1>4, <1>5

-----------------------------------------------------------------------------
(* The sum of a function on a finite set. *)

Some(s) == CHOOSE x \in s : TRUE
Summed(f, g, s) == IF s = {} THEN 0 ELSE f[Some(s)] + g[s \ {Some(s)}]

\* g gives what f adds up to on every subset of S.
IsSum(f, g, S) == g = [s \in SUBSET S |-> Summed(f, g, s)]

LEMMA SomeOne == \A s : s # {} => Some(s) \in s
BY DEF Some

LEMMA SumChosen ==
    ASSUME NEW f, NEW S
    PROVE  SumFunctionOnSet(f, S) = (CHOOSE g : IsSum(f, g, S))[S]
BY DEF SumFunctionOnSet, FoldFunctionOnSet, MapThenFoldSet, IsSum, Summed, Some

LEMMA SumUnique ==
    ASSUME NEW f, NEW S, IsFiniteSet(S), NEW T \in SUBSET S, NEW g, NEW h,
           IsSum(f, g, S), IsSum(f, h, T)
    PROVE  g[T] = h[T]
<1> DEFINE Differ == {s \in SUBSET T : g[s] # h[s]}
<1>1. SUFFICES ASSUME Differ # {}
               PROVE  FALSE
  OBVIOUS
<1>2. IsFiniteSet(T)
  BY FS_Subset
<1>3. PICK s \in Differ : \A u \in SUBSET s : u # s => u \notin Differ
  <2>1. Differ \subseteq SUBSET T
    OBVIOUS
  <2> HIDE DEF Differ
  <2> QED BY <1>1, <1>2, <2>1, SmallestSet
<1>4. g[s] = Summed(f, g, s) /\ h[s] = Summed(f, h, s)
  <2>1. s \in SUBSET S /\ s \in SUBSET T
    OBVIOUS
  <2>2. \A u \in SUBSET S : g[u] = Summed(f, g, u)
    BY DEF IsSum
  <2>3. \A u \in SUBSET T : h[u] = Summed(f, h, u)
    BY DEF IsSum
  <2> QED
    BY <2>1, <2>2, <2>3
<1>5. CASE s = {}
  BY <1>3, <1>4, <1>5 DEF Summed
<1>6. CASE s # {}
  <2>1. Some(s) \in s
    BY <1>6, SomeOne
  <2>2. s \ {Some(s)} \in SUBSET T /\ s \ {Some(s)} # s
    BY <2>1
  <2>3. g[s \ {Some(s)}] = h[s \ {Some(s)}]
    BY <1>3, <2>2
  <2> QED
    BY <1>3, <1>4, <1>6, <2>3 DEF Summed
<1> QED
  BY <1>5, <1>6

LEMMA SumExists ==
    ASSUME NEW f, NEW S, IsFiniteSet(S)
    PROVE  \E g : IsSum(f, g, S)
<1> DEFINE Without == {T \in SUBSET S : ~\E g : IsSum(f, g, T)}
<1>1. SUFFICES ASSUME Without # {}
               PROVE  FALSE
  OBVIOUS
<1>2. PICK T \in Without : IsFiniteSet(T) /\ \A U \in SUBSET T : U # T => U \notin Without
  <2>1. Without \subseteq SUBSET S
    OBVIOUS
  <2> HIDE DEF Without
  <2> QED BY <1>1, <2>1, SmallestSet
<1> DEFINE val(s) == SumFunctionOnSet(f, s)
           G == [s \in SUBSET T |-> IF s = T /\ T # {} THEN f[Some(T)] + val(T \ {Some(T)})
                                    ELSE IF s = {} THEN 0 ELSE val(s)]
<1>3. ASSUME NEW s \in SUBSET T, s # T, s # {}
      PROVE  val(s) = f[Some(s)] + (IF s \ {Some(s)} = {} THEN 0 ELSE val(s \ {Some(s)}))
  <2> DEFINE g == CHOOSE g : IsSum(f, g, s)
             u == s \ {Some(s)}
             h == CHOOSE h : IsSum(f, h, u)
  <2>1. IsFiniteSet(s) /\ u \in SUBSET T /\ u # T /\ u \in SUBSET s
    BY <1>2, <1>3, FS_Subset
  <2>2. (\E k : IsSum(f, k, s)) /\ (\E k : IsSum(f, k, u))
    BY <1>2, <1>3, <2>1
  <2>3. IsSum(f, g, s) /\ IsSum(f, h, u)
    BY <2>2
  <2>4. val(s) = g[s] /\ val(u) = h[u]
    BY SumChosen
  <2>5. g[s] = Summed(f, g, s) /\ h[u] = Summed(f, h, u)
    <3> HIDE DEF g, h, u
    <3>1. \A v \in SUBSET s : g[v] = Summed(f, g, v)
      BY <2>3 DEF IsSum
    <3>2. \A v \in SUBSET u : h[v] = Summed(f, h, v)
      BY <2>3 DEF IsSum
    <3> QED
      BY <3>1, <3>2
  <2>6. g[u] = h[u]
    <3> HIDE DEF g, h, u
    <3> QED BY <2>1, <2>3, SumUnique
  <2>7. u = {} => h[u] = 0
    BY <2>5 DEF Summed
  <2>8. val(s) = f[Some(s)] + g[u]
    BY <1>3, <2>4, <2>5 DEF Summed
  <2> QED
    BY <2>4, <2>6, <2>7, <2>8
<1>4. IsSum(f, G, T)
  <2> SUFFICES ASSUME NEW s \in SUBSET T
               PROVE  G[s] = Summed(f, G, s)
    <3>1. ASSUME \A s \in SUBSET T : G[s] = Summed(f, G, s)
          PROVE  G = [s \in SUBSET T |-> Summed(f, G, s)]
      <4>1. G = [s \in SUBSET T |-> G[s]]
        OBVIOUS
      <4> HIDE DEF G
      <4> QED BY <3>1, <4>1
    <3> QED BY <3>1 DEF IsSum
  <2>1. CASE s = {}
    BY <2>1 DEF Summed
  <2>2. CASE s # {}
    <3> DEFINE u == s \ {Some(s)}
    <3>1. u \in SUBSET T /\ u # s /\ (s # T => u # T) /\ u # T
      BY <2>2, SomeOne
    <3>2. G[u] = IF u = {} THEN 0 ELSE val(u)
      BY <3>1
    <3>3. CASE s = T
      <4>1. G[s] = f[Some(T)] + val(T \ {Some(T)})
        BY <2>2, <3>3
      <4>2. u = {} => val(u) = 0
        <5>1. ASSUME u = {}
              PROVE  val(u) = 0
          <6> DEFINE h == CHOOSE h : IsSum(f, h, u)
          <6>1. IsSum(f, h, u)
            BY <1>2, <3>1
          <6>2. val(u) = h[u]
            BY SumChosen
          <6>3. h[u] = Summed(f, h, u)
            <7> HIDE DEF h, u
            <7> QED BY <6>1 DEF IsSum
          <6> QED BY <5>1, <6>2, <6>3 DEF Summed
        <5> QED BY <5>1
      <4>3. val(u) = G[u]
        BY <3>2, <4>2
      <4> QED BY <2>2, <3>3, <4>1, <4>3 DEF Summed
    <3>4. CASE s # T
      <4>1. G[s] = val(s)
        BY <2>2, <3>4
      <4> QED BY <1>3, <2>2, <3>2, <3>4, <4>1 DEF Summed
    <3> QED BY <3>3, <3>4
  <2> QED BY <2>1, <2>2
<1>5. \E g : IsSum(f, g, T)
  <2> HIDE DEF G
  <2> QED BY <1>4
<1> QED
  BY <1>2, <1>5

\* The equation a sum is defined by has a solution, which is the sum.
LEMMA SumOf ==
    ASSUME NEW f, NEW S, IsFiniteSet(S)
    PROVE  SumFunctionOnSet(f, S) =
              IF S = {} THEN 0 ELSE f[Some(S)] + SumFunctionOnSet(f, S \ {Some(S)})
<1> DEFINE u == S \ {Some(S)}
           g == CHOOSE g : IsSum(f, g, S)
           h == CHOOSE h : IsSum(f, h, u)
<1>1. IsFiniteSet(u) /\ u \in SUBSET S
  BY FS_Subset
<1>2. IsSum(f, g, S) /\ IsSum(f, h, u)
  BY <1>1, SumExists
<1>3. SumFunctionOnSet(f, S) = g[S] /\ SumFunctionOnSet(f, u) = h[u]
  BY SumChosen
<1>4. g[S] = Summed(f, g, S) /\ g[u] = h[u]
  <2> HIDE DEF g, h, u
  <2>1. \A v \in SUBSET S : g[v] = Summed(f, g, v)
    BY <1>2 DEF IsSum
  <2> QED
    BY <1>1, <1>2, <2>1, SumUnique
<1> QED
  BY <1>3, <1>4 DEF Summed

LEMMA SumOfNone ==
    ASSUME NEW f
    PROVE  SumFunctionOnSet(f, {}) = 0
BY SumOf, FS_EmptySet

LEMMA SumNat ==
    ASSUME NEW f, NEW S, IsFiniteSet(S), \A x \in S : f[x] \in Nat
    PROVE  SumFunctionOnSet(f, S) \in Nat
<1> DEFINE Other == {T \in SUBSET S : SumFunctionOnSet(f, T) \notin Nat}
<1>1. SUFFICES ASSUME Other # {}
               PROVE  FALSE
  OBVIOUS
<1>2. PICK T \in Other : IsFiniteSet(T) /\ \A U \in SUBSET T : U # T => U \notin Other
  <2>1. Other \subseteq SUBSET S
    OBVIOUS
  <2> HIDE DEF Other
  <2> QED BY <1>1, <2>1, SmallestSet
<1>3. T # {}
  <2>1. SumFunctionOnSet(f, T) \notin Nat
    BY <1>2
  <2> QED BY <2>1, SumOfNone, SMT
<1>4. Some(T) \in T
  BY <1>3, SomeOne
<1>5. SumFunctionOnSet(f, T \ {Some(T)}) \in Nat
  BY <1>2, <1>4
<1>6. SumFunctionOnSet(f, T) = f[Some(T)] + SumFunctionOnSet(f, T \ {Some(T)})
  BY <1>2, <1>3, SumOf
<1>7. SumFunctionOnSet(f, T) \in Nat
  <2>1. f[Some(T)] \in Nat
    BY <1>4
  <2> QED BY <1>5, <1>6, <2>1
<1> QED
  BY <1>2, <1>7

\* The elements may be taken in any order.
LEMMA SumWith ==
    ASSUME NEW f, NEW S, IsFiniteSet(S), \A x \in S : f[x] \in Nat, NEW y \in S
    PROVE  SumFunctionOnSet(f, S) = f[y] + SumFunctionOnSet(f, S \ {y})
<1> DEFINE sum(T) == SumFunctionOnSet(f, T)
           Other == {T \in SUBSET S : \E x \in T : sum(T) # f[x] + sum(T \ {x})}
<1>1. SUFFICES ASSUME Other # {}
               PROVE  FALSE
  OBVIOUS
<1>2. PICK T \in Other : IsFiniteSet(T) /\ \A U \in SUBSET T : U # T => U \notin Other
  <2>1. Other \subseteq SUBSET S
    OBVIOUS
  <2> HIDE DEF Other
  <2> QED BY <1>1, <2>1, SmallestSet
<1>3. PICK x \in T : sum(T) # f[x] + sum(T \ {x})
  BY <1>2
<1> DEFINE z == Some(T)
<1>4. z \in T /\ sum(T) = f[z] + sum(T \ {z})
  BY <1>2, <1>3, SumOf, SomeOne
<1>5. x # z
  BY <1>3, <1>4
<1>6. sum(T \ {z}) = f[x] + sum((T \ {z}) \ {x})
  BY <1>2, <1>3, <1>4, <1>5
<1>7. sum(T \ {x}) = f[z] + sum((T \ {x}) \ {z})
  BY <1>2, <1>3, <1>4, <1>5
<1>8. (T \ {z}) \ {x} = (T \ {x}) \ {z}
  OBVIOUS
<1>9. f[x] \in Nat /\ f[z] \in Nat /\ sum((T \ {z}) \ {x}) \in Nat
  <2>1. IsFiniteSet((T \ {z}) \ {x})
    BY <1>2, FS_Subset
  <2> QED BY <1>2, <1>4, <2>1, SumNat
<1> HIDE DEF sum, z
<1> QED
  BY <1>3, <1>4, <1>6, <1>7, <1>8, <1>9

LEMMA SumMonotone ==
    ASSUME NEW f, NEW S, IsFiniteSet(S), \A x \in S : f[x] \in Nat, NEW T \in SUBSET S
    PROVE  SumFunctionOnSet(f, T) <= SumFunctionOnSet(f, S)
<1> DEFINE sum(U) == SumFunctionOnSet(f, U)
           Lower == {U \in SUBSET S : T \subseteq U /\ ~(sum(T) <= sum(U))}
<1>1. SUFFICES ASSUME Lower # {}
               PROVE  FALSE
  OBVIOUS
<1>2. PICK U \in Lower : IsFiniteSet(U) /\ \A W \in SUBSET U : W # U => W \notin Lower
  <2>1. Lower \subseteq SUBSET S
    OBVIOUS
  <2> HIDE DEF Lower
  <2> QED BY <1>1, <2>1, SmallestSet
<1>3. \A W \in SUBSET U : sum(W) \in Nat
  <2> SUFFICES ASSUME NEW W \in SUBSET U
               PROVE  sum(W) \in Nat
    OBVIOUS
  <2>1. IsFiniteSet(W)
    BY <1>2, FS_Subset
  <2> QED BY <1>2, <2>1, SumNat
<1>4. U # T
  BY <1>2, <1>3
<1>5. PICK x \in U : x \notin T
  BY <1>2, <1>4
<1>6. sum(U) = f[x] + sum(U \ {x})
  BY <1>2, SumWith
<1>7. sum(T) <= sum(U \ {x})
  BY <1>2, <1>5
<1>8. sum(T) <= sum(U)
  <2>1. f[x] \in Nat /\ sum(U \ {x}) \in Nat /\ sum(T) \in Nat
    BY <1>2, <1>3
  <2> HIDE DEF sum
  <2> QED BY <1>6, <1>7, <2>1
<1> QED
  BY <1>2, <1>8

\* Only the values on the set matter.
LEMMA SumSame ==
    ASSUME NEW f, NEW g, NEW S, IsFiniteSet(S), \A x \in S : f[x] = g[x]
    PROVE  SumFunctionOnSet(f, S) = SumFunctionOnSet(g, S)
<1> DEFINE Differ == {T \in SUBSET S : SumFunctionOnSet(f, T) # SumFunctionOnSet(g, T)}
<1>1. SUFFICES ASSUME Differ # {}
               PROVE  FALSE
  OBVIOUS
<1>2. PICK T \in Differ : IsFiniteSet(T) /\ \A U \in SUBSET T : U # T => U \notin Differ
  <2>1. Differ \subseteq SUBSET S
    OBVIOUS
  <2> HIDE DEF Differ
  <2> QED BY <1>1, <2>1, SmallestSet
<1>3. T # {}
  BY <1>2, SumOfNone
<1>4. Some(T) \in T
  BY <1>3, SomeOne
<1>5. SumFunctionOnSet(f, T \ {Some(T)}) = SumFunctionOnSet(g, T \ {Some(T)})
  BY <1>2, <1>4
<1>6. f[Some(T)] = g[Some(T)]
  BY <1>2, <1>4
<1> QED
  BY <1>2, <1>3, <1>5, <1>6, SumOf

-----------------------------------------------------------------------------
(* What some payments add up to. *)

IsViews(W) ==
    /\ IsFiniteSet(DOMAIN W) /\ DOMAIN W \subseteq Nat
    /\ \A p \in DOMAIN W :
          /\ W[p].amount \in Nat /\ W[p].conf \in Nat /\ W[p].zero \in BOOLEAN
          /\ W[p].zero => W[p].conf = 0

LEMMA LeastOfTwo ==
    ASSUME NEW a \in Int, NEW b \in Int
    PROVE  Least({a, b}) = IF a <= b THEN a ELSE b
<1> DEFINE m == IF a <= b THEN a ELSE b
<1>1. m \in {a, b} /\ \A n \in {a, b} : m <= n
  OBVIOUS
<1>2. ASSUME NEW k \in {a, b}, \A n \in {a, b} : k <= n
      PROVE  k = m
  BY <1>2
<1> QED
  BY <1>1, <1>2 DEF Least

LEMMA GreatestOfTwo ==
    ASSUME NEW a \in Int, NEW b \in Int
    PROVE  Greatest({a, b}) = IF a >= b THEN a ELSE b
<1> DEFINE m == IF a >= b THEN a ELSE b
<1>1. m \in {a, b} /\ \A n \in {a, b} : m >= n
  OBVIOUS
<1>2. ASSUME NEW k \in {a, b}, \A n \in {a, b} : k >= n
      PROVE  k = m
  BY <1>2
<1> QED
  BY <1>1, <1>2 DEF Greatest

LEMMA TotalFacts ==
    ASSUME NEW W, IsViews(W), NEW P \in SUBSET DOMAIN W
    PROVE  /\ Total(W, P) \in Nat
           /\ Total(W, {}) = 0
           /\ \A T \in SUBSET P : Total(W, T) <= Total(W, P)
<1> DEFINE f == [p \in DOMAIN W |-> W[p].amount]
           sum(T) == SumFunctionOnSet(f, T)
<1>1. ASSUME NEW T \in SUBSET DOMAIN W
      PROVE  /\ sum(T) \in Nat
             /\ Total(W, T) = IF MaxPiconero <= sum(T) THEN MaxPiconero ELSE sum(T)
  <2>1. IsFiniteSet(T) /\ \A p \in T : f[p] \in Nat
    BY FS_Subset DEF IsViews
  <2>2. sum(T) \in Nat
    <3> HIDE DEF f
    <3> QED BY <2>1, SumNat
  <2> QED
    BY <2>2, LeastOfTwo, PiconeroAssumption DEF Total
<1>2. sum({}) = 0
  BY SumOfNone
<1>3. ASSUME NEW T \in SUBSET P
      PROVE  sum(T) <= sum(P)
  <2>1. IsFiniteSet(P) /\ \A p \in P : f[p] \in Nat
    BY FS_Subset DEF IsViews
  <2> HIDE DEF f
  <2> QED BY <2>1, SumMonotone
<1>4. ASSUME NEW T \in SUBSET P
      PROVE  Total(W, T) <= Total(W, P)
  <2>1. T \in SUBSET DOMAIN W
    OBVIOUS
  <2>2. sum(T) <= sum(P) /\ sum(T) \in Nat /\ sum(P) \in Nat
    BY <1>1, <1>3, <2>1
  <2>3. /\ Total(W, T) = IF MaxPiconero <= sum(T) THEN MaxPiconero ELSE sum(T)
        /\ Total(W, P) = IF MaxPiconero <= sum(P) THEN MaxPiconero ELSE sum(P)
    BY <1>1, <2>1
  <2> HIDE DEF sum
  <2> QED
    BY <2>2, <2>3, PiconeroAssumption
<1>5. Total(W, P) \in Nat /\ Total(W, {}) = 0
  <2>1. /\ Total(W, P) = IF MaxPiconero <= sum(P) THEN MaxPiconero ELSE sum(P)
        /\ Total(W, {}) = IF MaxPiconero <= sum({}) THEN MaxPiconero ELSE sum({})
    BY <1>1
  <2>2. sum(P) \in Nat
    BY <1>1
  <2> HIDE DEF sum
  <2> QED BY <1>2, <2>1, <2>2, PiconeroAssumption
<1> QED
  BY <1>4, <1>5

LEMMA TotalSame ==
    ASSUME NEW W, IsViews(W), NEW X, IsViews(X), NEW P \in SUBSET DOMAIN W,
           P \subseteq DOMAIN X, \A p \in P : X[p].amount = W[p].amount
    PROVE  Total(X, P) = Total(W, P)
<1> DEFINE f == [p \in DOMAIN W |-> W[p].amount]
           g == [p \in DOMAIN X |-> X[p].amount]
<1>1. IsFiniteSet(P) /\ \A p \in P : f[p] = g[p]
  BY FS_Subset DEF IsViews
<1>2. SumFunctionOnSet(f, P) = SumFunctionOnSet(g, P)
  <2> HIDE DEF f, g
  <2> QED BY <1>1, SumSame
<1> QED
  BY <1>2 DEF Total

-----------------------------------------------------------------------------
(* The order payments are counted in, and those that cover the price. *)

LEMMA BeforeIsOrder ==
    ASSUME NEW W, IsViews(W)
    PROVE  /\ \A p \in DOMAIN W : ~Before(W, p, p)
           /\ \A p, q \in DOMAIN W : p # q => Before(W, p, q) \/ Before(W, q, p)
           /\ \A p, q, r \in DOMAIN W : Before(W, p, q) /\ Before(W, q, r) => Before(W, p, r)
           /\ \A p, q \in DOMAIN W : W[p].conf > W[q].conf => Before(W, p, q)
           /\ \A p, q \in DOMAIN W : Before(W, p, q) => /\ ~Before(W, q, p)
                                                        /\ W[p].conf >= W[q].conf
<1>1. \A p \in DOMAIN W : p \in Nat /\ W[p].conf \in Nat /\ W[p].zero \in BOOLEAN
  BY DEF IsViews
<1> QED
  BY <1>1 DEF Before

LEMMA FirstOf ==
    ASSUME NEW W, IsViews(W), NEW R \in SUBSET DOMAIN W, R # {}
    PROVE  \E q \in R : \A p \in R : p # q => Before(W, q, p)
<1> DEFINE first(T, q) == \A p \in T : p # q => Before(W, q, p)
           Without == {T \in SUBSET R : T # {} /\ \A q \in T : ~first(T, q)}
<1>1. SUFFICES ASSUME Without # {}
               PROVE  FALSE
  OBVIOUS
<1>2. PICK T \in Without : \A U \in SUBSET T : U # T => U \notin Without
  <2>1. Without \subseteq SUBSET R /\ IsFiniteSet(R)
    BY FS_Subset DEF IsViews
  <2> HIDE DEF Without
  <2> QED BY <1>1, <2>1, SmallestSet
<1>3. PICK x \in T : TRUE
  BY <1>2
<1>4. CASE T = {x}
  BY <1>2, <1>4
<1>5. CASE T # {x}
  <2>1. PICK y \in T \ {x} : first(T \ {x}, y)
    BY <1>2, <1>3, <1>5
  <2>2. CASE Before(W, x, y)
    <3>1. first(T, x)
      BY <1>2, <1>3, <2>1, <2>2, BeforeIsOrder
    <3> QED BY <1>2, <1>3, <3>1
  <2>3. CASE ~Before(W, x, y)
    <3>1. Before(W, y, x)
      BY <1>2, <1>3, <2>1, <2>3, BeforeIsOrder
    <3>2. first(T, y)
      BY <2>1, <3>1
    <3> QED BY <1>2, <2>1, <3>2
  <2> QED BY <2>2, <2>3
<1> QED
  BY <1>4, <1>5

AtLeast(W, c) == {p \in DOMAIN W : W[p].conf >= c}

\* The covering payments are all c blocks deep exactly when those that are add
\* up to the price.
LEMMA CoveringByDepth ==
    ASSUME NEW W, IsViews(W), NEW price \in Nat \ {0}, Covered(W, price), NEW c \in Nat
    PROVE  (\A p \in Covering(W, price) : W[p].conf >= c) <=> Total(W, AtLeast(W, c)) >= price
<1> DEFINE earlier(q) == {p \in DOMAIN W : Before(W, p, q)}
           D == AtLeast(W, c)
<1>1. D \in SUBSET DOMAIN W /\ \A q \in DOMAIN W : earlier(q) \in SUBSET DOMAIN W
  BY DEF AtLeast
<1>2. ASSUME Total(W, D) >= price, NEW q \in Covering(W, price), ~(W[q].conf >= c)
      PROVE  FALSE
  <2>1. q \in DOMAIN W /\ (earlier(q) = {} \/ Total(W, earlier(q)) < price)
    BY <1>2 DEF Covering
  <2>2. D \subseteq earlier(q)
    <3> SUFFICES ASSUME NEW p \in D
                 PROVE  p \in earlier(q)
      OBVIOUS
    <3>1. p \in DOMAIN W /\ W[p].conf >= c /\ W[p].conf \in Nat /\ W[q].conf \in Nat
      BY <2>1 DEF AtLeast, IsViews
    <3>2. W[p].conf > W[q].conf
      BY <1>2, <3>1
    <3> QED BY <2>1, <3>1, <3>2, BeforeIsOrder
  <2>3. /\ Total(W, D) <= Total(W, earlier(q)) /\ Total(W, {}) = 0
        /\ Total(W, D) \in Nat /\ Total(W, earlier(q)) \in Nat
    BY <1>1, <2>1, <2>2, TotalFacts
  <2>4. earlier(q) # {}
    <3>1. SUFFICES ASSUME earlier(q) = {}
                   PROVE  FALSE
      OBVIOUS
    <3>2. Total(W, earlier(q)) = 0
      BY <2>3, <3>1
    <3> HIDE DEF earlier, D
    <3> QED BY <1>2, <2>3, <3>2
  <2> HIDE DEF earlier, D
  <2> QED BY <1>2, <2>1, <2>3, <2>4
<1>3. ASSUME ~(Total(W, D) >= price), \A p \in Covering(W, price) : W[p].conf >= c
      PROVE  FALSE
  <2> DEFINE R == DOMAIN W \ D
  <2>1. R # {}
    <3>1. ASSUME R = {}
          PROVE  FALSE
      <4>1. D = DOMAIN W
        BY <1>1, <3>1
      <4> QED BY <1>3, <4>1 DEF Covered, Received
    <3> QED BY <3>1
  <2>2. PICK q \in R : \A p \in R : p # q => Before(W, q, p)
    <3>1. R \in SUBSET DOMAIN W
      OBVIOUS
    <3> HIDE DEF R
    <3> QED BY <2>1, <3>1, FirstOf
  <2>3. earlier(q) \subseteq D
    BY <2>2, BeforeIsOrder
  <2>4. /\ Total(W, earlier(q)) <= Total(W, D)
        /\ Total(W, D) \in Nat /\ Total(W, earlier(q)) \in Nat
    BY <1>1, <2>2, <2>3, TotalFacts
  <2>5. Total(W, earlier(q)) < price
    <3> HIDE DEF earlier, D
    <3> QED BY <1>3, <2>4
  <2>6. q \in Covering(W, price)
    BY <2>2, <2>5 DEF Covering
  <2> QED BY <1>3, <2>2, <2>6 DEF AtLeast
<1> QED
  BY <1>2, <1>3

\* The first payment covers, and is mined if any is.
LEMMA CoveringFirst ==
    ASSUME NEW W, IsViews(W), NEW price \in Nat \ {0}, Covered(W, price)
    PROVE  /\ Covering(W, price) # {} /\ Covering(W, price) \subseteq DOMAIN W
           /\ (\A p \in Covering(W, price) : W[p].zero) <=> (\A p \in DOMAIN W : W[p].zero)
<1>1. Covering(W, price) \subseteq DOMAIN W
  BY DEF Covering
<1>2. DOMAIN W # {}
  <2>1. SUFFICES ASSUME DOMAIN W = {}
                 PROVE  FALSE
    OBVIOUS
  <2>2. Total(W, {}) = 0
    BY TotalFacts
  <2> QED BY <2>1, <2>2 DEF Covered, Received
<1>3. PICK q \in DOMAIN W : \A p \in DOMAIN W : p # q => Before(W, q, p)
  BY <1>2, FirstOf
<1>4. q \in Covering(W, price)
  <2>1. {p \in DOMAIN W : Before(W, p, q)} = {}
    BY <1>3, BeforeIsOrder
  <2> QED BY <2>1 DEF Covering
<1>5. ASSUME W[q].zero, NEW p \in DOMAIN W
      PROVE  W[p].zero
  <2>1. W[q].conf = 0 /\ W[p].conf \in Nat /\ W[p].zero \in BOOLEAN /\ W[q].zero \in BOOLEAN
    BY <1>5 DEF IsViews
  <2>2. p # q => Before(W, q, p)
    BY <1>3
  <2>3. SUFFICES ASSUME ~W[p].zero
                 PROVE  FALSE
    OBVIOUS
  <2>4. p # q
    BY <1>5, <2>3
  <2>5. ~(W[q].conf > W[p].conf)
    BY <2>1
  <2>6. W[q].zero = W[p].zero
    BY <1>5, <2>2, <2>4, <2>5, Zenon DEF Before
  <2> QED BY <1>5, <2>3, <2>6
<1> QED
  BY <1>1, <1>4, <1>5

LEMMA LeastConfirmedIs ==
    ASSUME NEW W, IsViews(W), NEW P \in SUBSET DOMAIN W, P # {}
    PROVE  /\ LeastConfirmed(W, P) \in Nat
           /\ \A p \in P : LeastConfirmed(W, P) <= W[p].conf
           /\ \E p \in P : LeastConfirmed(W, P) = W[p].conf
<1> DEFINE confs == {W[p].conf : p \in P}
<1>1. confs \subseteq Nat /\ confs # {}
  BY DEF IsViews
<1>2. \E m \in confs : \A n \in confs : m <= n
  <2> HIDE DEF confs
  <2> QED BY <1>1, LeastNat
<1>3. Least(confs) \in confs /\ \A n \in confs : Least(confs) <= n
  <2> HIDE DEF confs
  <2> QED BY <1>2 DEF Least
<1>4. LeastConfirmed(W, P) = Least(confs)
  BY DEF LeastConfirmed
<1> QED
  BY <1>1, <1>3, <1>4

LEMMA LeastCovering ==
    ASSUME NEW W, IsViews(W), NEW price \in Nat \ {0}, Covered(W, price), NEW c \in Nat
    PROVE  LeastConfirmed(W, Covering(W, price)) >= c <=> Total(W, AtLeast(W, c)) >= price
<1> DEFINE C == Covering(W, price)
           m == LeastConfirmed(W, C)
<1>1. /\ C \in SUBSET DOMAIN W /\ C # {} /\ \A p \in C : W[p].conf \in Nat
      /\ (\A p \in C : W[p].conf >= c) <=> Total(W, AtLeast(W, c)) >= price
  BY CoveringByDepth, CoveringFirst DEF IsViews
<1>2. m \in Nat /\ (\A p \in C : m <= W[p].conf) /\ \E p \in C : m = W[p].conf
  <2> HIDE DEF C
  <2> QED BY <1>1, LeastConfirmedIs
<1>3. m >= c <=> \A p \in C : W[p].conf >= c
  <2> HIDE DEF C, m
  <2> QED BY <1>1, <1>2
<1> QED
  BY <1>1, <1>3

-----------------------------------------------------------------------------
(* The status and the confirmations, by depth. *)

LEMMA AllAtLeastNone ==
    ASSUME NEW W, IsViews(W)
    PROVE  AtLeast(W, 0) = DOMAIN W /\ Total(W, AtLeast(W, 0)) = Received(W)
<1>1. AtLeast(W, 0) = DOMAIN W
  BY DEF AtLeast, IsViews
<1> QED
  BY <1>1 DEF Received

\* Derive, without the order the payments are counted in.
ByDepth(W, o, at) ==
    CASE Total(W, AtLeast(W, o.required)) >= o.amount ->
            IF Received(W) > o.amount THEN "overpaid" ELSE "paid"
      [] Total(W, AtLeast(W, o.required)) < o.amount /\ Received(W) >= o.amount ->
            IF \E p \in DOMAIN W : ~W[p].zero THEN "confirming" ELSE "unconfirmed"
      [] OTHER ->
            IF at > o.expires THEN "expired" ELSE IF Received(W) = 0 THEN "pending" ELSE "partial"

LEMMA DeriveByDepth ==
    ASSUME NEW W, IsViews(W), NEW o, o.amount \in Nat \ {0}, o.required \in Nat, NEW at
    PROVE  Derive(W, o, at) = ByDepth(W, o, at)
<1> DEFINE deep == Total(W, AtLeast(W, o.required))
<1>1. deep \in Nat /\ Received(W) \in Nat /\ deep <= Received(W)
  <2>1. AtLeast(W, o.required) \in SUBSET DOMAIN W
    BY DEF AtLeast
  <2> QED BY <2>1, TotalFacts DEF Received
<1>2. CASE ~Covered(W, o.amount)
  <2>1. ~(deep >= o.amount) /\ ~(Received(W) >= o.amount)
    <3>1. ~(Received(W) >= o.amount)
      BY <1>2 DEF Covered
    <3> HIDE DEF deep
    <3> QED BY <1>1, <3>1
  <2> QED BY <1>2, <2>1 DEF Derive, ByDepth
<1>3. CASE Covered(W, o.amount)
  <2> DEFINE C == Covering(W, o.amount)
  <2>1. LeastConfirmed(W, C) >= o.required <=> deep >= o.amount
    BY <1>3, LeastCovering
  <2>2. C # {} /\ ((\A p \in C : W[p].zero) <=> (\A p \in DOMAIN W : W[p].zero))
    BY <1>3, CoveringFirst
  <2>3. Received(W) >= o.amount
    BY <1>3 DEF Covered
  <2>4. deep < o.amount <=> ~(deep >= o.amount)
    <3> HIDE DEF deep
    <3> QED BY <1>1
  <2>5. Derive(W, o, at) =
           IF deep >= o.amount THEN IF Received(W) > o.amount THEN "overpaid" ELSE "paid"
           ELSE IF \A p \in DOMAIN W : W[p].zero THEN "unconfirmed" ELSE "confirming"
    <3> HIDE DEF C, deep
    <3>1. Derive(W, o, at) =
             IF LeastConfirmed(W, C) >= o.required
             THEN IF Received(W) > o.amount THEN "overpaid" ELSE "paid"
             ELSE IF C # {} /\ \A p \in C : W[p].zero THEN "unconfirmed" ELSE "confirming"
      BY <1>3 DEF Derive, C
    <3> QED BY <2>1, <2>2, <3>1
  <2>6. ByDepth(W, o, at) =
           IF deep >= o.amount THEN IF Received(W) > o.amount THEN "overpaid" ELSE "paid"
           ELSE IF \E p \in DOMAIN W : ~W[p].zero THEN "confirming" ELSE "unconfirmed"
    BY <2>3, <2>4 DEF ByDepth
  <2> QED BY <2>5, <2>6
<1> QED
  BY <1>2, <1>3

\* A covered order shows the greatest depth its payments still cover the price at.
LEMMA ShownByDepth ==
    ASSUME NEW W, IsViews(W), NEW price \in Nat \ {0}, Covered(W, price)
    PROVE  LET shown == Confirmations(W, price)
           IN  /\ shown \in Nat
               /\ \A c \in Nat : shown >= c <=> Total(W, AtLeast(W, c)) >= price
<1>1. Confirmations(W, price) = LeastConfirmed(W, Covering(W, price))
  BY DEF Confirmations
<1>2. LeastConfirmed(W, Covering(W, price)) \in Nat
  BY CoveringFirst, LeastConfirmedIs
<1> QED
  BY <1>1, <1>2, LeastCovering

\* More payments, or deeper ones, add up to no less at any depth.
LEMMA DeeperCovers ==
    ASSUME NEW W, IsViews(W), NEW X, IsViews(X), DOMAIN W \subseteq DOMAIN X,
           \A p \in DOMAIN W : X[p].amount = W[p].amount /\ X[p].conf >= W[p].conf,
           NEW c \in Nat
    PROVE  /\ Total(X, AtLeast(X, c)) \in Nat /\ Total(W, AtLeast(W, c)) \in Nat
           /\ Total(X, AtLeast(X, c)) >= Total(W, AtLeast(W, c))
           /\ Received(X) \in Nat /\ Received(W) \in Nat /\ Received(X) >= Received(W)
<1>1. /\ AtLeast(W, c) \in SUBSET DOMAIN W /\ AtLeast(X, c) \in SUBSET DOMAIN X
      /\ AtLeast(W, c) \subseteq AtLeast(X, c)
  BY DEF AtLeast, IsViews
<1>2. Total(X, AtLeast(W, c)) = Total(W, AtLeast(W, c)) /\ Total(X, DOMAIN W) = Total(W, DOMAIN W)
  BY <1>1, TotalSame
<1>3. Total(X, AtLeast(W, c)) <= Total(X, AtLeast(X, c)) /\ Total(X, DOMAIN W) <= Total(X, DOMAIN X)
  BY <1>1, TotalFacts
<1>4. /\ Total(X, AtLeast(X, c)) \in Nat /\ Total(W, AtLeast(W, c)) \in Nat
      /\ Total(X, DOMAIN X) \in Nat /\ Total(W, DOMAIN W) \in Nat
  BY <1>1, TotalFacts
<1> QED
  BY <1>2, <1>3, <1>4 DEF Received

-----------------------------------------------------------------------------
(* What a recompute schedules. *)

HasTerms(o) ==
    /\ o.amount \in Nat \ {0} /\ o.required \in Nat /\ o.expires \in Int
    /\ o.cancelled \in BOOLEAN

\* X are the payments W once the tip has risen.
Deepened(W, X) ==
    /\ DOMAIN X = DOMAIN W
    /\ \A p \in DOMAIN W :
          /\ X[p].amount = W[p].amount /\ X[p].zero = W[p].zero
          /\ X[p].conf >= W[p].conf

LEMMA DeepenedIs ==
    ASSUME NEW W, IsViews(W), NEW X, IsViews(X), Deepened(W, X), NEW o, HasTerms(o)
    PROVE  /\ Received(X) = Received(W) /\ Received(W) \in Nat
           /\ (\A p \in DOMAIN X : X[p].zero) <=> (\A p \in DOMAIN W : W[p].zero)
           /\ Total(W, AtLeast(W, o.required)) >= o.amount
              => Total(X, AtLeast(X, o.required)) >= o.amount
           /\ ~Maturing(W, o) => Total(X, AtLeast(X, o.required)) = Total(W, AtLeast(W, o.required))
           /\ Total(W, AtLeast(W, o.required)) \in Nat
<1>1. Received(X) = Received(W) /\ Received(W) \in Nat
  BY TotalSame, TotalFacts DEF Deepened, Received
<1>2. (\A p \in DOMAIN X : X[p].zero) <=> (\A p \in DOMAIN W : W[p].zero)
  BY DEF Deepened
<1>3. /\ Total(X, AtLeast(X, o.required)) \in Nat /\ Total(W, AtLeast(W, o.required)) \in Nat
      /\ Total(X, AtLeast(X, o.required)) >= Total(W, AtLeast(W, o.required))
  <2>1. DOMAIN W \subseteq DOMAIN X /\ o.required \in Nat
    BY DEF Deepened, HasTerms
  <2> QED BY <2>1, DeeperCovers DEF Deepened
<1>4. Total(W, AtLeast(W, o.required)) >= o.amount => Total(X, AtLeast(X, o.required)) >= o.amount
  BY <1>3 DEF HasTerms
<1>5. ASSUME ~Maturing(W, o)
      PROVE  Total(X, AtLeast(X, o.required)) = Total(W, AtLeast(W, o.required))
  <2>1. AtLeast(X, o.required) = AtLeast(W, o.required)
    <3>1. ASSUME NEW p \in DOMAIN W
          PROVE  X[p].conf >= o.required <=> W[p].conf >= o.required
      <4>1. /\ W[p].conf \in Nat /\ X[p].conf \in Nat /\ o.required \in Nat
            /\ X[p].conf >= W[p].conf /\ X[p].zero = W[p].zero
        BY DEF IsViews, Deepened, HasTerms
      <4>2. CASE W[p].zero
        <5>1. W[p].conf = 0 /\ X[p].conf = 0
          BY <4>1, <4>2 DEF IsViews, Deepened
        <5> QED BY <5>1
      <4>3. CASE ~W[p].zero
        <5>1. ~(W[p].conf < o.required)
          BY <1>5, <4>3 DEF Maturing
        <5> QED BY <4>1, <5>1
      <4> QED BY <4>2, <4>3
    <3> QED BY <3>1 DEF AtLeast, Deepened
  <2>2. AtLeast(W, o.required) \in SUBSET DOMAIN W
    BY DEF AtLeast
  <2> QED BY <2>1, <2>2, TotalSame DEF Deepened
<1> QED
  BY <1>1, <1>2, <1>3, <1>4, <1>5

\* Until the time and the height a recompute schedules the order for, another
\* one writes the same status.
LEMMA PlanStays ==
    ASSUME NEW W, IsViews(W), NEW X, IsViews(X), Deepened(W, X),
           NEW o, HasTerms(o), NEW facts, facts.now \in Nat, facts.height \in Nat,
           NEW u, HasTerms(u), u.amount = o.amount, u.required = o.required,
           u.expires = o.expires, u.cancelled = o.cancelled,
           u.status = Plan(W, o, facts).status,
           NEW later, later.now \in Nat, later.height \in Nat,
           later.now >= facts.now, Maturing(W, o) => later.height >= facts.height,
           later.height = facts.height => X = W,
           later.conflicted = facts.conflicted,
           LET plan == Plan(W, o, facts)
           IN  /\ plan.dueAt = None \/ later.now < plan.dueAt
               /\ plan.dueHeight = None \/ later.height < plan.dueHeight
    PROVE  Plan(X, u, later).status = u.status
<1> DEFINE plan == Plan(W, o, facts)
           wanted == Wanted(W, o, facts.now)
           wantedX == Wanted(X, u, later.now)
           held == ExpiryHeld(wanted, o, facts) \/ SettlementDeferred(wanted, o, facts)
           final == ~held /\ wanted \in Terminal
<1>1. ~held
  <2>1. ASSUME held
        PROVE  FALSE
    <3>1. plan.dueAt = facts.now
      BY <2>1 DEF Plan, Retry
    <3>2. facts.now # None /\ ~(later.now < facts.now)
      BY PiconeroAssumption
    <3> QED BY <3>1, <3>2
  <2> QED BY <2>1
<1>2. /\ plan.status = wanted
      /\ plan.dueAt = IF wanted \in Terminal \/ Covered(W, o.amount) THEN None
                      ELSE AfterDeadline(o, facts.now)
      /\ plan.dueHeight = IF wanted \notin Terminal /\ Maturing(W, o) THEN facts.height + 1 ELSE None
  BY <1>1 DEF Plan
<1>3. /\ Derive(W, o, facts.now) = ByDepth(W, o, facts.now)
      /\ Derive(X, u, later.now) = ByDepth(X, u, later.now)
  BY DeriveByDepth DEF HasTerms
<1> DEFINE deepW == Total(W, AtLeast(W, o.required))
           deepX == Total(X, AtLeast(X, o.required))
<1>4. /\ Received(X) = Received(W) /\ Received(W) \in Nat /\ deepW \in Nat
      /\ (\A p \in DOMAIN X : X[p].zero) <=> (\A p \in DOMAIN W : W[p].zero)
      /\ deepW >= o.amount => deepX >= o.amount
      /\ ~Maturing(W, o) => deepX = deepW
  BY DeepenedIs
<1>5. Covered(W, o.amount) <=> Covered(X, o.amount)
  BY <1>4 DEF Covered
<1>6. Covered(W, o.amount) <=> Received(W) >= o.amount
  BY DEF Covered
<1> DEFINE maturing == IF \E p \in DOMAIN W : ~W[p].zero THEN "confirming" ELSE "unconfirmed"
           settled == IF Received(W) > o.amount THEN "overpaid" ELSE "paid"
           short(at) == IF at > o.expires THEN "expired"
                          ELSE IF Received(W) = 0 THEN "pending" ELSE "partial"
<1>7. CASE Covered(W, o.amount)
  <2>1. /\ Derive(W, o, facts.now) = IF deepW >= o.amount THEN settled ELSE maturing
        /\ Derive(X, u, later.now) = IF deepX >= o.amount THEN settled ELSE maturing
    <3>1. Covered(X, u.amount)
      BY <1>5, <1>7
    <3>2. /\ deepW \in Nat /\ deepX \in Nat /\ Received(X) = Received(W)
      <4>1. AtLeast(X, o.required) \in SUBSET DOMAIN X
        BY DEF AtLeast
      <4> QED BY <1>4, <4>1, TotalFacts
    <3>3. /\ deepW < o.amount <=> ~(deepW >= o.amount)
          /\ deepX < o.amount <=> ~(deepX >= o.amount)
      <4> HIDE DEF deepW, deepX
      <4> QED BY <3>2 DEF HasTerms
    <3>4. Received(W) >= o.amount /\ Received(X) >= o.amount
      BY <1>4, <1>6, <1>7
    <3>5. (\E p \in DOMAIN X : ~X[p].zero) <=> (\E p \in DOMAIN W : ~W[p].zero)
      BY <1>4
    <3>6. ByDepth(W, o, facts.now) = IF deepW >= o.amount THEN settled ELSE maturing
      BY <3>3, <3>4 DEF ByDepth
    <3>7. ByDepth(X, u, later.now) = IF deepX >= o.amount THEN settled ELSE maturing
      BY <3>2, <3>3, <3>4, <3>5 DEF ByDepth
    <3> QED BY <1>3, <3>6, <3>7
  <2>2. wanted = Derive(W, o, facts.now) /\ wantedX = Derive(X, u, later.now)
    BY <2>1 DEF Wanted
  <2>3. CASE deepW >= o.amount
    <3>1. wanted = settled /\ wantedX = settled /\ settled \in Settlement
      BY <1>4, <2>1, <2>2, <2>3 DEF Settlement
    <3>2. u.status \in Settlement /\ u.status = settled
      BY <1>2, <3>1
    <3>3. ~facts.conflicted
      BY <1>1, <3>1 DEF SettlementDeferred
    <3>4. ~ExpiryHeld(wantedX, u, later) /\ ~SettlementDeferred(wantedX, u, later)
      BY <3>1, <3>2, <3>3 DEF ExpiryHeld, SettlementDeferred, Settlement
    <3> QED BY <3>1, <3>2, <3>4 DEF Plan
  <2>4. CASE ~(deepW >= o.amount)
    <3>1. wanted = maturing /\ wanted \notin Terminal
      BY <2>1, <2>2, <2>4 DEF Terminal, Settlement
    <3>2. deepX = deepW
      <4>1. CASE Maturing(W, o)
        <5>1. plan.dueHeight = facts.height + 1 /\ facts.height + 1 # None
          BY <1>2, <3>1, <4>1, PiconeroAssumption
        <5>2. later.height = facts.height
          <6>1. later.height < facts.height + 1 /\ later.height >= facts.height
            BY <4>1, <5>1
          <6> QED BY <6>1
        <5> QED BY <5>2
      <4>2. CASE ~Maturing(W, o)
        BY <1>4, <4>2
      <4> QED BY <4>1, <4>2
    <3>3. wantedX = maturing
      BY <2>1, <2>2, <2>4, <3>2
    <3>4. ~ExpiryHeld(wantedX, u, later) /\ ~SettlementDeferred(wantedX, u, later)
      BY <3>3 DEF ExpiryHeld, SettlementDeferred, Settlement
    <3> QED BY <1>2, <3>1, <3>3, <3>4 DEF Plan
  <2> QED BY <2>3, <2>4
<1>8. CASE ~Covered(W, o.amount)
  <2>1. Derive(W, o, facts.now) = short(facts.now) /\ Derive(X, u, later.now) = short(later.now)
    BY <1>4, <1>5, <1>8 DEF Derive
  <2>2. \A at : short(at) \in {"pending", "partial", "expired"}
    OBVIOUS
  <2>3. /\ wanted = IF o.cancelled THEN "cancelled" ELSE short(facts.now)
        /\ wantedX = IF o.cancelled THEN "cancelled" ELSE short(later.now)
    BY <2>1, <2>2 DEF Wanted
  <2>4. ~SettlementDeferred(wantedX, u, later)
    BY <2>2, <2>3 DEF SettlementDeferred, Settlement
  <2>5. CASE o.cancelled
    BY <1>2, <2>3, <2>4, <2>5 DEF Plan, ExpiryHeld
  <2>6. CASE ~o.cancelled /\ facts.now > o.expires
    <3>1. later.now > o.expires
      BY <2>6 DEF HasTerms
    <3>2. u.status = "expired" /\ wantedX = "expired"
      BY <1>2, <2>3, <2>6, <3>1
    <3> QED BY <2>4, <3>2 DEF Plan, ExpiryHeld
  <2>7. CASE ~o.cancelled /\ ~(facts.now > o.expires)
    <3>1. wanted = short(facts.now) /\ wanted \in {"pending", "partial"}
      BY <2>3, <2>7
    <3>2. plan.dueAt = AfterDeadline(o, facts.now)
      BY <1>2, <1>8, <3>1 DEF Terminal, Settlement
    <3>3. AfterDeadline(o, facts.now) = o.expires + 1 /\ o.expires + 1 # None
      BY <2>7, GreatestOfTwo, PiconeroAssumption DEF AfterDeadline, HasTerms
    <3>4. ~(later.now > o.expires)
      BY <3>2, <3>3 DEF HasTerms
    <3>5. wantedX = wanted
      BY <2>3, <2>7, <3>4
    <3> QED BY <1>2, <2>4, <3>1, <3>5 DEF Plan, ExpiryHeld
  <2> QED BY <2>5, <2>6, <2>7
<1> QED
  BY <1>7, <1>8

-----------------------------------------------------------------------------
(* The payment histories. *)

HistoryTypes ==
    /\ asked \in [amount : Prices, required : Depths, expires : {Expiry}, cancelled : BOOLEAN]
    /\ amount \in [Ids -> Amounts]
    /\ place \in [Ids -> Places]
    /\ top \in 1..MaxTop /\ time \in 0..MaxTime

LEMMA HistoryTyped == HistorySpec => []HistoryTypes
<1>1. HistoryInit => HistoryTypes
  BY HistoryAssumption DEF HistoryInit, HistoryTypes, Places
<1>2. HistoryTypes /\ [HistoryNext]_historyVars => HistoryTypes'
  <2> SUFFICES ASSUME HistoryTypes, [HistoryNext]_historyVars
               PROVE  HistoryTypes'
    OBVIOUS
  <2>1. ASSUME NEW p \in Ids, NEW h \in Places, Place(p, h)
        PROVE  HistoryTypes'
    BY <2>1 DEF HistoryTypes, Place
  <2>2. ASSUME NEW t \in 1..MaxTop, NewTop(t)
        PROVE  HistoryTypes'
    BY <2>2 DEF HistoryTypes, NewTop
  <2>3. CASE TimePasses
    BY <2>3, HistoryAssumption DEF HistoryTypes, TimePasses
  <2>4. CASE UNCHANGED historyVars
    BY <2>4 DEF HistoryTypes, historyVars
  <2> QED
    BY <2>1, <2>2, <2>3, <2>4 DEF HistoryNext
<1> QED
  BY <1>1, <1>2, PTL DEF HistorySpec

LEMMA ViewsAreViews ==
    ASSUME HistoryTypes, NEW t \in Nat
    PROVE  IsViews(ViewsAt(t))
<1>1. DOMAIN ViewsAt(t) \subseteq Ids /\ IsFiniteSet(DOMAIN ViewsAt(t)) /\ DOMAIN ViewsAt(t) \subseteq Nat
  <2>1. DOMAIN ViewsAt(t) \in SUBSET Ids
    BY DEF ViewsAt
  <2> QED BY <2>1, HistoryAssumption, FS_Subset
<1>2. ASSUME NEW p \in DOMAIN ViewsAt(t)
      PROVE  /\ ViewsAt(t)[p].amount \in Nat /\ ViewsAt(t)[p].conf \in Nat
             /\ ViewsAt(t)[p].zero \in BOOLEAN /\ (ViewsAt(t)[p].zero => ViewsAt(t)[p].conf = 0)
  <2>1. /\ p \in Ids /\ place[p] # Absent /\ place[p] \in Places /\ amount[p] \in Nat
        /\ ViewsAt(t)[p] = [amount |-> amount[p],
                          conf |-> IF place[p] = None \/ place[p] > t THEN 0 ELSE t - place[p] + 1,
                          zero |-> place[p] = None]
    BY <1>2, HistoryAssumption DEF ViewsAt, HistoryTypes
  <2>2. place[p] # None => place[p] \in Nat
    BY <2>1 DEF Places
  <2>3. (IF place[p] = None \/ place[p] > t THEN 0 ELSE t - place[p] + 1) \in Nat
    BY <2>2
  <2>4. /\ ViewsAt(t)[p].amount = amount[p] /\ ViewsAt(t)[p].zero = (place[p] = None)
        /\ ViewsAt(t)[p].conf = IF place[p] = None \/ place[p] > t THEN 0 ELSE t - place[p] + 1
    BY <2>1
  <2>5. ViewsAt(t)[p].zero => ViewsAt(t)[p].conf = 0
    BY <2>4
  <2> QED BY <2>1, <2>3, <2>4, <2>5
<1> QED
  BY <1>1, <1>2 DEF IsViews

LEMMA HistoryViews == HistoryTypes => IsViews(Seen)
<1> SUFFICES ASSUME HistoryTypes
             PROVE  IsViews(Seen)
  OBVIOUS
<1>1. top \in Nat
  BY HistoryAssumption DEF HistoryTypes
<1> QED
  BY <1>1, ViewsAreViews DEF Seen

LEMMA HistoryNow ==
    ASSUME HistoryTypes
    PROVE  /\ IsViews(Seen) /\ HasTerms(asked)
           /\ \A c : Deep(c) = Total(Seen, AtLeast(Seen, c))
           /\ Deep(0) = Received(Seen)
<1>1. IsViews(Seen)
  BY HistoryViews
<1>2. HasTerms(asked)
  <2>1. /\ asked.amount \in Prices /\ asked.required \in Depths /\ asked.expires = Expiry
        /\ asked.cancelled \in BOOLEAN
    BY DEF HistoryTypes
  <2>2. Prices \subseteq Nat \ {0} /\ Depths \subseteq Nat /\ Expiry \in Nat
    BY HistoryAssumption
  <2>3. asked.amount \in Nat \ {0} /\ asked.required \in Nat
    BY <2>1, <2>2
  <2>4. asked.expires \in Int
    BY <2>1, <2>2
  <2> QED BY <2>1, <2>3, <2>4 DEF HasTerms
<1>3. \A c : Deep(c) = Total(Seen, AtLeast(Seen, c))
  BY DEF Deep, AtLeast
<1> QED
  BY <1>1, <1>2, <1>3, AllAtLeastNone

\* The status is decided by how deep the payments are, not by how the store
\* lists them.
THEOREM StatusFollowsDepth == HistorySpec => []StatusByDepth
<1>1. HistoryTypes => StatusByDepth
  <2> SUFFICES ASSUME HistoryTypes
               PROVE  StatusByDepth
    OBVIOUS
  <2>1. Derive(Seen, asked, time) = ByDepth(Seen, asked, time)
    BY HistoryNow, DeriveByDepth DEF HasTerms
  <2>2. Deep(0) = Received(Seen) /\ Deep(asked.required) = Total(Seen, AtLeast(Seen, asked.required))
    BY HistoryNow
  <2> HIDE DEF Seen, Deep
  <2> QED BY <2>1, <2>2 DEF StatusByDepth, ByDepth
<1> QED
  BY <1>1, HistoryTyped, PTL

\* A covered order shows the greatest depth at which its payments cover the price.
THEOREM ConfirmationsFollowDepth == HistorySpec => []ConfirmationsByDepth
<1>1. HistoryTypes => ConfirmationsByDepth
  <2> SUFFICES ASSUME HistoryTypes, Deep(0) >= asked.amount
               PROVE  LET shown == Confirmations(Seen, asked.amount)
                      IN  Deep(shown) >= asked.amount /\ Deep(shown + 1) < asked.amount
    BY DEF ConfirmationsByDepth
  <2> DEFINE shown == Confirmations(Seen, asked.amount)
  <2>1. /\ IsViews(Seen) /\ asked.amount \in Nat \ {0} /\ Covered(Seen, asked.amount)
    BY HistoryNow DEF Covered, HasTerms
  <2>2. shown \in Nat /\ \A c \in Nat : shown >= c <=> Total(Seen, AtLeast(Seen, c)) >= asked.amount
    BY <2>1, ShownByDepth
  <2>3. \A c : Deep(c) = Total(Seen, AtLeast(Seen, c)) /\ (Deep(c) \in Nat)
    <3>1. \A c : AtLeast(Seen, c) \in SUBSET DOMAIN Seen
      BY DEF AtLeast
    <3> QED BY <2>1, <3>1, HistoryNow, TotalFacts
  <2>4. shown + 1 \in Nat /\ shown >= shown /\ ~(shown >= shown + 1)
    BY <2>2
  <2>5. Deep(shown) >= asked.amount
    BY <2>2, <2>3, <2>4
  <2>6. ~(Deep(shown + 1) >= asked.amount)
    BY <2>2, <2>3, <2>4
  <2>7. Deep(shown + 1) < asked.amount
    BY <2>1, <2>3, <2>6
  <2> QED BY <2>5, <2>7
<1> QED
  BY <1>1, HistoryTyped, PTL

\* A payment that comes later neither walks a settled order back nor lowers
\* what a covered one shows.
THEOREM LaterPaymentsAreHarmless == HistorySpec => LaterPaymentHarmless
<1> DEFINE Harmless ==
       (\E p \in Ids : place[p] = Absent /\ place'[p] # Absent) =>
         /\ Derive(Seen, asked, time) \in Settlement => Derive(Seen', asked, time) \in Settlement
         /\ Covered(Seen, asked.amount) =>
               Covered(Seen', asked.amount) /\ Confirmations(Seen', asked.amount) >= Confirmations(Seen, asked.amount)
<1>1. HistoryTypes /\ HistoryTypes' /\ [HistoryNext]_historyVars => [Harmless]_historyVars
  <2> SUFFICES ASSUME HistoryTypes, HistoryTypes', [HistoryNext]_historyVars,
                      NEW q \in Ids, place[q] = Absent, place'[q] # Absent
               PROVE  /\ Derive(Seen, asked, time) \in Settlement => Derive(Seen', asked, time) \in Settlement
                      /\ Covered(Seen, asked.amount) =>
                            /\ Covered(Seen', asked.amount)
                            /\ Confirmations(Seen', asked.amount) >= Confirmations(Seen, asked.amount)
    OBVIOUS
  <2>1. PICK p \in Ids, h \in Places : Place(p, h)
    BY DEF HistoryNext, NewTop, TimePasses, historyVars
  <2>2. /\ asked' = asked /\ top' = top /\ time' = time /\ amount' = amount
        /\ place' = [place EXCEPT ![p] = h] /\ p = q
    BY <2>1 DEF Place, HistoryTypes
  <2> DEFINE W == Seen
             X == Seen'
  <2>3. IsViews(W) /\ IsViews(X) /\ HasTerms(asked)
    <3>1. (HistoryTypes => IsViews(Seen))'
      BY HistoryViews, PTL
    <3> QED BY <3>1, HistoryNow
  <2>4. DOMAIN W \subseteq DOMAIN X /\ \A r \in DOMAIN W : X[r] = W[r]
    <3>1. \A r \in Ids : r # p => place'[r] = place[r]
      BY <2>2 DEF HistoryTypes
    <3> QED BY <2>2, <3>1 DEF Seen, ViewsAt
  <2> HIDE DEF W, X
  <2>5. \A r \in DOMAIN W : X[r].amount = W[r].amount /\ X[r].conf >= W[r].conf
    BY <2>3, <2>4 DEF IsViews
  <2>6. ASSUME NEW c \in Nat
        PROVE  /\ Total(X, AtLeast(X, c)) \in Nat /\ Total(W, AtLeast(W, c)) \in Nat
               /\ Total(X, AtLeast(X, c)) >= Total(W, AtLeast(W, c))
               /\ Received(X) \in Nat /\ Received(W) \in Nat /\ Received(X) >= Received(W)
    BY <2>3, <2>4, <2>5, DeeperCovers
  <2>7. /\ Derive(W, asked, time) = ByDepth(W, asked, time)
        /\ Derive(X, asked, time) = ByDepth(X, asked, time)
    BY <2>3, DeriveByDepth DEF HasTerms
  <2>8. asked.amount \in Nat \ {0} /\ asked.required \in Nat
    BY <2>3 DEF HasTerms
  <2>9. ASSUME NEW Y, IsViews(Y)
        PROVE  ByDepth(Y, asked, time) \in Settlement <=> Total(Y, AtLeast(Y, asked.required)) >= asked.amount
    <3>1. /\ Total(Y, AtLeast(Y, asked.required)) < asked.amount
             <=> ~(Total(Y, AtLeast(Y, asked.required)) >= asked.amount)
      <4>1. AtLeast(Y, asked.required) \in SUBSET DOMAIN Y
        BY DEF AtLeast
      <4> QED BY <2>8, <2>9, <4>1, TotalFacts
    <3> QED BY <3>1 DEF ByDepth, Settlement
  <2>10. Derive(W, asked, time) \in Settlement => Derive(X, asked, time) \in Settlement
    <3> DEFINE deepW == Total(W, AtLeast(W, asked.required))
               deepX == Total(X, AtLeast(X, asked.required))
    <3>1. deepW \in Nat /\ deepX \in Nat /\ deepX >= deepW
      BY <2>6, <2>8
    <3>2. deepW >= asked.amount => deepX >= asked.amount
      <4> HIDE DEF deepW, deepX
      <4> QED BY <2>8, <3>1
    <3> QED BY <2>3, <2>7, <2>9, <3>2
  <2>11. ASSUME Covered(W, asked.amount)
         PROVE  /\ Covered(X, asked.amount)
                /\ Confirmations(X, asked.amount) >= Confirmations(W, asked.amount)
    <3>1. Covered(X, asked.amount)
      BY <2>6, <2>8, <2>11 DEF Covered
    <3> DEFINE shown == Confirmations(W, asked.amount)
    <3>2. shown \in Nat /\ Total(W, AtLeast(W, shown)) >= asked.amount
      BY <2>3, <2>8, <2>11, ShownByDepth
    <3>3. Total(X, AtLeast(X, shown)) >= asked.amount
      BY <2>6, <2>8, <3>2
    <3> HIDE DEF shown
    <3>4. Confirmations(X, asked.amount) >= shown
      BY <2>3, <2>8, <3>1, <3>2, <3>3, ShownByDepth
    <3> QED BY <3>1, <3>4 DEF shown
  <2> QED BY <2>10, <2>11 DEF W, X
<1> QED
  BY <1>1, HistoryTyped, PTL DEF HistorySpec, LaterPaymentHarmless

\* An order that is neither due nor held back has the status another recompute
\* would write.
THEOREM ScheduleIsEnough == HistorySpec => []ScheduleCovers
<1>1. HistoryTypes => ScheduleCovers
  <2> SUFFICES ASSUME HistoryTypes, NEW c \in BOOLEAN, NEW plan \in Plans(c),
                      NEW h \in top..MaxTop, NEW n \in time..MaxTime,
                      plan.dueAt = None \/ n < plan.dueAt,
                      plan.dueHeight = None \/ h < plan.dueHeight,
                      NEW l \in BOOLEAN, NEW k \in Holds
               PROVE  Plan(ViewsAt(h), OrderWas(plan.status), FactsAt(h, n, l, c, k)).status = plan.status
    BY DEF ScheduleCovers
  <2>1. PICK old \in {"pending", "paid", "expired"}, lagging \in BOOLEAN, hold \in Holds :
           plan = Plan(Seen, OrderWas(old), FactsAt(top, time, lagging, c, hold))
    BY DEF Plans
  <2> DEFINE o == OrderWas(old)
             u == OrderWas(plan.status)
             facts == FactsAt(top, time, lagging, c, hold)
             later == FactsAt(h, n, l, c, k)
             X == ViewsAt(h)
  <2>2. top \in Nat /\ time \in Nat /\ h \in Nat /\ n \in Nat /\ h >= top /\ n >= time
    BY HistoryAssumption DEF HistoryTypes
  <2>3. IsViews(Seen) /\ IsViews(X) /\ HasTerms(o) /\ HasTerms(u)
    BY <2>2, HistoryNow, ViewsAreViews DEF HasTerms, OrderWas
  <2>4. Deepened(Seen, X) /\ (h = top => X = Seen)
    <3>1. DOMAIN X = DOMAIN Seen /\ (h = top => X = Seen)
      BY DEF Seen, ViewsAt
    <3>2. ASSUME NEW p \in DOMAIN Seen
          PROVE  /\ X[p].amount = Seen[p].amount /\ X[p].zero = Seen[p].zero
                 /\ X[p].conf >= Seen[p].conf
      <4>1. p \in Ids /\ place[p] # Absent /\ place[p] \in Places
        BY <3>2 DEF Seen, ViewsAt, HistoryTypes
      <4>2. place[p] # None => place[p] \in Nat
        BY <4>1 DEF Places
      <4> QED BY <2>2, <3>2, <4>1, <4>2 DEF Seen, ViewsAt
    <3> QED BY <3>1, <3>2 DEF Deepened
  <2>5. /\ facts.now = time /\ facts.height = top /\ later.now = n /\ later.height = h
        /\ later.conflicted = facts.conflicted
        /\ u.amount = o.amount /\ u.required = o.required
        /\ u.expires = o.expires /\ u.cancelled = o.cancelled /\ u.status = plan.status
    BY DEF FactsAt, OrderWas
  <2> HIDE DEF o, u, facts, later, X
  <2>6. Plan(X, u, later).status = u.status
    BY <2>1, <2>2, <2>3, <2>4, <2>5, PlanStays DEF o, facts
  <2> QED BY <2>5, <2>6 DEF u, X, later
<1> QED
  BY <1>1, HistoryTyped, PTL
=============================================================================
