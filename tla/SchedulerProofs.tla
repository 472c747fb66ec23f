--------------------------- MODULE SchedulerProofs ---------------------------
(***************************************************************************)
(* What a round gives each tier, for every number of tiers, budget, share  *)
(* and length of a unit.                                                   *)
(***************************************************************************)
EXTENDS Scheduler, TLAPS, NaturalsInduction, WellFoundedInduction

\* A slot that is behind doesn't run any more: its tier had its unit, and
\* either it has no more work or its time is over.
Behind(s) ==
    /\ TierOf(s) \in ran
    /\ s > N => TierOf(s) \notin backlogged \/ clock >= Budget

Shape ==
    /\ clock \in Nat /\ opened \in 0..MaxOpening /\ slot \in 1..Ended
    /\ until \in 0..Budget \cup {None}
    /\ slot > N /\ until # None => until = Budget
    /\ pending \in BOOLEAN
    /\ ran \subseteq Tiers /\ backlogged \subseteq Tiers

IInv ==
    /\ Shape
    /\ pending => slot # Ended
    /\ \A t \in Tiers : t \notin backlogged => t \in ran
    /\ \A s \in Slots : s < slot => Behind(s)
    /\ PriorityKept

LEMMA SlotFacts ==
    /\ Ended \in Int /\ N \in Int
    /\ \A s \in Slots : s \in Int /\ TierOf(s) \in Tiers /\ s < Ended
    /\ \A t \in Tiers : /\ t \in Int /\ t \in Slots /\ TierOf(t) = t
                        /\ t + N \in Slots /\ t + N > N /\ TierOf(t + N) = t
    /\ \A s \in Slots : s > N => /\ TierOf(s) + N = s
                                 /\ \A t \in Tiers : t < TierOf(s) => t + N < s
BY SchedulerAssumption DEF Slots, Tiers, TierOf, Ended

\* A slot of the second pass lasts till the end of the budget.
LEMMA SecondPassUntil ==
    ASSUME Shape, NEW s \in Slots, s > N, NEW c
    PROVE  UntilOf(s, c) = Budget
BY SchedulerAssumption DEF UntilOf, Entered, Shape, Slots

\* A slot that doesn't run is behind.
LEMMA Skipped ==
    ASSUME IInv, NEW s \in Slots, ~Runs(s, clock)
    PROVE  Behind(s)
<1>1. TierOf(s) \in ran
  BY SlotFacts DEF IInv, Runs
<1>2. ASSUME s > N, TierOf(s) \in backlogged
      PROVE  clock >= Budget
  <2>1. ~(clock < UntilOf(s, clock))
    BY <1>1, <1>2 DEF Runs
  <2>2. UntilOf(s, clock) = Budget /\ clock \in Int /\ Budget \in Int
    BY <1>2, SecondPassUntil, SchedulerAssumption DEF IInv, Shape
  <2> QED
    BY <2>1, <2>2
<1> QED
  BY <1>1, <1>2 DEF Behind

LEMMA RequestPreserves ==
    ASSUME IInv, Request
    PROVE  IInv'
<1>1. PICK next \in slot..Ended :
         /\ slot' = next /\ (pending' <=> next # Ended) /\ pending' \in BOOLEAN
         /\ \A r \in slot..next - 1 : ~Runs(r, clock)
         /\ next # Ended => Runs(next, clock)
         /\ next # Ended => until' = UntilOf(next, clock)
         /\ next = Ended => until' = None
  <2>1. CASE \E s \in slot..2 * N :
             /\ Runs(s, clock)
             /\ \A r \in slot..s - 1 : ~Runs(r, clock)
             /\ slot' = s /\ until' = UntilOf(s, clock) /\ pending' = TRUE
    BY <2>1, SchedulerAssumption DEF Ended, IInv, Shape
  <2>2. CASE /\ \A s \in slot..2 * N : ~Runs(s, clock)
             /\ slot' = Ended /\ until' = None /\ pending' = FALSE
    <3>1. /\ Ended \in slot..Ended /\ slot' = Ended
          /\ pending' = FALSE /\ until' = None
      BY <2>2, SchedulerAssumption DEF Ended, IInv, Shape
    <3>2. \A r \in slot..Ended - 1 : ~Runs(r, clock)
      BY <2>2, SchedulerAssumption DEF Ended, IInv, Shape
    <3> QED
      BY <3>1, <3>2
  <2> QED
    BY <2>1, <2>2 DEF Request
<1>2. UNCHANGED <<clock, opened, ran, backlogged>>
  BY DEF Request
<1>3. next \in 1..Ended /\ next \in Int /\ slot \in Int
  BY SchedulerAssumption DEF Ended, IInv, Shape
<1>4. \A s \in Slots : s < next => Behind(s)
  <2> SUFFICES ASSUME NEW s \in Slots, s < next PROVE Behind(s)
    OBVIOUS
  <2>1. CASE s < slot
    BY <2>1 DEF IInv
  <2>2. CASE s >= slot
    <3>1. s \in slot..next - 1
      BY <1>3, <2>2, SlotFacts
    <3> QED
      BY <1>1, <3>1, Skipped
  <2> QED
    BY <1>3, <2>1, <2>2, SlotFacts
<1>5. (\A s \in Slots : s < slot => Behind(s))'
  BY <1>1, <1>2, <1>4 DEF Behind
<1>6. until' \in 0..Budget \cup {None} /\ (slot' > N /\ until' # None => until' = Budget)
  <2>1. CASE next = Ended
    BY <1>1, <2>1
  <2>2. CASE next # Ended
    <3>1. next \in Slots
      BY <1>3, <2>2, SchedulerAssumption DEF Ended, Slots
    <3>2. UntilOf(next, clock) \in 0..Budget
      BY <3>1, SlotFacts, SchedulerAssumption DEF UntilOf, Entered, IInv, Shape
    <3>3. next > N => UntilOf(next, clock) = Budget
      BY <3>1, SecondPassUntil DEF IInv
    <3> QED
      BY <1>1, <2>2, <3>2, <3>3
  <2> QED
    BY <2>1, <2>2
<1>7. Shape'
  BY <1>1, <1>2, <1>3, <1>6 DEF IInv, Shape
<1>8. PriorityKept'
  <2> SUFFICES ASSUME next > N, next # Ended, NEW t \in Tiers, t < TierOf(next)
               PROVE  t \notin backlogged
    BY <1>1, <1>2 DEF PriorityKept
  <2>1. next \in Slots
    BY <1>3, SchedulerAssumption DEF Ended, Slots
  <2>2. Behind(t + N) /\ TierOf(t + N) = t /\ t + N > N
    BY <1>4, <2>1, SlotFacts
  <2>3. TierOf(next) \in ran
    <3>1. TierOf(next) \in Slots /\ TierOf(next) < next /\ TierOf(TierOf(next)) = TierOf(next)
      BY <2>1, SlotFacts, SchedulerAssumption DEF TierOf, Slots, Tiers
    <3> QED
      BY <1>4, <3>1 DEF Behind
  <2>4. clock < Budget
    BY <1>1, <2>1, <2>3, SecondPassUntil DEF Runs, IInv
  <2>5. ~(clock >= Budget)
    BY <2>4, SchedulerAssumption DEF IInv, Shape
  <2> QED
    BY <2>2, <2>5 DEF Behind
<1> QED
  BY <1>1, <1>2, <1>5, <1>7, <1>8 DEF IInv

LEMMA CompletePreserves ==
    ASSUME IInv, NEW time \in 0..MaxUnit, NEW advanced \in BOOLEAN, Complete(time, advanced)
    PROVE  IInv'
<1>1. slot \in Slots /\ TierOf(slot) \in Tiers
  BY SlotFacts, SchedulerAssumption DEF IInv, Shape, Complete, Ended, Slots
<1>2. Shape'
  <2>1. clock' \in Nat
    BY SchedulerAssumption DEF IInv, Shape, Complete
  <2>2. ran' \subseteq Tiers /\ backlogged' \subseteq Tiers
    BY <1>1 DEF IInv, Shape, Complete
  <2> QED
    BY <2>1, <2>2 DEF IInv, Shape, Complete
<1>3. clock' >= clock /\ clock' \in Int /\ clock \in Int /\ Budget \in Int
      /\ ran \subseteq ran' /\ backlogged' \subseteq backlogged
  BY SchedulerAssumption DEF IInv, Shape, Complete
<1>4. (\A s \in Slots : s < slot => Behind(s))'
  <2> SUFFICES ASSUME NEW s \in Slots, s < slot PROVE Behind(s)'
    BY DEF Complete
  <2>1. Behind(s)
    BY DEF IInv
  <2> QED
    BY <1>3, <2>1 DEF Behind
<1>5. (\A t \in Tiers : t \notin backlogged => t \in ran)'
  BY DEF IInv, Complete
<1>6. PriorityKept' /\ (pending => slot # Ended)'
  BY DEF Complete, PriorityKept
<1> QED
  BY <1>2, <1>4, <1>5, <1>6 DEF IInv

LEMMA OpeningHolds ==
    /\ Init => IInv
    /\ NewRound => IInv'
<1>1. \A s \in Slots : ~(s < 1)
  BY DEF Slots
<1>2. 1 \in 1..Ended /\ ~(1 > N)
  BY SchedulerAssumption DEF Ended
<1>3. 0..MaxOpening \subseteq Nat
  BY SchedulerAssumption
<1>4. Init => IInv
  <2> SUFFICES ASSUME Init PROVE IInv
    OBVIOUS
  <2>1. Shape
    BY <1>2, <1>3 DEF Init, Shape
  <2> QED
    BY <1>1, <1>2, <2>1 DEF Init, IInv, PriorityKept
<1>5. NewRound => IInv'
  <2> SUFFICES ASSUME NewRound PROVE IInv'
    OBVIOUS
  <2>1. Shape'
    BY <1>2, <1>3 DEF NewRound, Shape
  <2> QED
    BY <1>1, <1>2, <2>1 DEF NewRound, IInv, PriorityKept
<1> QED
  BY <1>4, <1>5

\* The inductive invariant: a slot the round has gone past has had its unit,
\* and has no work or no time left.
THEOREM Invariant == Spec => []IInv
<1>1. IInv /\ [Next]_vars => IInv'
  <2> SUFFICES ASSUME IInv, [Next]_vars PROVE IInv'
    OBVIOUS
  <2>1. CASE NewRound
    BY <2>1, OpeningHolds
  <2>2. CASE Request
    BY <2>2, RequestPreserves
  <2>3. CASE \E time \in 0..MaxUnit : \E advanced \in BOOLEAN : Complete(time, advanced)
    BY <2>3, CompletePreserves
  <2>4. CASE UNCHANGED vars
    BY <2>4 DEF vars, IInv, Shape, Behind, PriorityKept
  <2> QED
    BY <2>1, <2>2, <2>3, <2>4 DEF Next
<1> QED
  BY <1>1, OpeningHolds, PTL DEF Spec

\* A round ends only after every tier ran a unit, whatever the budget and the
\* time the units before it took ("every kind of work advances every round").
THEOREM NoTierStarves == Spec => []EveryTierRuns
<1>1. IInv => EveryTierRuns
  BY SlotFacts DEF IInv, Shape, Behind, EveryTierRuns
<1> QED
  BY <1>1, Invariant, PTL

\* Time that is left goes to the tiers in the order of their priority.
THEOREM LeftoverInOrder == Spec => []PriorityKept
<1>1. IInv => PriorityKept
  BY DEF IInv
<1> QED
  BY <1>1, Invariant, PTL

\* A round with work left takes its whole budget (Scheduler::request's second
\* pass).
THEOREM BudgetIsUsed == Spec => []NoTimeWasted
<1>1. IInv => NoTimeWasted
  <2> SUFFICES ASSUME IInv, slot = Ended, NEW t \in backlogged PROVE clock >= Budget
    BY DEF NoTimeWasted
  <2>1. t \in Tiers
    BY DEF IInv, Shape
  <2>2. Behind(t + N) /\ TierOf(t + N) = t /\ t + N > N
    BY <2>1, SlotFacts DEF IInv
  <2> QED
    BY <2>2 DEF Behind
<1> QED
  BY <1>1, Invariant, PTL

\* The round's state stays in its types: no slot's time ends after the round.
THEOREM SchedulerTypes == Spec => []TypeOK
<1>1. IInv => TypeOK
  BY DEF IInv, Shape, TypeOK
<1> QED
  BY <1>1, Invariant, PTL

-----------------------------------------------------------------------------
(* How late a tier's first unit may start. *)

LEMMA LeastNat ==
    ASSUME NEW T, T \subseteq Nat, T # {}
    PROVE  \E x \in T : \A y \in T : x <= y
<1>1. PICK x \in T : \A y \in T : <<y, x>> \notin OpToRel(<, Nat)
  BY WFMin, NatLessThanWellFounded, Zenon
<1>2. \A y \in T : ~(y < x)
  BY <1>1, Zenon DEF OpToRel
<1> QED
  BY <1>2, SMT

\* g is what MostBefore is, for the tiers up to n.
Accumulates(g, n) ==
    /\ g \in [1..n -> Nat]
    /\ \A t \in 1..n : g[t] = IF t = 1 THEN 0 ELSE g[t - 1] + Share[t - 1] + MaxUnit

LEMMA AccumulatesOneMore ==
    ASSUME NEW n \in Nat, n + 1 \in Tiers, NEW g, Accumulates(g, n)
    PROVE  \E h : Accumulates(h, n + 1)
<1> DEFINE more == IF n = 0 THEN 0 ELSE g[n] + Share[n] + MaxUnit
           h == [t \in 1..n + 1 |-> IF t <= n THEN g[t] ELSE more]
<1>1. more \in Nat
  <2>1. CASE n = 0
    BY <2>1
  <2>2. CASE n # 0
    <3>1. n \in 1..n /\ n \in Tiers
      BY <2>2, SchedulerAssumption DEF Tiers
    <3>2. g[n] \in Nat /\ Share[n] \in Nat /\ MaxUnit \in Nat
      BY <3>1, SchedulerAssumption DEF Accumulates
    <3> QED
      BY <2>2, <3>2
  <2> QED
    BY <2>1, <2>2
<1>2. h \in [1..n + 1 -> Nat]
  <2> HIDE DEF more
  <2> QED
    BY <1>1 DEF Accumulates
<1>3. ASSUME NEW t \in 1..n + 1
      PROVE  h[t] = IF t = 1 THEN 0 ELSE h[t - 1] + Share[t - 1] + MaxUnit
  <2>1. CASE t <= n
    <3>1. t \in 1..n /\ h[t] = g[t]
      BY <2>1
    <3>2. t # 1 => t - 1 \in 1..n + 1 /\ t - 1 <= n /\ h[t - 1] = g[t - 1]
      BY <2>1
    <3> HIDE DEF h
    <3> QED
      BY <3>1, <3>2 DEF Accumulates
  <2>2. CASE ~(t <= n)
    <3>1. t = n + 1 /\ h[t] = more
      BY <2>2
    <3>2. t # 1 => n # 0 /\ t - 1 = n /\ n \in 1..n + 1 /\ h[n] = g[n]
      BY <3>1
    <3>3. t = 1 => n = 0
      BY <3>1
    <3> HIDE DEF h
    <3> QED
      BY <3>1, <3>2, <3>3
  <2> QED
    BY <2>1, <2>2
<1> HIDE DEF h
<1> QED
  BY <1>2, <1>3 DEF Accumulates

\* By the least number of tiers for which there is none.
LEMMA AccumulatesAll == \E g : Accumulates(g, N)
<1> DEFINE Without == {n \in 0..N : \A g : ~Accumulates(g, n)}
<1> SUFFICES ASSUME Without # {} PROVE FALSE
  BY SchedulerAssumption
<1>1. PICK n \in Without : \A m \in Without : n <= m
  <2>1. Without \subseteq Nat
    BY SchedulerAssumption
  <2> HIDE DEF Without
  <2> QED
    BY <2>1, LeastNat
<1>2. CASE n = 0
  <2> DEFINE g == [t \in 1..0 |-> 0]
  <2>1. g \in [1..0 -> Nat] /\ 1..0 = {}
    OBVIOUS
  <2>2. Accumulates(g, 0)
    BY <2>1 DEF Accumulates
  <2> QED
    BY <1>1, <1>2, <2>2
<1>3. CASE n # 0
  <2>1. n - 1 \in 0..N /\ n - 1 \in Nat /\ (n - 1) + 1 = n /\ n \in Tiers /\ ~(n <= n - 1)
    BY <1>1, <1>3, SchedulerAssumption DEF Tiers
  <2>2. PICK g : Accumulates(g, n - 1)
    BY <1>1, <2>1
  <2>3. \E h : Accumulates(h, (n - 1) + 1)
    BY <2>1, <2>2, AccumulatesOneMore
  <2> QED
    BY <1>1, <2>1, <2>3
<1> QED
  BY <1>2, <1>3

LEMMA MostBeforeIs ==
    /\ MostBefore \in [Tiers -> Nat]
    /\ MostBefore[1] = 0
    /\ \A t \in Tiers : t + 1 \in Tiers => MostBefore[t + 1] = MostBefore[t] + Share[t] + MaxUnit
<1> DEFINE Is(f) == f = [t \in Tiers |-> IF t = 1 THEN 0 ELSE f[t - 1] + Share[t - 1] + MaxUnit]
<1>1. PICK g : Accumulates(g, N)
  BY AccumulatesAll
<1>2. Is(g)
  BY <1>1 DEF Accumulates, Tiers
<1>3. MostBefore = CHOOSE f : Is(f)
  BY DEF MostBefore
<1>4. Is(MostBefore)
  <2> HIDE DEF Is
  <2> QED
    BY <1>2, <1>3
<1>5. DOMAIN MostBefore = Tiers /\ 1 \in Tiers
  BY <1>4, SchedulerAssumption DEF Tiers
<1>6. \A t \in Tiers : MostBefore[t] =
                           IF t = 1 THEN 0 ELSE MostBefore[t - 1] + Share[t - 1] + MaxUnit
  BY <1>4
<1>7. MostBefore[1] = 0
  BY <1>5, <1>6
<1>8. \A t \in Tiers : t + 1 \in Tiers => MostBefore[t + 1] = MostBefore[t] + Share[t] + MaxUnit
  <2> SUFFICES ASSUME NEW t \in Tiers, t + 1 \in Tiers
               PROVE  MostBefore[t + 1] = MostBefore[t] + Share[t] + MaxUnit
    OBVIOUS
  <2>1. t + 1 # 1 /\ (t + 1) - 1 = t
    BY DEF Tiers
  <2> QED
    BY <1>6, <2>1
<1>9. \A t \in Tiers : MostBefore[t] \in Nat
  <2> DEFINE Bad == {t \in Tiers : MostBefore[t] \notin Nat}
  <2> SUFFICES ASSUME Bad # {} PROVE FALSE
    OBVIOUS
  <2>1. PICK t \in Bad : \A u \in Bad : t <= u
    <3>1. Bad \subseteq Nat
      BY DEF Tiers
    <3> HIDE DEF Bad
    <3> QED
      BY <3>1, LeastNat
  <2>2. t \in Tiers /\ t # 1
    BY <1>7, <2>1
  <2>3. t - 1 \in Tiers /\ ~(t <= t - 1)
    BY <2>2, SchedulerAssumption DEF Tiers
  <2>4. MostBefore[t - 1] \in Nat /\ Share[t - 1] \in Nat /\ MaxUnit \in Nat
    BY <2>1, <2>3, SchedulerAssumption
  <2>5. MostBefore[t] \in Nat
    BY <1>6, <2>2, <2>4
  <2> QED
    BY <2>1, <2>5
<1>10. MostBefore = [t \in Tiers |-> MostBefore[t]]
  BY <1>4
<1> QED
  BY <1>7, <1>8, <1>9, <1>10

LEMMA MostBeforeGrows ==
    ASSUME NEW a \in Tiers, NEW b \in Tiers, a <= b
    PROVE  MostBefore[a] <= MostBefore[b]
<1> DEFINE Bad == {t \in Tiers : a <= t /\ ~(MostBefore[a] <= MostBefore[t])}
<1> SUFFICES ASSUME Bad # {} PROVE FALSE
  OBVIOUS
<1>1. PICK t \in Bad : \A u \in Bad : t <= u
  <2>1. Bad \subseteq Nat
    BY DEF Tiers
  <2> HIDE DEF Bad
  <2> QED
    BY <2>1, LeastNat
<1>2. \A u \in Tiers : u \in Nat /\ MostBefore[u] \in Nat /\ Share[u] \in Nat
  BY MostBeforeIs, SchedulerAssumption DEF Tiers
<1>3. t \in Tiers /\ a < t
  BY <1>1, <1>2
<1>4. t - 1 \in Tiers /\ a <= t - 1 /\ ~(t <= t - 1) /\ (t - 1) + 1 = t
  BY <1>2, <1>3, SchedulerAssumption DEF Tiers
<1>5. MostBefore[a] <= MostBefore[t - 1]
  BY <1>1, <1>4
<1>6. MostBefore[t] = MostBefore[t - 1] + Share[t - 1] + MaxUnit /\ MaxUnit \in Nat
  BY <1>3, <1>4, MostBeforeIs, SchedulerAssumption
<1>7. MostBefore[a] <= MostBefore[t]
  BY <1>2, <1>3, <1>4, <1>5, <1>6
<1> QED
  BY <1>1, <1>7

\* In the first pass: the tiers after the slot's wait for their turn, and the
\* slot's began in time and keeps to its share, but for its last unit.
Timely ==
    slot <= N =>
        /\ \A t \in Tiers : t > slot => t \notin ran
        /\ slot \notin ran => clock <= opened + MostBefore[slot]
        /\ clock <= opened + MostBefore[slot] + Share[slot] + MaxUnit
        /\ IF until = None THEN slot \notin ran /\ ~pending
           ELSE until <= opened + MostBefore[slot] + Share[slot]
        /\ pending => slot \notin ran \/ clock < until

LEMMA FirstPassFacts ==
    ASSUME IInv
    PROVE  /\ clock \in Int /\ opened \in Int /\ MaxUnit \in Nat /\ Budget \in Nat
           /\ until # None => until \in Int
           /\ None \notin Int
           /\ slot <= N => slot \in Tiers /\ slot \in Slots /\ slot # Ended
           /\ slot \in Int
           /\ \A t \in Tiers : MostBefore[t] \in Nat /\ Share[t] \in Nat
BY MostBeforeIs, SchedulerAssumption DEF IInv, Shape, Ended, Tiers, Slots

LEMMA OpeningIsTimely ==
    ASSUME Init \/ NewRound
    PROVE  (Init => Timely) /\ (NewRound => Timely')
<1>1. 1 \in Tiers /\ MostBefore[1] = 0 /\ Share[1] \in Nat /\ MaxUnit \in Nat
  BY MostBeforeIs, SchedulerAssumption DEF Tiers
<1>2. \A x \in 0..MaxOpening : x <= x + 0 /\ x <= x + 0 + Share[1] + MaxUnit
  BY <1>1, SchedulerAssumption
<1>3. Init => Timely
  BY <1>1, <1>2 DEF Init, Timely
<1>4. NewRound => Timely'
  BY <1>1, <1>2 DEF NewRound, Timely
<1> QED
  BY <1>3, <1>4

LEMMA CompleteIsTimely ==
    ASSUME IInv, Timely, NEW time \in 0..MaxUnit, NEW advanced \in BOOLEAN,
           Complete(time, advanced)
    PROVE  Timely'
<1> SUFFICES ASSUME slot <= N
             PROVE  /\ \A t \in Tiers : t > slot => t \notin ran'
                    /\ slot \in ran'
                    /\ clock' <= opened + MostBefore[slot] + Share[slot] + MaxUnit
                    /\ until # None /\ until <= opened + MostBefore[slot] + Share[slot]
  BY DEF Timely, Complete
<1>1. TierOf(slot) = slot /\ slot \in Tiers
  BY FirstPassFacts DEF TierOf
<1>2. ran' = ran \cup {slot} /\ pending /\ clock' = clock + time
  BY <1>1 DEF Complete
<1>3. \A t \in Tiers : t > slot => t \notin ran'
  BY <1>1, <1>2, SlotFacts DEF Timely
<1>4. until # None /\ until <= opened + MostBefore[slot] + Share[slot]
  BY <1>2 DEF Timely
<1>5. clock' <= opened + MostBefore[slot] + Share[slot] + MaxUnit
  <2>1. MostBefore[slot] \in Nat /\ Share[slot] \in Nat /\ time \in Int /\ time <= MaxUnit
    BY <1>1, FirstPassFacts
  <2>2. CASE slot \notin ran
    BY <1>2, <2>1, <2>2, FirstPassFacts DEF Timely
  <2>3. CASE slot \in ran
    <3>1. clock < until
      BY <1>2, <2>3 DEF Timely
    <3> QED
      BY <1>2, <1>4, <2>1, <3>1, FirstPassFacts
  <2> QED
    BY <2>2, <2>3
<1> QED
  BY <1>2, <1>3, <1>4, <1>5

LEMMA RequestIsTimely ==
    ASSUME IInv, Timely, Request
    PROVE  Timely'
<1> SUFFICES ASSUME slot' <= N PROVE Timely'
  BY DEF Timely
<1>1. UNCHANGED <<clock, opened, ran, backlogged>> /\ ~pending /\ slot # Ended
  BY DEF Request
<1>2. Ended > N /\ ~(Ended <= N) /\ slot \in Int
  BY SchedulerAssumption DEF Ended, IInv, Shape
<1>3. PICK s \in slot..2 * N :
         /\ Runs(s, clock)
         /\ \A r \in slot..s - 1 : ~Runs(r, clock)
         /\ slot' = s /\ until' = UntilOf(s, clock) /\ pending' = TRUE
  BY <1>2 DEF Request
<1>4. s \in Int /\ slot <= s /\ s <= N /\ slot <= N
  BY <1>2, <1>3, SchedulerAssumption
<1>5. slot \in Tiers /\ s \in Tiers /\ TierOf(s) = s /\ s \in Slots
  BY <1>4, FirstPassFacts, SchedulerAssumption DEF Tiers, TierOf, Slots
<1>6. /\ MostBefore[slot] \in Nat /\ Share[slot] \in Nat
      /\ MostBefore[s] \in Nat /\ Share[s] \in Nat
  BY <1>5, FirstPassFacts
<1>7. /\ Entered(s, clock) <= clock + Share[s] /\ Entered(s, clock) \in Int
      /\ Entered(s, clock) # None
  <2>1. Entered(s, clock) = IF clock + Share[s] < Budget THEN clock + Share[s] ELSE Budget
    BY <1>4, <1>5 DEF Entered
  <2> QED
    BY <1>6, <2>1, FirstPassFacts
<1>8. CASE s = slot
  <2>1. UntilOf(s, clock) # None
    BY <1>7 DEF UntilOf
  <2>2. UntilOf(s, clock) <= opened + MostBefore[slot] + Share[slot]
    <3>1. CASE until = None
      <4>1. clock <= opened + MostBefore[slot]
        BY <1>4, <3>1 DEF Timely
      <4>2. UntilOf(s, clock) = Entered(s, clock)
        BY <3>1 DEF UntilOf
      <4> QED
        BY <1>6, <1>7, <1>8, <4>1, <4>2, FirstPassFacts
    <3>2. CASE until # None
      BY <1>4, <1>8, <3>2 DEF Timely, UntilOf
    <3> QED
      BY <3>1, <3>2
  <2>3. slot \notin ran \/ clock < UntilOf(s, clock)
    BY <1>3, <1>5, <1>8 DEF Runs
  <2> QED
    BY <1>1, <1>3, <1>4, <1>8, <2>1, <2>2, <2>3 DEF Timely
<1>9. CASE s # slot
  <2>1. slot + 1 <= s /\ slot + 1 \in Tiers /\ slot \in slot..s - 1
    BY <1>2, <1>4, <1>5, <1>9, SchedulerAssumption DEF Tiers
  <2>2. slot + 1 = s
    <3>1. slot + 1 \notin ran /\ slot + 1 \in backlogged
      BY <1>2, <1>4, <2>1 DEF Timely, IInv
    <3>2. TierOf(slot + 1) = slot + 1
      BY <2>1, SlotFacts
    <3>3. Runs(slot + 1, clock)
      BY <3>1, <3>2 DEF Runs
    <3>4. slot + 1 \notin slot..s - 1
      BY <1>3, <3>3
    <3> QED
      BY <1>2, <1>4, <2>1, <3>4
  <2>3. MostBefore[s] = MostBefore[slot] + Share[slot] + MaxUnit
    BY <1>5, <2>1, <2>2, MostBeforeIs
  <2>4. \A t \in Tiers : t > s => t \notin ran
    <3>1. \A t \in Tiers : t > s => t > slot
      BY <1>2, <1>4, <2>2, SlotFacts
    <3> QED
      BY <1>4, <3>1 DEF Timely
  <2>5. s \notin ran
    BY <1>2, <1>4, <1>5, <2>2 DEF Timely
  <2>6. clock <= opened + MostBefore[s]
    BY <1>4, <1>6, <2>3, FirstPassFacts DEF Timely
  <2>7. UntilOf(s, clock) = Entered(s, clock)
    BY <1>9 DEF UntilOf
  <2>8. UntilOf(s, clock) <= opened + MostBefore[s] + Share[s]
    BY <1>6, <1>7, <2>6, <2>7, FirstPassFacts
  <2>9. clock <= opened + MostBefore[s] + Share[s] + MaxUnit
    BY <1>6, <2>6, FirstPassFacts
  <2> QED
    BY <1>1, <1>3, <1>7, <2>4, <2>5, <2>6, <2>7, <2>8, <2>9 DEF Timely
<1> QED
  BY <1>8, <1>9

\* No tier is kept from its first unit longer than the shares of the tiers
\* before it and one unit over each, whatever they are (the note of
\* ScanTuning::shares).
THEOREM EveryTierStartsInTime == Spec => []StartsInTime
<1>1. Init => Timely
  BY OpeningIsTimely
<1>2. IInv /\ Timely /\ [Next]_vars => Timely'
  <2> SUFFICES ASSUME IInv, Timely, [Next]_vars PROVE Timely'
    OBVIOUS
  <2>1. CASE NewRound
    BY <2>1, OpeningIsTimely
  <2>2. CASE Request
    BY <2>2, RequestIsTimely
  <2>3. CASE \E time \in 0..MaxUnit : \E advanced \in BOOLEAN : Complete(time, advanced)
    BY <2>3, CompleteIsTimely
  <2>4. CASE UNCHANGED vars
    BY <2>4 DEF vars, Timely
  <2> QED
    BY <2>1, <2>2, <2>3, <2>4 DEF Next
<1>3. ASSUME IInv, Timely PROVE StartsInTime
  <2> SUFFICES ASSUME NEW t \in Tiers, t \notin ran, slot <= t
               PROVE  clock <= opened + MostBefore[t]
    BY DEF StartsInTime
  <2>1. slot \in Int /\ slot <= N /\ slot \in Tiers /\ t \in Int
    <3>1. slot \in Int /\ (slot <= N => slot \in Tiers)
      BY <1>3, FirstPassFacts
    <3>2. t \in Int /\ t <= N /\ N \in Int
      BY SchedulerAssumption DEF Tiers
    <3> QED
      BY <3>1, <3>2
  <2>2. CASE t = slot
    BY <1>3, <2>1, <2>2 DEF Timely
  <2>3. CASE t # slot
    <3>1. slot + 1 \in Tiers /\ slot + 1 <= t
      BY <2>1, <2>3, SchedulerAssumption DEF Tiers
    <3>2. /\ MostBefore[slot + 1] = MostBefore[slot] + Share[slot] + MaxUnit
          /\ MostBefore[slot + 1] <= MostBefore[t]
      BY <2>1, <3>1, MostBeforeIs, MostBeforeGrows
    <3>3. clock <= opened + MostBefore[slot] + Share[slot] + MaxUnit
      BY <1>3, <2>1 DEF Timely
    <3> QED
      BY <1>3, <2>1, <3>1, <3>2, <3>3, FirstPassFacts
  <2> QED
    BY <2>2, <2>3
<1> QED
  BY <1>1, <1>2, <1>3, Invariant, PTL DEF Spec
=============================================================================
