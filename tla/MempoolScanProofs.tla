------------------------- MODULE MempoolScanProofs -------------------------
(***************************************************************************)
(* For any transactions, stores, orders and limits: proofs that the two    *)
(* paths through the pool never scan a transaction for a store at once,    *)
(* and remember no scan whose findings aren't recorded; and then of the    *)
(* types, for which the operators on sequences are looked into.            *)
(***************************************************************************)
EXTENDS MempoolScan, FiniteSetTheorems, NaturalsInduction, WellFoundedInduction, TLAPS

\* Some stores' windows.
OfStores(w) == DOMAIN w \subseteq Store /\ \A s \in DOMAIN w : w[s] \subseteq Order

Types ==
    /\ scope \subseteq Order /\ OfStores(windows) /\ (cache # None => OfStores(cache))
    /\ scanned \in [Tx -> [Store -> Window]]
    /\ current \in [Path -> Tx \cup {None}] /\ kept \in [Path -> SUBSET Store]
    /\ DOMAIN open = Path /\ open = [p \in Path |-> open[p]]
    /\ \A p \in Path : OfStores(open[p])

\* A path holds stores only for the transaction it is scanning, each as open or
\* as kept.
Holding ==
    \A p \in Path : /\ DOMAIN open[p] \cap kept[p] = {}
                    /\ current[p] = None => DOMAIN open[p] = {} /\ kept[p] = {}

IInv == Types /\ Holding /\ OneOwner /\ DoneIsRecorded

LEMMA OfScope == ASSUME NEW S, S \subseteq Order PROVE OfStores(WindowsOf(S))
  BY MempoolAssumption DEF OfStores, WindowsOf

LEMMA OfNone == DOMAIN NoWindows = {} /\ OfStores(NoWindows)
  BY DEF OfStores, NoWindows, WindowsOf

LEMMA OfRest ==
    ASSUME NEW w, OfStores(w), NEW S
    PROVE  OfStores(Without(w, S)) /\ DOMAIN Without(w, S) = DOMAIN w \ S
  BY DEF OfStores, Without

LEMMA OnePath == ASSUME NEW p \in Path PROVE p = "fast" \/ p = "round"
  BY DEF Path

-----------------------------------------------------------------------------
(* A step that touches no lease and only forgets. *)

LEMMA QuietStep ==
    ASSUME IInv, UNCHANGED <<recorded, inFlight, current, open, kept>>,
           scope' \subseteq Order, OfStores(windows'), cache' # None => OfStores(cache'),
           \/ UNCHANGED scanned
           \/ scanned' = [t \in Tx |-> Unscanned]
           \/ \E S : scanned' = [t \in Tx |-> IF t \in S THEN scanned[t] ELSE Unscanned]
    PROVE  IInv'
  <1>1. scanned' \in [Tx -> [Store -> Window]]
        /\ \A t \in Tx : scanned'[t] = scanned[t] \/ scanned'[t] = Unscanned
    BY DEF IInv, Types, Unscanned, Window
  <1>2. Types'
    BY <1>1 DEF IInv, Types, OfStores
  <1>3. Holding'
    BY DEF IInv, Holding
  <1>4. OneOwner'
    BY DEF IInv, OneOwner, Leases
  <1>5. DoneIsRecorded'
    BY <1>1 DEF IInv, DoneIsRecorded, Unscanned
  <1> QED BY <1>2, <1>3, <1>4, <1>5 DEF IInv

LEMMA SelectStep == ASSUME IInv, RoundSelect \/ FastSelect PROVE IInv'
  <1>1. \E S : scanned' = [t \in Tx |-> IF t \in S THEN scanned[t] ELSE Unscanned]
    BY DEF RoundSelect, FastSelect, Retain
  <1>2. UNCHANGED <<recorded, inFlight, current, open, kept, scope, windows, cache>>
    BY DEF RoundSelect, FastSelect
  <1>3. scope' \subseteq Order /\ OfStores(windows') /\ (cache' # None => OfStores(cache'))
    BY <1>2 DEF IInv, Types, OfStores
  <1> QED BY <1>1, <1>2, <1>3, QuietStep

LEMMA ForgetStep == ASSUME IInv, RoundForgets PROVE IInv'
  <1>1. scanned' = [t \in Tx |-> Unscanned]
    BY DEF RoundForgets
  <1>2. UNCHANGED <<recorded, inFlight, current, open, kept, scope, windows, cache>>
    BY DEF RoundForgets, world
  <1>3. scope' \subseteq Order /\ OfStores(windows') /\ (cache' # None => OfStores(cache'))
    BY <1>2 DEF IInv, Types, OfStores
  <1> QED BY <1>1, <1>2, <1>3, QuietStep

LEMMA AskStep == ASSUME IInv, RoundAsk \/ FastAsk PROVE IInv'
  <1>1. CASE RoundAsk
    <2>1. UNCHANGED <<recorded, inFlight, current, open, kept, scope, windows, cache, scanned>>
      BY <1>1 DEF RoundAsk, Asked, world, memory
    <2> QED BY <2>1, QuietStep DEF IInv, Types
  <1>2. CASE FastAsk
    <2>1. UNCHANGED <<recorded, inFlight, current, open, kept, scope, scanned>>
      BY <1>2 DEF FastAsk, Asked, world, memory, pass
    <2>2. PICK w \in {WindowsOf(scope)} \cup ({cache} \ {None}) :
            cache' = w /\ (windows' = Without(w, waiting) \/ windows' = windows)
      BY <1>2 DEF FastAsk
    <2>3. OfStores(w)
      BY <2>2, OfScope DEF IInv, Types
    <2>4. OfStores(windows')
      BY <2>2, <2>3 DEF IInv, Types, OfStores, Without
    <2>5. scope' \subseteq Order
      BY <2>1 DEF IInv, Types
    <2>6. OfStores(cache')
      BY <2>2, <2>3 DEF OfStores
    <2> QED BY <2>1, <2>4, <2>5, <2>6, QuietStep
  <1> QED BY <1>1, <1>2

LEMMA OutsideStep ==
    ASSUME IInv, \/ \E t \in Tx : PoolChanges(t)
                 \/ \E o \in Order : ScopeChanges(o)
                 \/ \E s \in Store : Retry(s)
    PROVE  IInv'
  <1>1. UNCHANGED <<recorded, inFlight, current, open, kept, windows, cache, scanned>>
    BY DEF PoolChanges, ScopeChanges, Retry, memory, pass
  <1>2. scope' \subseteq Order
    BY DEF PoolChanges, ScopeChanges, Retry, world, Toggle, IInv, Types
  <1> QED BY <1>1, <1>2, QuietStep DEF IInv, Types

LEMMA EndStep == ASSUME IInv, FastEnd \/ RoundEnd PROVE IInv'
  <1>1. UNCHANGED <<recorded, inFlight, current, open, kept, scope, cache, scanned>>
    BY DEF FastEnd, RoundEnd, world, memory
  <1>2. OfStores(windows')
    BY OfNone DEF FastEnd, RoundEnd, IInv, Types
  <1> QED BY <1>1, <1>2, QuietStep DEF IInv, Types

-----------------------------------------------------------------------------
(* The steps that take and drop leases. *)

LEMMA TakeStep ==
    ASSUME IInv, NEW p \in Path, NEW t \in Tx, NEW w, OfStores(w), NEW rest,
           current[p] = None, Take(p, t, w, rest),
           UNCHANGED <<scope, recorded, scanned, cache, windows, kept>>
    PROVE  IInv'
  <1> DEFINE mine == Claimed(t, Without(w, failed[p]))
  <1>1. mine \subseteq Store /\ mine \subseteq DOMAIN w
        /\ \A s \in mine : <<t, s>> \notin inFlight
    BY OfRest DEF Claimed, OfStores
  <1>2. /\ inFlight' = inFlight \cup {<<t, s>> : s \in mine}
        /\ open' = [open EXCEPT ![p] = [s \in mine |-> w[s]]]
        /\ current' = [current EXCEPT ![p] = IF mine = {} THEN None ELSE t]
    BY DEF Take
  <1> HIDE DEF mine
  <1>3. open'[p] = [s \in mine |-> w[s]] /\ \A q \in Path \ {p} : open'[q] = open[q]
    BY <1>2 DEF IInv, Types
  <1>4. current'[p] = (IF mine = {} THEN None ELSE t)
        /\ \A q \in Path \ {p} : current'[q] = current[q]
    BY <1>2 DEF IInv, Types
  <1>5. Types'
    <2>1. \A q \in Path : OfStores(open'[q])
      BY <1>1, <1>3 DEF IInv, Types, OfStores
    <2>2. DOMAIN open' = Path /\ open' = [q \in Path |-> open'[q]]
      BY <1>2 DEF IInv, Types
    <2>3. current' \in [Path -> Tx \cup {None}]
      BY <1>2 DEF IInv, Types
    <2> QED BY <2>1, <2>2, <2>3 DEF IInv, Types
  <1>6. kept[p] = {} /\ DOMAIN open[p] = {} /\ kept' = kept
    BY DEF IInv, Holding
  <1>7. Holding'
    BY <1>3, <1>4, <1>6, MempoolAssumption DEF IInv, Holding
  <1>8. Leases(p) = {} /\ Leases(p)' = {<<t, s>> : s \in mine}
    BY <1>3, <1>4, <1>6 DEF Leases
  <1>9. \A q \in Path \ {p} : Leases(q)' = Leases(q)
    BY <1>3, <1>4, <1>6 DEF Leases
  <1>10. OneOwner'
    <2>1. {<<t, s>> : s \in mine} \cap inFlight = {}
      BY <1>1
    <2>2. CASE p = "fast"
      BY <1>2, <1>8, <1>9, <2>1, <2>2 DEF IInv, OneOwner, Path
    <2>3. CASE p = "round"
      BY <1>2, <1>8, <1>9, <2>1, <2>3 DEF IInv, OneOwner, Path
    <2> QED BY <2>2, <2>3, OnePath
  <1>11. DoneIsRecorded'
    BY DEF IInv, DoneIsRecorded
  <1> QED BY <1>5, <1>7, <1>10, <1>11 DEF IInv

LEMMA RoundTakeStep == ASSUME IInv, NEW t \in Tx, RoundTake(t) PROVE IInv'
  <1> DEFINE w == WindowsOf(scope)
             mine == Without(w, (DOMAIN w \ TenantPage(after[t], DOMAIN w).stores) \cup waiting)
  <1>1. PICK rest : Take("round", t, mine, rest)
    BY DEF RoundTake
  <1>2. OfStores(mine)
    BY OfScope, OfRest DEF IInv, Types
  <1>3. UNCHANGED <<scope, recorded, scanned, cache, windows, kept>> /\ current["round"] = None
    BY DEF RoundTake, world, IsNext
  <1> QED BY <1>1, <1>2, <1>3, TakeStep DEF Path

LEMMA FastTakeStep == ASSUME IInv, NEW t \in Tx, FastTake(t) PROVE IInv'
  <1>1. /\ Take("fast", t, windows, Tail(todo["fast"])) /\ OfStores(windows)
        /\ UNCHANGED <<scope, recorded, scanned, cache, windows, kept>> /\ current["fast"] = None
    BY DEF FastTake, world, IsNext, IInv, Types
  <1> QED BY <1>1, TakeStep DEF Path

\* A store of those being scanned is no longer.
LEMMA OpenLess ==
    ASSUME IInv, NEW p \in Path, NEW s \in DOMAIN open[p],
           open' = [open EXCEPT ![p] = Without(@, {s})]
    PROVE  /\ DOMAIN open' = Path /\ open' = [q \in Path |-> open'[q]]
           /\ \A q \in Path : OfStores(open'[q])
           /\ DOMAIN open'[p] = DOMAIN open[p] \ {s}
           /\ \A q \in Path \ {p} : open'[q] = open[q]
           /\ current[p] \in Tx /\ s \in Store /\ s \notin kept[p]
  <1>1. open'[p] = Without(open[p], {s}) /\ \A q \in Path \ {p} : open'[q] = open[q]
    BY DEF IInv, Types
  <1>2. OfStores(open'[p]) /\ DOMAIN open'[p] = DOMAIN open[p] \ {s}
    <2>1. OfStores(open[p])
      BY DEF IInv, Types
    <2> QED BY <1>1, <2>1 DEF OfStores, Without
  <1>3. \A q \in Path : OfStores(open'[q])
    BY <1>1, <1>2 DEF IInv, Types
  <1>4. current[p] \in Tx /\ s \in Store /\ s \notin kept[p]
    BY DEF IInv, Types, Holding, OfStores
  <1>5. DOMAIN open' = Path /\ open' = [q \in Path |-> open'[q]]
    BY DEF IInv, Types
  <1> QED BY <1>1, <1>2, <1>3, <1>4, <1>5

LEMMA CompleteStep ==
    ASSUME IInv, NEW p \in Path, NEW s \in Store, Complete(p, s)
    PROVE  IInv'
  <1> DEFINE t == current[p]
  <1>1. /\ s \in DOMAIN open[p] /\ open' = [open EXCEPT ![p] = Without(@, {s})]
        /\ recorded' = recorded \cup Found(p, s)
        /\ scanned' = [scanned EXCEPT ![t][s] = open[p][s]]
        /\ inFlight' = inFlight \ {<<t, s>>}
        /\ UNCHANGED <<scope, cache, windows, current, kept>>
    BY DEF Complete, ScannedWith, world
  <1>2. /\ DOMAIN open' = Path /\ open' = [q \in Path |-> open'[q]]
        /\ \A q \in Path : OfStores(open'[q])
        /\ DOMAIN open'[p] = DOMAIN open[p] \ {s}
        /\ \A q \in Path \ {p} : open'[q] = open[q]
        /\ t \in Tx /\ s \notin kept[p]
    BY <1>1, OpenLess
  <1> HIDE DEF t
  <1>3. open[p][s] \in Window
    BY <1>1 DEF IInv, Types, OfStores, Window
  <1>4. scanned' \in [Tx -> [Store -> Window]]
    BY <1>1, <1>3 DEF IInv, Types
  <1>5. Types'
    BY <1>1, <1>2, <1>4 DEF IInv, Types
  <1>6. Holding'
    <2>1. \A q \in Path : DOMAIN open'[q] \subseteq DOMAIN open[q]
      BY <1>2
    <2> QED BY <1>1, <2>1 DEF IInv, Holding
  <1>7. Leases(p)' = Leases(p) \ {<<t, s>>} /\ <<t, s>> \in Leases(p)
    <2>1. DOMAIN open'[p] \cup kept'[p] = (DOMAIN open[p] \cup kept[p]) \ {s}
      BY <1>1, <1>2
    <2>2. Leases(p)' = {<<t, r>> : r \in (DOMAIN open[p] \cup kept[p]) \ {s}}
      BY <1>1, <2>1 DEF Leases, t
    <2>3. Leases(p) = {<<t, r>> : r \in DOMAIN open[p] \cup kept[p]}
      BY DEF Leases, t
    <2> QED BY <1>1, <2>2, <2>3
  <1>8. \A q \in Path \ {p} : Leases(q)' = Leases(q)
    BY <1>1, <1>2 DEF Leases
  <1>9. OneOwner'
    <2>1. CASE p = "fast"
      BY <1>1, <1>7, <1>8, <2>1 DEF IInv, OneOwner, Path
    <2>2. CASE p = "round"
      BY <1>1, <1>7, <1>8, <2>2 DEF IInv, OneOwner, Path
    <2> QED BY <2>1, <2>2, OnePath
  <1>10. DoneIsRecorded'
    <2> SUFFICES ASSUME NEW u \in Tx, NEW r \in Store, scanned'[u][r] # None,
                        NEW o \in Pays[u] \cap scanned'[u][r]
                 PROVE  <<u, o>> \in recorded'
      BY <1>1 DEF DoneIsRecorded
    <2>1. CASE u = t /\ r = s
      <3>1. scanned'[u][r] = open[p][s]
        BY <1>1, <2>1 DEF IInv, Types
      <3>2. <<u, o>> \in Found(p, s)
        BY <2>1, <3>1 DEF Found, t
      <3> QED BY <1>1, <3>2
    <2>2. CASE ~(u = t /\ r = s)
      <3>1. scanned'[u][r] = scanned[u][r]
        BY <1>1, <1>2, <2>2 DEF IInv, Types
      <3> QED BY <1>1, <3>1 DEF IInv, DoneIsRecorded
    <2> QED BY <2>1, <2>2
  <1> QED BY <1>5, <1>6, <1>9, <1>10 DEF IInv

LEMMA KeepStep ==
    ASSUME IInv, NEW p \in Path, NEW s \in Store, Keep(p, s)
    PROVE  IInv'
  <1>1. /\ s \in DOMAIN open[p] /\ open' = [open EXCEPT ![p] = Without(@, {s})]
        /\ kept' = [kept EXCEPT ![p] = @ \cup {s}]
        /\ UNCHANGED <<scope, recorded, scanned, inFlight, cache, windows, current>>
    BY DEF Keep
  <1>2. /\ DOMAIN open' = Path /\ open' = [q \in Path |-> open'[q]]
        /\ \A q \in Path : OfStores(open'[q])
        /\ DOMAIN open'[p] = DOMAIN open[p] \ {s}
        /\ \A q \in Path \ {p} : open'[q] = open[q]
        /\ current[p] \in Tx /\ s \notin kept[p]
    BY <1>1, OpenLess
  <1>3. kept'[p] = kept[p] \cup {s} /\ \A q \in Path \ {p} : kept'[q] = kept[q]
    BY <1>1 DEF IInv, Types
  <1>4. Types'
    BY <1>1, <1>2 DEF IInv, Types
  <1>5. Holding'
    BY <1>1, <1>2, <1>3, MempoolAssumption DEF IInv, Holding
  <1>6. DOMAIN open'[p] \cup kept'[p] = DOMAIN open[p] \cup kept[p]
    BY <1>1, <1>2, <1>3
  <1>7. \A q \in Path : Leases(q)' = Leases(q)
    BY <1>1, <1>2, <1>3, <1>6 DEF Leases
  <1>8. OneOwner'
    BY <1>1, <1>7 DEF IInv, OneOwner, Path
  <1>9. DoneIsRecorded'
    BY <1>1 DEF IInv, DoneIsRecorded
  <1> QED BY <1>4, <1>5, <1>8, <1>9 DEF IInv

\* A path drops all its leases.
LEMMA DropStep ==
    ASSUME IInv, NEW p \in Path,
           inFlight' = inFlight \ Leases(p),
           current' = [current EXCEPT ![p] = None], kept' = [kept EXCEPT ![p] = {}],
           open' = [open EXCEPT ![p] = NoWindows],
           recorded \subseteq recorded', scope' \subseteq Order, OfStores(windows'),
           UNCHANGED <<scanned, cache>>
    PROVE  IInv'
  <1>1. /\ current'[p] = None /\ kept'[p] = {} /\ open'[p] = NoWindows
        /\ \A q \in Path \ {p} : current'[q] = current[q] /\ kept'[q] = kept[q] /\ open'[q] = open[q]
    BY DEF IInv, Types
  <1>2. DOMAIN open' = Path /\ open' = [q \in Path |-> open'[q]]
    BY DEF IInv, Types
  <1>3. \A q \in Path : OfStores(open'[q])
    BY <1>1, OfNone DEF IInv, Types
  <1>4. current' \in [Path -> Tx \cup {None}] /\ kept' \in [Path -> SUBSET Store]
    BY DEF IInv, Types
  <1>5. Types'
    BY <1>2, <1>3, <1>4 DEF IInv, Types
  <1>6. Holding'
    BY <1>1, OfNone DEF IInv, Holding
  <1>7. Leases(p)' = {} /\ \A q \in Path \ {p} : Leases(q)' = Leases(q)
    BY <1>1, OfNone DEF Leases
  <1>8. OneOwner'
    <2>1. CASE p = "fast"
      BY <1>7, <2>1 DEF IInv, OneOwner, Path
    <2>2. CASE p = "round"
      BY <1>7, <2>2 DEF IInv, OneOwner, Path
    <2> QED BY <2>1, <2>2, OnePath
  <1>9. DoneIsRecorded'
    BY DEF IInv, DoneIsRecorded
  <1> QED BY <1>5, <1>6, <1>8, <1>9 DEF IInv

LEMMA ReleaseStep == ASSUME IInv, NEW p \in Path, Release(p) PROVE IInv'
  <1>1. open' = [open EXCEPT ![p] = NoWindows]
    BY DEF Release, IInv, Types
  <1>2. /\ inFlight' = inFlight \ Leases(p)
        /\ current' = [current EXCEPT ![p] = None] /\ kept' = [kept EXCEPT ![p] = {}]
        /\ UNCHANGED <<scope, recorded, scanned, cache, windows>>
    BY DEF Release, world
  <1> QED BY <1>1, <1>2, DropStep DEF IInv, Types

LEMMA AbandonStep == ASSUME IInv, NEW p \in Path, Abandon(p) PROVE IInv'
  <1>1. /\ inFlight' = inFlight \ Leases(p)
        /\ current' = [current EXCEPT ![p] = None] /\ kept' = [kept EXCEPT ![p] = {}]
        /\ open' = [open EXCEPT ![p] = NoWindows]
        /\ recorded \subseteq recorded' /\ UNCHANGED <<scope, scanned, cache>>
    BY DEF Abandon
  <1>2. OfStores(windows')
    BY OfNone DEF Abandon, IInv, Types
  <1> QED BY <1>1, <1>2, DropStep DEF IInv, Types

\* As the engine starts.
LEMMA Fresh ==
    ASSUME scope \subseteq Order, scanned = [t \in Tx |-> Unscanned], inFlight = {}, cache = None,
           windows = NoWindows, current = [p \in Path |-> None],
           open = [p \in Path |-> NoWindows], kept = [p \in Path |-> {}]
    PROVE  IInv
  <1>1. Types
    BY OfNone DEF Types, Unscanned, Window
  <1>2. Holding
    BY OfNone DEF Holding
  <1>3. OneOwner
    BY OfNone DEF OneOwner, Leases, Path
  <1>4. DoneIsRecorded
    BY DEF DoneIsRecorded, Unscanned
  <1> QED BY <1>1, <1>2, <1>3, <1>4 DEF IInv

LEMMA FreshAgain ==
    ASSUME scope' \subseteq Order, scanned' = [t \in Tx |-> Unscanned], inFlight' = {}, cache' = None,
           windows' = NoWindows, current' = [p \in Path |-> None],
           open' = [p \in Path |-> NoWindows], kept' = [p \in Path |-> {}]
    PROVE  IInv'
  <1>1. Types'
    BY OfNone DEF Types, Unscanned, Window
  <1>2. Holding'
    BY OfNone DEF Holding
  <1>3. OneOwner'
    BY OfNone DEF OneOwner, Leases, Path
  <1>4. DoneIsRecorded'
    BY DEF DoneIsRecorded, Unscanned
  <1> QED BY <1>1, <1>2, <1>3, <1>4 DEF IInv

-----------------------------------------------------------------------------

\* What the theorems below rest on.
THEOREM MempoolInvariant == Spec => []IInv
  <1>1. Init => IInv
    BY Fresh, MempoolAssumption DEF Init
  <1>2. IInv /\ [Next]_vars => IInv'
    <2> SUFFICES ASSUME IInv, [Next]_vars PROVE IInv'
      OBVIOUS
    <2>1. CASE RoundStep
      BY <2>1, AskStep, ForgetStep, SelectStep, RoundTakeStep, CompleteStep, ReleaseStep, EndStep
      DEF RoundStep, Scanning, Path
    <2>2. CASE FastAsk \/ FastGoesOn
      BY <2>2, AskStep, SelectStep, FastTakeStep, CompleteStep, ReleaseStep, EndStep
      DEF FastGoesOn, Scanning, Path
    <2>3. CASE \/ \E t \in Tx : PoolChanges(t)
               \/ \E o \in Order : ScopeChanges(o)
               \/ \E s \in Store : Retry(s)
      BY <2>3, OutsideStep
    <2>4. CASE \E s \in Store, p \in Path : ScanFails(p, s) \/ WriteFails(p, s)
      BY <2>4, KeepStep DEF ScanFails, WriteFails
    <2>5. CASE Restart
      BY <2>5, FreshAgain DEF Restart, IInv, Types
    <2>6. CASE \E p \in Path : Abandon(p)
      BY <2>6, AbandonStep
    <2>7. CASE UNCHANGED vars
      <3>1. UNCHANGED <<recorded, inFlight, current, open, kept, scope, windows, cache, scanned>>
        BY <2>7 DEF vars, world, memory, pass
      <3> QED BY <3>1, QuietStep DEF IInv, Types
    <2> QED BY <2>1, <2>2, <2>3, <2>4, <2>5, <2>6, <2>7 DEF Next
  <1> QED BY <1>1, <1>2, PTL DEF Spec

\* The fast pass and the round never scan a transaction for a store at once, and
\* no lease outlives the pass that took it (Reservations, ScanClaims).
THEOREM ScansDontMeet == Spec => []OneOwner
  BY MempoolInvariant, PTL DEF IInv

\* What is remembered as scanned is recorded (ScanClaims::complete).
THEOREM RememberedIsRecorded == Spec => []DoneIsRecorded
  BY MempoolInvariant, PTL DEF IInv

-----------------------------------------------------------------------------
(* Sequences of transactions. *)

LEMMA LeastNat ==
    ASSUME NEW T, T \subseteq Nat, T # {}
    PROVE  \E x \in T : \A y \in T : x <= y
  <1>1. PICK x \in T : \A y \in T : <<y, x>> \notin OpToRel(<, Nat)
    BY WFMin, NatLessThanWellFounded, Zenon
  <1>2. \A y \in T : ~(y < x)
    BY <1>1, Zenon DEF OpToRel
  <1> QED BY <1>2, SMT

\* left[n] is what of the first n of q is in S, for n up to m.
Sifts(left, q, S, m) ==
    /\ DOMAIN left = 0..m
    /\ left[0] = <<>>
    /\ \A n \in 1..m :
         left[n] = IF q[n] \in S THEN Append(left[n - 1], q[n]) ELSE left[n - 1]

LEMMA SiftsOneMore ==
    ASSUME NEW q, NEW S, NEW m \in Nat, NEW f, Sifts(f, q, S, m)
    PROVE  \E g : Sifts(g, q, S, m + 1)
  <1> DEFINE more == IF q[m + 1] \in S THEN Append(f[m], q[m + 1]) ELSE f[m]
             g == [n \in 0..m + 1 |-> IF n = m + 1 THEN more ELSE f[n]]
  <1>1. g[m + 1] = more /\ \A n \in 0..m : g[n] = f[n]
    OBVIOUS
  <1>2. DOMAIN g = 0..m + 1 /\ g[0] = <<>>
    BY <1>1 DEF Sifts
  <1> HIDE DEF g
  <1>3. ASSUME NEW n \in 1..m + 1
        PROVE  g[n] = IF q[n] \in S THEN Append(g[n - 1], q[n]) ELSE g[n - 1]
    <2>1. CASE n = m + 1
      <3>1. n - 1 = m /\ m \in 0..m
        BY <2>1
      <3> QED BY <1>1, <2>1, <3>1
    <2>2. CASE n # m + 1
      <3>1. n \in 1..m /\ n \in 0..m /\ n - 1 \in 0..m
        BY <2>2
      <3> QED BY <1>1, <3>1 DEF Sifts
    <2> QED BY <2>1, <2>2
  <1> QED BY <1>2, <1>3 DEF Sifts

\* By the least length for which there is none.
LEMMA SiftsAll ==
    ASSUME NEW q, NEW S, NEW m \in Nat
    PROVE  \E f : Sifts(f, q, S, m)
  <1> DEFINE Lacking == {n \in Nat : \A f : ~Sifts(f, q, S, n)}
  <1> SUFFICES ASSUME Lacking # {} PROVE FALSE
    OBVIOUS
  <1>1. PICK n \in Lacking : \A k \in Lacking : n <= k
    <2>1. Lacking \subseteq Nat
      OBVIOUS
    <2> HIDE DEF Lacking
    <2> QED BY <2>1, LeastNat
  <1>2. CASE n = 0
    <2> DEFINE f == [k \in 0..0 |-> <<>>]
    <2>1. Sifts(f, q, S, 0)
      BY DEF Sifts
    <2> QED BY <1>1, <1>2, <2>1
  <1>3. CASE n # 0
    <2>1. n - 1 \in Nat /\ (n - 1) + 1 = n /\ ~(n <= n - 1)
      BY <1>1, <1>3
    <2>2. PICK f : Sifts(f, q, S, n - 1)
      BY <1>1, <2>1
    <2>3. \E g : Sifts(g, q, S, (n - 1) + 1)
      BY <2>1, <2>2, SiftsOneMore
    <2> QED BY <1>1, <2>1, <2>3
  <1> QED BY <1>2, <1>3

LEMMA OnlySifts ==
    ASSUME NEW q \in Seq(Tx), NEW S
    PROVE  \E left : Sifts(left, q, S, Len(q)) /\ Only(q, S) = left[Len(q)]
  <1> DEFINE m == Len(q)
             Is(f) == f = [n \in 0..m |-> IF n = 0 THEN <<>>
                                          ELSE IF q[n] \in S THEN Append(f[n - 1], q[n])
                                          ELSE f[n - 1]]
             left == CHOOSE f : Is(f)
  <1>1. m \in Nat
    OBVIOUS
  <1>2. PICK f : Sifts(f, q, S, m)
    BY <1>1, SiftsAll
  <1>3. \E f1 : Is(f1)
    <2> DEFINE f1 == [n \in 0..m |-> f[n]]
    <2>1. \A n \in 0..m : n # 0 => n \in 1..m /\ n - 1 \in 0..m
      BY <1>1
    <2>2. \A n \in 0..m : f1[n] = IF n = 0 THEN <<>>
                                          ELSE IF q[n] \in S THEN Append(f1[n - 1], q[n])
                                          ELSE f1[n - 1]
      BY <1>2, <2>1 DEF Sifts
    <2>3. DOMAIN f1 = 0..m /\ f1 = [n \in 0..m |-> f1[n]]
      OBVIOUS
    <2> HIDE DEF f1, m
    <2>4. Is(f1)
      BY <2>2, <2>3
    <2> QED BY <2>4
  <1>4. Is(left)
    <2> HIDE DEF Is
    <2> QED BY <1>3
  <1>5. Only(q, S) = left[m]
    BY DEF Only
  <1> HIDE DEF left
  <1>6. Sifts(left, q, S, m)
    <2> HIDE DEF m
    <2>1. DOMAIN left = 0..m
      BY <1>4
    <2>2. \A n \in 0..m : left[n] = IF n = 0 THEN <<>>
                                          ELSE IF q[n] \in S THEN Append(left[n - 1], q[n])
                                          ELSE left[n - 1]
      BY <1>4
    <2>3. 0 \in 0..m /\ \A n \in 1..m : n \in 0..m /\ n # 0
      BY <1>1
    <2> QED BY <2>1, <2>2, <2>3 DEF Sifts
  <1> QED BY <1>5, <1>6

LEMMA AppendIs ==
    ASSUME NEW q \in Seq(Tx), IsInjective(q), NEW i \in Tx, i \notin Range(q)
    PROVE  /\ Append(q, i) \in Seq(Tx) /\ IsInjective(Append(q, i))
           /\ Range(Append(q, i)) = Range(q) \cup {i}
  <1> DEFINE r == Append(q, i)
             l == Len(q)
  <1>1. l \in Nat /\ DOMAIN q = 1..l /\ r \in Seq(Tx) /\ DOMAIN r = 1..l + 1
    OBVIOUS
  <1>2. r[l + 1] = i /\ \A n \in 1..l : r[n] = q[n]
    OBVIOUS
  <1> HIDE DEF r, l
  <1>3. \A n \in 1..l + 1 : n = l + 1 \/ n \in 1..l
    BY <1>1
  <1>4. \A n \in 1..l : q[n] # i /\ n \in 1..l + 1
    <2>1. \A n \in DOMAIN q : q[n] \in Range(q)
      BY DEF Range
    <2>2. \A n \in 1..l : n \in 1..l + 1
      BY <1>1
    <2> QED BY <1>1, <2>1, <2>2
  <1>5. IsInjective(r)
    <2>1. \A m, n \in 1..l : q[m] = q[n] => m = n
      BY <1>1 DEF IsInjective
    <2>2. \A m, n \in 1..l + 1 : r[m] = r[n] => m = n
      BY <1>2, <1>3, <1>4, <2>1
    <2> QED BY <1>1, <2>2 DEF IsInjective
  <1>6. Range(r) = Range(q) \cup {i}
    <2>1. Range(r) \subseteq Range(q) \cup {i}
      BY <1>1, <1>2, <1>3 DEF Range
    <2>2. Range(q) \cup {i} \subseteq Range(r)
      BY <1>1, <1>2, <1>4 DEF Range
    <2> QED BY <2>1, <2>2
  <1> QED BY <1>1, <1>5, <1>6 DEF r

\* By the first of q behind which it is not so.
LEMMA OnlyIs ==
    ASSUME NEW q \in Seq(Tx), IsInjective(q), NEW S
    PROVE  /\ Only(q, S) \in Seq(Tx) /\ IsInjective(Only(q, S))
           /\ Range(Only(q, S)) \subseteq Range(q) \cap S
  <1> DEFINE l == Len(q)
  <1>1. l \in Nat /\ DOMAIN q = 1..l /\ \A n \in 1..l : q[n] \in Tx
    OBVIOUS
  <1>2. PICK left : Sifts(left, q, S, l) /\ Only(q, S) = left[l]
    BY OnlySifts
  <1> DEFINE OfFirst(n) == {q[k] : k \in 1..n} \cap S
             Good(n) == left[n] \in Seq(Tx) /\ IsInjective(left[n]) /\ Range(left[n]) \subseteq OfFirst(n)
             Bad == {n \in 0..l : ~Good(n)}
  <1>3. Good(0)
    <2>1. <<>> \in Seq(Tx) /\ IsInjective(<<>>) /\ Range(<<>>) = {}
      BY DEF IsInjective, Range
    <2> QED BY <1>2, <2>1 DEF Sifts
  <1>4. ASSUME NEW n \in 1..l, Good(n - 1) PROVE Good(n)
    <2> DEFINE r == left[n - 1]
    <2>1. r \in Seq(Tx) /\ IsInjective(r) /\ Range(r) \subseteq OfFirst(n - 1)
      BY <1>4
    <2>2. OfFirst(n - 1) \subseteq OfFirst(n) /\ q[n] \in Tx
      BY <1>1
    <2>3. q[n] \notin OfFirst(n - 1)
      <3> SUFFICES ASSUME NEW k \in 1..n - 1, q[k] = q[n] PROVE FALSE
        OBVIOUS
      <3>1. k \in DOMAIN q /\ n \in DOMAIN q /\ k # n
        BY <1>1
      <3> QED BY <3>1 DEF IsInjective
    <2>4. left[n] = IF q[n] \in S THEN Append(r, q[n]) ELSE r
      BY <1>2 DEF Sifts
    <2>5. q[n] \in S => q[n] \in OfFirst(n)
      BY <1>1
    <2> HIDE DEF r, OfFirst
    <2>6. CASE q[n] \notin S
      BY <2>1, <2>2, <2>4, <2>6
    <2>7. CASE q[n] \in S
      <3>1. q[n] \notin Range(r)
        BY <2>1, <2>3
      <3>2. /\ Append(r, q[n]) \in Seq(Tx) /\ IsInjective(Append(r, q[n]))
            /\ Range(Append(r, q[n])) = Range(r) \cup {q[n]}
        BY <2>1, <2>2, <3>1, AppendIs
      <3> QED BY <2>1, <2>2, <2>4, <2>5, <2>7, <3>2
    <2> QED BY <2>6, <2>7
  <1>5. Bad = {}
    <2> SUFFICES ASSUME Bad # {} PROVE FALSE
      OBVIOUS
    <2>1. Bad \subseteq Nat
      BY <1>1
    <2>2. PICK n \in Bad : \A k \in Bad : n <= k
      <3> HIDE DEF Bad
      <3> QED BY <2>1, LeastNat
    <2> HIDE DEF Good
    <2>3. n \in 0..l /\ n # 0
      BY <1>3
    <2>4. n \in 1..l /\ n - 1 \in 0..l /\ ~(n <= n - 1)
      BY <1>1, <2>3
    <2>5. n - 1 \notin Bad
      BY <2>1, <2>2, <2>4
    <2> QED BY <1>4, <2>4, <2>5
  <1>6. Good(l)
    <2> HIDE DEF Good
    <2> QED BY <1>1, <1>5
  <1>7. OfFirst(l) \subseteq Range(q) \cap S
    BY <1>1 DEF Range
  <1> QED BY <1>2, <1>6, <1>7

LEMMA ConcatIs ==
    ASSUME NEW q \in Seq(Tx), IsInjective(q), NEW r \in Seq(Tx), IsInjective(r),
           Range(q) \cap Range(r) = {}
    PROVE  /\ q \o r \in Seq(Tx) /\ IsInjective(q \o r)
           /\ Range(q \o r) \subseteq Range(q) \cup Range(r)
  <1> DEFINE w == q \o r
             l == Len(q)
             k == Len(r)
  <1>1. l \in Nat /\ k \in Nat /\ DOMAIN q = 1..l /\ DOMAIN r = 1..k
    OBVIOUS
  <1>2. w \in Seq(Tx) /\ DOMAIN w = 1..l + k
    OBVIOUS
  <1>3. /\ \A n \in 1..l + k : n <= l => n \in 1..l /\ w[n] = q[n]
        /\ \A n \in 1..l + k : ~(n <= l) => n - l \in 1..k /\ w[n] = r[n - l]
    OBVIOUS
  <1> HIDE DEF w, l, k
  <1>4. /\ \A n \in 1..l : q[n] \in Range(q)
        /\ \A n \in 1..k : r[n] \in Range(r)
    BY <1>1 DEF Range
  <1>5. /\ \A m, n \in 1..l : q[m] = q[n] => m = n
        /\ \A m, n \in 1..k : r[m] = r[n] => m = n
    BY <1>1 DEF IsInjective
  <1>6. ASSUME NEW m \in 1..l + k, NEW n \in 1..l + k, w[m] = w[n] PROVE m = n
    <2>1. CASE m <= l /\ n <= l
      BY <1>3, <1>5, <1>6, <2>1
    <2>2. CASE ~(m <= l) /\ ~(n <= l)
      <3>1. m - l = n - l
        BY <1>3, <1>5, <1>6, <2>2
      <3> QED BY <1>1, <3>1
    <2>3. CASE m <= l /\ ~(n <= l)
      BY <1>3, <1>4, <1>6, <2>3
    <2>4. CASE ~(m <= l) /\ n <= l
      BY <1>3, <1>4, <1>6, <2>4
    <2> QED BY <2>1, <2>2, <2>3, <2>4
  <1>7. IsInjective(w)
    BY <1>2, <1>6 DEF IsInjective
  <1>8. Range(w) \subseteq Range(q) \cup Range(r)
    <2>1. \A n \in 1..l + k : w[n] \in Range(q) \cup Range(r)
      BY <1>3, <1>4
    <2> QED BY <1>2, <2>1 DEF Range
  <1> QED BY <1>2, <1>7, <1>8 DEF w

LEMMA FirstIs ==
    ASSUME NEW q \in Seq(Tx), IsInjective(q), NEW n \in Nat
    PROVE  First(n, q) \in Seq(Tx) /\ IsInjective(First(n, q)) /\ Range(First(n, q)) \subseteq Tx
  <1> DEFINE l == IF Len(q) < n THEN Len(q) ELSE n
             r == SubSeq(q, 1, l)
  <1>1. l \in Nat /\ l <= Len(q) /\ Len(q) \in Nat /\ DOMAIN q = 1..Len(q)
    OBVIOUS
  <1> HIDE DEF l
  <1>2. r \in Seq(Tx) /\ DOMAIN r = 1..l /\ \A i \in 1..l : r[i] = q[i]
    BY <1>1
  <1>3. First(n, q) = r
    BY DEF First, l
  <1> HIDE DEF r
  <1>4. IsInjective(r)
    <2>1. \A i \in 1..l : i \in DOMAIN q
      BY <1>1
    <2> QED BY <1>2, <2>1 DEF IsInjective
  <1>5. Range(r) \subseteq Tx
    <2>1. \A i \in 1..l : q[i] \in Tx
      BY <1>1
    <2> QED BY <1>2, <2>1 DEF Range
  <1> QED BY <1>2, <1>3, <1>4, <1>5

Rising(q) == \A m, n \in DOMAIN q : m < n => q[m] < q[n]

\* A set has its rising sequence if it has one without its least member.
LEMMA RisingOneMore ==
    ASSUME NEW S, S \subseteq Nat, NEW a \in S, \A b \in S : a <= b,
           NEW n \in Nat, NEW q \in [1..n -> S \ {a}], Rising(q)
    PROVE  \E r \in [1..n + 1 -> S] : Rising(r)
  <1> DEFINE r == [i \in 1..n + 1 |-> IF i = 1 THEN a ELSE q[i - 1]]
  <1>1. \A i \in 1..n + 1 : i # 1 => i - 1 \in 1..n /\ r[i] = q[i - 1] /\ q[i - 1] \in S \ {a}
    OBVIOUS
  <1>2. 1 \in 1..n + 1 /\ r[1] = a
    OBVIOUS
  <1>3. r \in [1..n + 1 -> S] /\ DOMAIN r = 1..n + 1
    BY <1>1
  <1> HIDE DEF r
  <1>4. ASSUME NEW i \in 1..n + 1, NEW j \in 1..n + 1, i < j PROVE r[i] < r[j]
    <2>1. j # 1 /\ j - 1 \in 1..n /\ r[j] = q[j - 1] /\ q[j - 1] \in S \ {a}
      BY <1>1, <1>4
    <2>2. CASE i = 1
      <3>1. a \in Nat /\ q[j - 1] \in Nat /\ a <= q[j - 1] /\ a # q[j - 1]
        BY <2>1
      <3> QED BY <1>2, <2>1, <2>2, <3>1
    <2>3. CASE i # 1
      <3>1. i - 1 \in 1..n /\ r[i] = q[i - 1] /\ i - 1 < j - 1
        BY <1>1, <1>4, <2>3
      <3> QED BY <2>1, <3>1 DEF Rising
    <2> QED BY <2>2, <2>3
  <1> QED BY <1>3, <1>4 DEF Rising

\* By the least size of a set that has none.
LEMMA RisingExists ==
    ASSUME NEW S, IsFiniteSet(S), S \subseteq Nat
    PROVE  \E q \in [1..Cardinality(S) -> S] : Rising(q)
  <1> DEFINE Lacks(T) == ~\E q \in [1..Cardinality(T) -> T] : Rising(q)
             Sizes == {n \in Nat : \E T \in SUBSET Nat :
                          IsFiniteSet(T) /\ Cardinality(T) = n /\ Lacks(T)}
  <1> SUFFICES ASSUME Lacks(S) PROVE FALSE
    OBVIOUS
  <1>1. Cardinality(S) \in Sizes
    BY FS_CardinalityType
  <1>2. PICK n \in Sizes : \A m \in Sizes : n <= m
    <2>1. Sizes \subseteq Nat /\ Sizes # {}
      BY <1>1
    <2> HIDE DEF Sizes
    <2> QED BY <2>1, LeastNat
  <1>3. PICK T \in SUBSET Nat : IsFiniteSet(T) /\ Cardinality(T) = n /\ Lacks(T)
    OBVIOUS
  <1>4. T # {}
    <2> SUFFICES ASSUME T = {} PROVE FALSE
      OBVIOUS
    <2>1. n = 0
      BY <1>3, FS_EmptySet
    <2> DEFINE q == [i \in 1..0 |-> 0]
    <2>2. q \in [1..0 -> T] /\ Rising(q)
      BY DEF Rising
    <2> QED BY <1>3, <2>1, <2>2
  <1>5. PICK a \in T : \A b \in T : a <= b
    BY <1>4, LeastNat
  <1>6. IsFiniteSet(T \ {a}) /\ Cardinality(T \ {a}) = n - 1 /\ n \in Nat
    BY <1>3, FS_RemoveElement
  <1>7. n - 1 \in Nat
    BY <1>6, FS_CardinalityType
  <1>8. ~Lacks(T \ {a})
    <2> SUFFICES ASSUME Lacks(T \ {a}) PROVE FALSE
      OBVIOUS
    <2>1. n - 1 \in Sizes
      <3>1. T \ {a} \in SUBSET Nat
        OBVIOUS
      <3> HIDE DEF Lacks
      <3> QED BY <1>6, <1>7, <3>1
    <2>2. n <= n - 1
      BY <1>2, <2>1
    <2> QED BY <1>6, <2>2
  <1>9. PICK q \in [1..n - 1 -> T \ {a}] : Rising(q)
    BY <1>6, <1>8
  <1>10. \E r \in [1..(n - 1) + 1 -> T] : Rising(r)
    BY <1>5, <1>7, <1>9, RisingOneMore
  <1>11. (n - 1) + 1 = n
    BY <1>6
  <1> QED BY <1>3, <1>10, <1>11

LEMMA SortedRises ==
    ASSUME NEW S, IsFiniteSet(S), S \subseteq Nat
    PROVE  Sorted(S) \in [1..Cardinality(S) -> S] /\ Rising(Sorted(S))
  BY RisingExists DEF Sorted, Rising

LEMMA SortedIs ==
    ASSUME NEW S, S \subseteq Tx
    PROVE  /\ Sorted(S) \in Seq(Tx) /\ IsInjective(Sorted(S)) /\ Range(Sorted(S)) \subseteq S
  <1> DEFINE n == Cardinality(S)
             q == Sorted(S)
  <1>1. IsFiniteSet(S) /\ S \subseteq Nat
    BY MempoolAssumption, FS_Subset
  <1>2. n \in Nat /\ q \in [1..n -> S] /\ Rising(q)
    BY <1>1, SortedRises, FS_CardinalityType
  <1> HIDE DEF n, q
  <1>3. q \in Seq(Tx) /\ DOMAIN q = 1..n
    BY <1>2
  <1>4. IsInjective(q)
    <2> SUFFICES ASSUME NEW i \in 1..n, NEW j \in 1..n, q[i] = q[j], i < j PROVE FALSE
      BY <1>2, <1>3 DEF IsInjective
    <2>1. q[i] < q[j] /\ q[i] \in Nat /\ q[j] \in Nat
      BY <1>1, <1>2, <1>3 DEF Rising
    <2> QED BY <2>1
  <1>5. Range(q) \subseteq S
    BY <1>2 DEF Range
  <1> QED BY <1>3, <1>4, <1>5 DEF q

\* By the least number of numbers that have none.
LEMMA GreatestIn ==
    ASSUME NEW S, IsFiniteSet(S), S \subseteq Nat, S # {}
    PROVE  \E x \in S : \A y \in S : y <= x
  <1> DEFINE Lacks(T) == T # {} /\ ~\E x \in T : \A y \in T : y <= x
             Sizes == {n \in Nat : \E T \in SUBSET Nat :
                          IsFiniteSet(T) /\ Cardinality(T) = n /\ Lacks(T)}
  <1> SUFFICES ASSUME Lacks(S) PROVE FALSE
    OBVIOUS
  <1>1. Cardinality(S) \in Sizes
    BY FS_CardinalityType
  <1>2. PICK n \in Sizes : \A m \in Sizes : n <= m
    <2>1. Sizes \subseteq Nat /\ Sizes # {}
      BY <1>1
    <2> HIDE DEF Sizes
    <2> QED BY <2>1, LeastNat
  <1>3. PICK T \in SUBSET Nat : IsFiniteSet(T) /\ Cardinality(T) = n /\ Lacks(T)
    OBVIOUS
  <1>4. PICK a \in T : TRUE
    BY <1>3
  <1>5. IsFiniteSet(T \ {a}) /\ Cardinality(T \ {a}) = n - 1 /\ n \in Nat
    BY <1>3, FS_RemoveElement
  <1>6. n - 1 \in Nat
    BY <1>5, FS_CardinalityType
  <1>7. ~Lacks(T \ {a})
    <2> SUFFICES ASSUME Lacks(T \ {a}) PROVE FALSE
      OBVIOUS
    <2>1. n - 1 \in Sizes
      <3>1. T \ {a} \in SUBSET Nat
        OBVIOUS
      <3> HIDE DEF Lacks
      <3> QED BY <1>5, <1>6, <3>1
    <2>2. n <= n - 1
      BY <1>2, <2>1
    <2> QED BY <1>5, <2>2
  <1>8. CASE T \ {a} = {}
    <2>1. \A y \in T : y <= a
      BY <1>8
    <2> QED BY <1>3, <2>1
  <1>9. CASE T \ {a} # {}
    <2>1. PICK b \in T \ {a} : \A y \in T \ {a} : y <= b
      BY <1>7, <1>9
    <2>2. a \in Nat /\ b \in Nat
      BY <2>1
    <2>3. CASE a <= b
      BY <1>3, <2>1, <2>3
    <2>4. CASE ~(a <= b)
      <3>1. \A y \in T : y \in Nat /\ (y # a => y <= b)
        BY <2>1
      <3>2. \A y \in T : y <= a
        BY <2>2, <2>4, <3>1
      <3> QED BY <1>3, <3>2
    <2> QED BY <2>3, <2>4
  <1> QED BY <1>8, <1>9

LEMMA PageNext ==
    ASSUME NEW from, NEW active, active \subseteq Store
    PROVE  TenantPage(from, active).next \in Store \cup {0}
  <1> DEFINE next == Lowest(TenantsPerTx, {s \in active : s > from})
             full == Cardinality(next) = TenantsPerTx
             top == CHOOSE s \in next : \A r \in next : r <= s
  <1>1. next \subseteq Store
    BY DEF Lowest
  <1>2. TenantPage(from, active).next = IF full THEN top ELSE 0
    BY DEF TenantPage
  <1>3. full => top \in Store
    <2> SUFFICES ASSUME full PROVE top \in Store
      OBVIOUS
    <2> HIDE DEF next
    <2>1. next # {}
      BY MempoolAssumption, FS_EmptySet
    <2>2. IsFiniteSet(next) /\ next \subseteq Nat
      BY <1>1, MempoolAssumption, FS_Subset
    <2>3. \E s \in next : \A r \in next : r <= s
      BY <2>1, <2>2, GreatestIn
    <2>4. top \in next
      BY <2>3
    <2> QED BY <1>1, <2>4
  <1> HIDE DEF full, top
  <1> QED BY <1>2, <1>3

-----------------------------------------------------------------------------
(* The types. *)

Rotation == queue \in Seq(Tx) /\ IsInjective(queue)

\* The fast pass asks for the pool only with a store to scan for.
Places ==
    /\ at \in [Path -> {"idle", "asked", "scanning"}]
    /\ polled \in [Path -> {None} \cup SUBSET Tx]
    /\ at["fast"] = "asked" => polled["fast"] \subseteq Tx /\ DOMAIN windows # {}

Bodies == todo \in [Path -> Seq(Tx)]
Pages == after \in [Tx -> Store \cup {0}]

Plain ==
    /\ pool \subseteq Tx /\ recorded \subseteq Tx \X Order /\ surprises \in 0..MaxSurprises
    /\ waiting \subseteq Store /\ failed \in [Path -> SUBSET Store] /\ served \subseteq Tx

TInv == Rotation /\ Places /\ Bodies /\ Pages /\ Plain

LEMMA Surprised == ASSUME Plain, Surprise PROVE surprises' \in 0..MaxSurprises
  BY MempoolAssumption DEF Plain, Surprise

LEMMA RoundAskTypes == ASSUME TInv, RoundAsk PROVE TInv'
  <1>1. PICK S : Asked("round", S) /\ S \in {pool, None}
    BY DEF RoundAsk
  <1>2. UNCHANGED <<world, recorded, memory, windows, served, todo, failed>>
    BY <1>1 DEF RoundAsk, Asked
  <1>3. Places'
    <2>1. /\ at' = [at EXCEPT !["round"] = "asked"] /\ polled' = [polled EXCEPT !["round"] = S]
          /\ windows' = windows
      BY <1>1, <1>2 DEF Asked
    <2>2. S \in {None} \cup SUBSET Tx
      BY <1>1 DEF TInv, Plain
    <2> QED BY <2>1, <2>2 DEF TInv, Places, Path
  <1> QED BY <1>2, <1>3 DEF TInv, Rotation, Bodies, Pages, Plain, world, memory

LEMMA RoundForgetsTypes == ASSUME TInv, RoundForgets PROVE TInv'
  <1>1. Rotation'
    <2>1. <<>> \in Seq(Tx) /\ IsInjective(<<>>)
      BY DEF IsInjective
    <2> QED BY <2>1 DEF RoundForgets, Rotation
  <1>2. Places'
    BY DEF RoundForgets, TInv, Places, Path
  <1>3. Pages'
    BY DEF RoundForgets, Pages
  <1> QED BY <1>1, <1>2, <1>3 DEF RoundForgets, TInv, Bodies, Plain, world

\* A path has the bodies of some of q.
LEMMA FetchTypes ==
    ASSUME TInv, NEW p \in Path, NEW q \in Seq(Tx), IsInjective(q), Fetch(p, q)
    PROVE  Bodies' /\ surprises' \in 0..MaxSurprises
  <1>1. PICK got : todo' = [todo EXCEPT ![p] = Only(q, got)]
    BY DEF Fetch
  <1>2. Only(q, got) \in Seq(Tx)
    BY OnlyIs
  <1>3. surprises' \in 0..MaxSurprises
    BY Surprised DEF Fetch, TInv, Plain
  <1> QED BY <1>1, <1>2, <1>3 DEF TInv, Bodies

LEMMA RetainPages == ASSUME Pages, NEW S, Retain(S) PROVE Pages'
  BY DEF Pages, Retain

LEMMA RoundSelectTypes == ASSUME TInv, RoundSelect PROVE TInv'
  <1> DEFINE present == polled["round"]
             joined == Only(queue, present) \o Sorted(Newcomers(present))
             selected == First(TxsPerRound, joined)
  <1>1. /\ Retain(present) /\ queue' = joined /\ Fetch("round", selected)
        /\ served' \subseteq Range(selected)
        /\ at' = [at EXCEPT !["round"] = "scanning"] /\ polled' = [polled EXCEPT !["round"] = None]
        /\ UNCHANGED <<pool, scope, recorded, waiting, failed, windows>>
        /\ present # None
    BY DEF RoundSelect, Missing
  <1>2. present \subseteq Tx
    BY <1>1 DEF TInv, Places, Path
  <1> HIDE DEF present
  <1>3. /\ Only(queue, present) \in Seq(Tx) /\ IsInjective(Only(queue, present))
        /\ Range(Only(queue, present)) \subseteq Range(queue)
    BY OnlyIs DEF TInv, Rotation
  <1>4. /\ Sorted(Newcomers(present)) \in Seq(Tx) /\ IsInjective(Sorted(Newcomers(present)))
        /\ Range(Sorted(Newcomers(present))) \cap Range(queue) = {}
    BY <1>2, SortedIs DEF Newcomers
  <1>5. joined \in Seq(Tx) /\ IsInjective(joined)
    BY <1>3, <1>4, ConcatIs
  <1> HIDE DEF joined
  <1>6. selected \in Seq(Tx) /\ IsInjective(selected) /\ Range(selected) \subseteq Tx
    BY <1>5, FirstIs, MempoolAssumption
  <1> HIDE DEF selected
  <1>7. Rotation' /\ Bodies' /\ Pages' /\ surprises' \in 0..MaxSurprises
    BY <1>1, <1>5, <1>6, FetchTypes, RetainPages DEF Rotation, TInv, Path
  <1>8. Places'
    BY <1>1 DEF TInv, Places, Path
  <1> QED BY <1>1, <1>6, <1>7, <1>8 DEF TInv, Plain

LEMMA FastAskTypes == ASSUME IInv, TInv, FastAsk PROVE TInv'
  <1>1. CASE UNCHANGED <<pass, windows>>
    BY <1>1 DEF FastAsk, TInv, Rotation, Places, Bodies, Pages, Plain, world, memory, pass
  <1>2. CASE Asked("fast", pool)
    <2>1. PICK w : ~(DOMAIN w \subseteq waiting) /\ windows' = Without(w, waiting)
      <3>1. at["fast"] = "idle" /\ at'["fast"] = "asked"
        BY <1>2 DEF FastAsk, Asked, TInv, Places, Path
      <3> QED BY <3>1 DEF FastAsk, pass
    <2>2. DOMAIN windows' # {}
      BY <2>1 DEF Without
    <2>3. at' = [at EXCEPT !["fast"] = "asked"] /\ polled' = [polled EXCEPT !["fast"] = pool]
      BY <1>2 DEF Asked
    <2>4. pool \subseteq Tx
      BY DEF TInv, Plain
    <2>5. Places'
      BY <2>2, <2>3, <2>4 DEF TInv, Places, Path
    <2> QED BY <1>2, <2>5 DEF FastAsk, Asked, TInv, Rotation, Bodies, Pages, Plain, world, memory
  <1> QED BY <1>1, <1>2 DEF FastAsk

LEMMA FastSelectTypes == ASSUME IInv, TInv, FastSelect PROVE TInv'
  <1> DEFINE present == polled["fast"]
             new == {t \in present : scanned[t] = Unscanned}
             fits == FastScans \div Cardinality(DOMAIN windows)
             many == IF fits < 1 THEN 1 ELSE IF fits > FastTxs THEN FastTxs ELSE fits
  <1>1. /\ Retain(present) /\ queue' = Only(queue, present)
        /\ Fetch("fast", First(many, Sorted(new)))
        /\ at' = [at EXCEPT !["fast"] = "scanning"] /\ polled' = [polled EXCEPT !["fast"] = None]
        /\ UNCHANGED <<pool, scope, recorded, waiting, failed, windows, served>>
    BY DEF FastSelect
  <1>2. present \subseteq Tx /\ DOMAIN windows # {} /\ DOMAIN windows \subseteq Store
    BY DEF FastSelect, TInv, Places, IInv, Types, OfStores
  <1>3. many \in Nat
    <2>1. IsFiniteSet(DOMAIN windows)
      BY <1>2, MempoolAssumption, FS_Subset
    <2>2. Cardinality(DOMAIN windows) \in Nat /\ Cardinality(DOMAIN windows) # 0
      BY <1>2, <2>1, FS_CardinalityType, FS_EmptySet
    <2>3. fits \in Int
      BY <2>2, MempoolAssumption
    <2> HIDE DEF fits
    <2> QED BY <2>3, MempoolAssumption
  <1>4. new \subseteq Tx
    BY <1>2
  <1> HIDE DEF present, new, many
  <1>5. Only(queue, present) \in Seq(Tx) /\ IsInjective(Only(queue, present))
    BY OnlyIs DEF TInv, Rotation
  <1>6. Sorted(new) \in Seq(Tx) /\ IsInjective(Sorted(new))
    BY <1>4, SortedIs
  <1>7. First(many, Sorted(new)) \in Seq(Tx) /\ IsInjective(First(many, Sorted(new)))
    BY <1>3, <1>6, FirstIs
  <1>8. Rotation' /\ Bodies' /\ Pages' /\ surprises' \in 0..MaxSurprises
    BY <1>1, <1>5, <1>7, FetchTypes, RetainPages DEF Rotation, TInv, Path
  <1>9. Places'
    BY <1>1 DEF TInv, Places, Path
  <1> QED BY <1>1, <1>8, <1>9 DEF TInv, Plain

\* A path takes one more.
LEMMA TakeTypes ==
    ASSUME TInv, NEW p \in Path, NEW t, NEW w, NEW rest, Take(p, t, w, rest),
           rest \in {Tail(todo[p]), <<>>}, todo[p] # <<>>
    PROVE  Bodies'
  <1>1. todo' = [todo EXCEPT ![p] = rest]
    BY DEF Take
  <1>2. todo[p] \in Seq(Tx)
    BY DEF TInv, Bodies
  <1>3. rest \in Seq(Tx)
    <2>1. \A q \in Seq(Tx) : q # <<>> => Tail(q) \in Seq(Tx)
      OBVIOUS
    <2>2. <<>> \in Seq(Tx)
      OBVIOUS
    <2> QED BY <1>2, <2>1, <2>2
  <1> QED BY <1>1, <1>3 DEF TInv, Bodies

LEMMA RoundTakeTypes == ASSUME IInv, TInv, NEW t \in Tx, RoundTake(t) PROVE TInv'
  <1> DEFINE w == WindowsOf(scope)
             page == TenantPage(after[t], DOMAIN w)
  <1>1. DOMAIN w \subseteq Store
    BY OfScope DEF IInv, Types, OfStores
  <1>2. page.next \in Store \cup {0}
    BY <1>1, PageNext
  <1>3. /\ after' = [after EXCEPT ![t] = page.next] /\ served' = served \cup {t}
        /\ UNCHANGED <<world, recorded, queue, waiting, at, polled, failed, windows>>
    BY DEF RoundTake
  <1>4. Bodies'
    BY TakeTypes DEF RoundTake, IsNext, Path
  <1> HIDE DEF page
  <1>5. Pages'
    BY <1>2, <1>3 DEF TInv, Pages
  <1> QED BY <1>3, <1>4, <1>5 DEF TInv, Rotation, Places, Plain, world

LEMMA FastTakeTypes == ASSUME TInv, NEW t \in Tx, FastTake(t) PROVE TInv'
  <1>1. Bodies'
    BY TakeTypes DEF FastTake, IsNext, Path
  <1> QED BY <1>1 DEF FastTake, TInv, Rotation, Places, Pages, Plain, world

\* What a path finds is of the transaction it is scanning.
LEMMA FoundIs ==
    ASSUME IInv, NEW p \in Path, NEW s \in DOMAIN open[p]
    PROVE  Found(p, s) \subseteq Tx \X Order
  <1>1. current[p] \in Tx
    BY DEF IInv, Holding, Types
  <1>2. Pays[current[p]] \subseteq Order
    BY <1>1, MempoolAssumption
  <1> QED BY <1>1, <1>2 DEF Found

LEMMA CompleteTypes ==
    ASSUME IInv, TInv, NEW p \in Path, NEW s \in Store, Complete(p, s)
    PROVE  TInv'
  <1>1. recorded' \subseteq Tx \X Order
    BY FoundIs DEF Complete, TInv, Plain
  <1> QED BY <1>1 DEF Complete, TInv, Rotation, Places, Bodies, Pages, Plain, world

LEMMA KeepTypes ==
    ASSUME TInv, NEW p \in Path, NEW s \in Store, ScanFails(p, s) \/ WriteFails(p, s)
    PROVE  TInv'
  <1>1. surprises' \in 0..MaxSurprises
    BY Surprised DEF ScanFails, WriteFails, Keep, TInv
  <1>2. waiting' \subseteq Store /\ failed' \in [Path -> SUBSET Store]
    BY DEF ScanFails, WriteFails, TInv, Plain
  <1>3. UNCHANGED <<pool, recorded, queue, after, at, polled, todo, windows, served>>
    BY DEF ScanFails, WriteFails, Keep
  <1> QED BY <1>1, <1>2, <1>3 DEF TInv, Rotation, Places, Bodies, Pages, Plain

LEMMA EndTypes == ASSUME TInv, FastEnd \/ RoundEnd \/ \E p \in Path : Release(p) PROVE TInv'
  <1>1. ASSUME NEW p \in Path, Release(p) PROVE TInv'
    BY <1>1 DEF Release, TInv, Rotation, Places, Bodies, Pages, Plain, world
  <1>2. CASE FastEnd
    <2>1. Places'
      BY <1>2 DEF FastEnd, TInv, Places, Path
    <2>2. failed' \in [Path -> SUBSET Store]
      BY <1>2 DEF FastEnd, TInv, Plain
    <2> QED BY <1>2, <2>1, <2>2 DEF FastEnd, TInv, Rotation, Bodies, Pages, Plain, world, memory
  <1>3. CASE RoundEnd
    <2>1. Places'
      BY <1>3 DEF RoundEnd, TInv, Places, Path
    <2>2. failed' \in [Path -> SUBSET Store]
      BY <1>3 DEF RoundEnd, TInv, Plain
    <2> DEFINE kin == Only(queue, Tx \ served)
               back == Only(queue, served)
    <2>3. /\ kin \in Seq(Tx) /\ IsInjective(kin) /\ Range(kin) \subseteq Tx \ served
          /\ back \in Seq(Tx) /\ IsInjective(back) /\ Range(back) \subseteq served
      BY OnlyIs DEF TInv, Rotation
    <2>4. queue' = kin \o back
      BY <1>3 DEF RoundEnd
    <2> HIDE DEF kin, back
    <2>5. Rotation'
      BY <2>3, <2>4, ConcatIs DEF Rotation
    <2> QED BY <1>3, <2>1, <2>2, <2>5 DEF RoundEnd, TInv, Bodies, Pages, Plain, world
  <1> QED BY <1>1, <1>2, <1>3

LEMMA AbandonTypes == ASSUME IInv, TInv, NEW p \in Path, Abandon(p) PROVE TInv'
  <1>1. recorded' \subseteq Tx \X Order
    BY FoundIs DEF Abandon, TInv, Plain
  <1>2. surprises' \in 0..MaxSurprises
    BY Surprised DEF Abandon, TInv
  <1>3. Places'
    <2>1. /\ at' = [at EXCEPT ![p] = "idle"] /\ polled' = [polled EXCEPT ![p] = None]
          /\ p # "fast" => windows' = windows
      BY DEF Abandon
    <2> QED BY <2>1 DEF TInv, Places, Path
  <1>4. Bodies'
    BY DEF Abandon, TInv, Bodies
  <1>5. failed' \in [Path -> SUBSET Store] /\ served' \subseteq Tx
    BY DEF Abandon, TInv, Plain
  <1> QED BY <1>1, <1>2, <1>3, <1>4, <1>5 DEF Abandon, TInv, Rotation, Pages, Plain

LEMMA OutsideTypes ==
    ASSUME TInv, \/ \E t \in Tx : PoolChanges(t)
                 \/ \E o \in Order : ScopeChanges(o)
                 \/ \E s \in Store : Retry(s)
    PROVE  TInv'
  <1>1. surprises' \in 0..MaxSurprises
    BY Surprised DEF PoolChanges, ScopeChanges, Retry, TInv, Plain, world
  <1>2. pool' \subseteq Tx
    <2>1. \A t \in Tx : Toggle(pool, t) \subseteq pool \cup {t}
      BY DEF Toggle
    <2> QED BY <2>1 DEF PoolChanges, ScopeChanges, Retry, TInv, Plain, world
  <1>3. waiting' \subseteq Store /\ UNCHANGED <<recorded, queue, after, at, polled, todo, failed, windows, served>>
    BY DEF PoolChanges, ScopeChanges, Retry, TInv, Plain, memory, pass
  <1> QED BY <1>1, <1>2, <1>3 DEF TInv, Rotation, Places, Bodies, Pages, Plain

LEMMA RestartTypes == ASSUME TInv, Restart PROVE TInv'
  <1>1. surprises' \in 0..MaxSurprises
    BY Surprised DEF Restart, TInv
  <1>2. Rotation'
    <2>1. <<>> \in Seq(Tx) /\ IsInjective(<<>>)
      BY DEF IsInjective
    <2> QED BY <2>1 DEF Restart, Rotation
  <1>3. Places' /\ Bodies' /\ Pages'
    BY DEF Restart, Places, Bodies, Pages, Path
  <1> QED BY <1>1, <1>2, <1>3 DEF Restart, TInv, Plain

\* The types hold: a transaction is at most at one place of the rotation, and
\* only stores that there are get a turn (PoolRotation).
THEOREM MempoolTypes == Spec => []TypeOK
  <1>1. Init => TInv
    <2> SUFFICES ASSUME Init PROVE TInv
      OBVIOUS
    <2>1. <<>> \in Seq(Tx) /\ IsInjective(<<>>)
      BY DEF IsInjective
    <2>2. Rotation /\ Bodies /\ Pages
      BY <2>1 DEF Init, Rotation, Bodies, Pages
    <2>3. Places
      BY DEF Init, Places, Path
    <2>4. Plain
      BY MempoolAssumption DEF Init, Plain
    <2> QED BY <2>2, <2>3, <2>4 DEF TInv
  <1>2. IInv /\ TInv /\ [Next]_vars => TInv'
    <2> SUFFICES ASSUME IInv, TInv, [Next]_vars PROVE TInv'
      OBVIOUS
    <2>1. CASE RoundStep
      BY <2>1, RoundAskTypes, RoundForgetsTypes, RoundSelectTypes, RoundTakeTypes, CompleteTypes,
         EndTypes DEF RoundStep, Scanning, Path
    <2>2. CASE FastAsk \/ FastGoesOn
      BY <2>2, FastAskTypes, FastSelectTypes, FastTakeTypes, CompleteTypes, EndTypes
      DEF FastGoesOn, Scanning, Path
    <2>3. CASE UNCHANGED vars
      BY <2>3 DEF vars, world, memory, pass, TInv, Rotation, Places, Bodies, Pages, Plain
    <2> QED BY <2>1, <2>2, <2>3, OutsideTypes, KeepTypes, RestartTypes, AbandonTypes DEF Next
  <1>3. IInv /\ TInv => TypeOK
    <2> SUFFICES ASSUME IInv, TInv PROVE TypeOK
      OBVIOUS
    <2>1. \A p \in Path : Leases(p) \subseteq Tx \X Store
      BY DEF IInv, Types, Holding, Leases, OfStores
    <2>2. inFlight \subseteq Tx \X Store
      BY <2>1 DEF IInv, OneOwner, Path
    <2>3. \A p \in Path : /\ DOMAIN open[p] \subseteq Store
                          /\ \A s \in DOMAIN open[p] : open[p][s] \in SUBSET Order
      BY DEF IInv, Types, OfStores
    <2> QED BY <2>2, <2>3 DEF IInv, Types, TInv, Rotation, Places, Bodies, Pages, Plain, TypeOK
  <1> QED BY <1>1, <1>2, <1>3, MempoolInvariant, PTL DEF Spec
=============================================================================
