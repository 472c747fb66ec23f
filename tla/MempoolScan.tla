---------------------------- MODULE MempoolScan ----------------------------
(***************************************************************************)
(* The two paths that look for payments in the pool of one network, and    *)
(* what they share (crates/engine/src/work/mempool.rs and reservations.rs): *)
(* the fast pass, which takes only new transactions, and the round's       *)
(* mempool tier, which goes round the pool and round the stores.           *)
(*                                                                         *)
(* A scan finds the outputs of a transaction that pay an order of the      *)
(* window it is given; a window's generation is its contents.              *)
(***************************************************************************)
EXTENDS Integers, Sequences, FiniteSets, Functions

CONSTANTS
    Tx,             \* the transactions, by their ids' order
    Withheld,       \* those the node never gives the body of
    Store,          \* the stores, by their ids' order
    Order,
    StoreOf,        \* StoreOf[o] is the store of o
    Pays,           \* Pays[t] are the orders t pays
    Early,          \* the orders there are when the engine starts
    None,
    TxsPerRound,    \* TXS_PER_ROUND
    TenantsPerTx,   \* TENANTS_PER_TX
    FastScans,      \* FAST_SCANS_PER_PASS
    FastTxs,        \* FAST_TXS_PER_PASS
    MaxSurprises    \* bound: what changes the pool or the orders, or fails

ASSUME MempoolAssumption ==
    /\ IsFiniteSet(Tx) /\ Tx \subseteq Nat /\ Withheld \subseteq Tx
    /\ IsFiniteSet(Store) /\ Store \subseteq Nat \ {0} /\ Early \subseteq Order
    /\ StoreOf \in [Order -> Store] /\ Pays \in [Tx -> SUBSET Order]
    /\ None \notin Tx
    /\ TxsPerRound \in Nat \ {0} /\ TenantsPerTx \in Nat \ {0}
    /\ FastScans \in Nat /\ FastTxs \in Nat \ {0} /\ MaxSurprises \in Nat

Path == {"fast", "round"}

VARIABLES
    pool,           \* the node's
    scope,          \* the orders a scan looks for
    recorded,       \* the payments in the store: a transaction and an order
    surprises,
    \* MempoolState, which both share
    scanned,        \* the window each store was last scanned with, or None
    inFlight,       \* the scans reserved: a transaction and a store
    queue,          \* the round's rotation
    after,          \* where each transaction's page of stores begins
    cache,          \* the windows the fast pass loaded last, or None
    waiting,        \* the stores backed off
    \* each path's pass
    at,             \* where it is
    polled,         \* the pool as it was told, or None: nothing to look for
    windows,        \* the windows the fast pass goes by
    todo,           \* the bodies it has, not scanned yet
    current,        \* the transaction it is scanning, or None
    open,           \* the stores it is scanning it for, with their windows
    kept,           \* the stores that failed, still reserved
    failed,         \* the stores that failed in the pass
    served          \* what the round sends to the back of its rotation

world == <<pool, scope, surprises>>
memory == <<scanned, inFlight, queue, after, waiting>>
pass == <<at, polled, todo, current, open, kept, failed>>
vars == <<world, recorded, memory, cache, pass, windows, served>>

Unscanned == [s \in Store |-> None]

\* The stores with an order in scope, each with its window.
WindowsOf(S) ==
    [s \in {StoreOf[o] : o \in S} |-> {o \in S : StoreOf[o] = s}]
Without(f, S) == [x \in DOMAIN f \ S |-> f[x]]
NoWindows == WindowsOf({})

Init ==
    /\ pool = Tx /\ scope = Early /\ recorded = {} /\ surprises = 0
    /\ scanned = [t \in Tx |-> Unscanned] /\ inFlight = {}
    /\ queue = <<>> /\ after = [t \in Tx |-> 0] /\ cache = None /\ waiting = {}
    /\ at = [p \in Path |-> "idle"] /\ polled = [p \in Path |-> None]
    /\ windows = NoWindows
    /\ todo = [p \in Path |-> <<>>] /\ current = [p \in Path |-> None]
    /\ open = [p \in Path |-> NoWindows] /\ kept = [p \in Path |-> {}]
    /\ failed = [p \in Path |-> {}] /\ served = {}

Surprise == surprises < MaxSurprises /\ surprises' = surprises + 1

-----------------------------------------------------------------------------
(* The node, the orders and the clock. *)

\* A transaction reaches the pool or leaves it.
Toggle(S, x) == IF x \in S THEN S \ {x} ELSE S \cup {x}
PoolChanges(t) ==
    /\ Surprise /\ pool' = Toggle(pool, t)
    /\ UNCHANGED <<scope, recorded, memory, cache, pass, windows, served>>

\* An order is created, or closed for longer than the grace period.
ScopeChanges(o) ==
    /\ Surprise /\ scope' = Toggle(scope, o)
    /\ UNCHANGED <<pool, recorded, memory, cache, pass, windows, served>>

\* A store has waited out its delay.
Retry(s) ==
    /\ s \in waiting /\ waiting' = waiting \ {s}
    /\ UNCHANGED <<world, recorded, scanned, inFlight, queue, after, cache, pass, windows, served>>

-----------------------------------------------------------------------------
(* Looking at the pool. *)

Sorted(S) == CHOOSE q \in [1 .. Cardinality(S) -> S] :
                 \A i, j \in DOMAIN q : i < j => q[i] < q[j]
First(n, q) == SubSeq(q, 1, IF Len(q) < n THEN Len(q) ELSE n)
Only(q, S) ==
    LET left[n \in 0 .. Len(q)] ==
          IF n = 0 THEN <<>> ELSE IF q[n] \in S THEN Append(left[n - 1], q[n]) ELSE left[n - 1]
    IN  left[Len(q)]

\* retain_pool: what is remembered of transactions that left the pool goes.
Retain(S) ==
    /\ scanned' = [t \in Tx |-> IF t \in S THEN scanned[t] ELSE Unscanned]
    /\ after' = [t \in Tx |-> IF t \in S THEN after[t] ELSE 0]

\* bodies: of those asked for, the node may not give some.
Fetch(p, q) ==
    \E got \in SUBSET (Range(q) \ Withheld) :
        /\ \/ got = Range(q) \ Withheld /\ UNCHANGED surprises
           \/ got # Range(q) \ Withheld /\ Surprise
        /\ todo' = [todo EXCEPT ![p] = Only(q, got)]

Asked(p, S) ==
    /\ at' = [at EXCEPT ![p] = "asked"] /\ polled' = [polled EXCEPT ![p] = S]
    /\ UNCHANGED <<todo, current, open, kept, failed>>

\* A round asks for the pool at its start, if a store has an order in scope or
\* a payment waits for a block (watching).
RoundAsk ==
    /\ at["round"] = "idle"
    /\ \E watching \in BOOLEAN :
        /\ scope # {} => watching
        /\ watching => scope # {} \/ recorded # {}
        /\ Asked("round", IF watching THEN pool ELSE None)
    /\ UNCHANGED <<world, recorded, memory, cache, windows, served>>

\* The mempool tier begins (step): nothing to look for, and all is forgotten.
RoundForgets ==
    /\ at["round"] = "asked" /\ polled["round"] = None
    /\ scanned' = [t \in Tx |-> Unscanned] /\ after' = [t \in Tx |-> 0] /\ queue' = <<>>
    /\ at' = [at EXCEPT !["round"] = "idle"]
    /\ UNCHANGED <<world, recorded, inFlight, waiting, cache, polled, todo, current, open, kept,
                   failed, windows, served>>

\* Mutant: what the node didn't give keeps its place.
NoneMissing(q, got) == {}
Missing(q, got) == Range(q) \ Range(got)

\* Mutant: those it has join again.
Everyone(S) == S
Newcomers(S) == S \ Range(queue)

\* Or it takes the first of its rotation, behind which newcomers have joined.
RoundSelect ==
    /\ at["round"] = "asked" /\ polled["round"] # None
    /\ LET present == polled["round"]
           joined == Only(queue, present) \o Sorted(Newcomers(present))
           selected == First(TxsPerRound, joined)
       IN  /\ Retain(present) /\ queue' = joined
           /\ Fetch("round", selected)
           /\ served' = Missing(selected, todo'["round"])
    /\ at' = [at EXCEPT !["round"] = "scanning"] /\ polled' = [polled EXCEPT !["round"] = None]
    /\ UNCHANGED <<pool, scope, recorded, inFlight, waiting, cache, current, open, kept, failed,
                   windows>>

\* The fast pass loads the windows, or goes by those it loaded a moment ago
\* (all_windows), and asks for the pool if there is a store to scan for.
FastAsk ==
    /\ at["fast"] = "idle"
    /\ \E w \in {WindowsOf(scope)} \cup ({cache} \ {None}) :
        /\ cache' = w
        /\ \/ /\ DOMAIN w \subseteq waiting /\ UNCHANGED <<pass, windows>>
           \/ /\ ~(DOMAIN w \subseteq waiting)
              /\ windows' = Without(w, waiting) /\ Asked("fast", pool)
    /\ UNCHANGED <<world, recorded, memory, served>>

\* It takes the new ones, as many as it may scan for each store.
FastSelect ==
    /\ at["fast"] = "asked"
    /\ LET present == polled["fast"]
           new == {t \in present : scanned[t] = Unscanned}
           fits == FastScans \div Cardinality(DOMAIN windows)
           most == IF fits < 1 THEN 1 ELSE IF fits > FastTxs THEN FastTxs ELSE fits
       IN  /\ Retain(present) /\ queue' = Only(queue, present)
           /\ Fetch("fast", First(most, Sorted(new)))
    /\ at' = [at EXCEPT !["fast"] = "scanning"] /\ polled' = [polled EXCEPT !["fast"] = None]
    /\ UNCHANGED <<pool, scope, recorded, inFlight, waiting, cache, current, open, kept, failed,
                   windows, served>>

-----------------------------------------------------------------------------
(* Scanning a transaction (scan_and_record). *)

\* Mutant: one the other path is scanning, too.
ClaimedTwice(t, w) == {s \in DOMAIN w : scanned[t][s] # w[s]}
\* claim: neither done with this window nor being scanned.
Claimed(t, w) == {s \in DOMAIN w : scanned[t][s] # w[s] /\ <<t, s>> \notin inFlight}

\* The path's next transaction is t.
IsNext(p, t) == at[p] = "scanning" /\ current[p] = None /\ todo[p] # <<>> /\ t = Head(todo[p])

\* It is scanned for the stores of the windows w that are due; rest is what the
\* path goes on with.
Take(p, t, w, rest) ==
    LET mine == Claimed(t, Without(w, failed[p]))
    IN  /\ todo' = [todo EXCEPT ![p] = rest]
        /\ inFlight' = inFlight \cup {<<t, s>> : s \in mine}
        /\ open' = [open EXCEPT ![p] = [s \in mine |-> w[s]]]
        /\ current' = [current EXCEPT ![p] = IF mine = {} THEN None ELSE t]

\* tenant_page: the next stores with an order in scope, from the first one
\* again after the last.
Lowest(n, S) == {s \in S : Cardinality({r \in S : r < s}) < n}
TenantPage(from, active) ==
    LET next == Lowest(TenantsPerTx, {s \in active : s > from})
        full == Cardinality(next) = TenantsPerTx
    IN  [stores |-> IF full \/ from = 0 THEN next
                    ELSE next \cup Lowest(TenantsPerTx - Cardinality(next), active),
         next |-> IF full THEN CHOOSE s \in next : \A r \in next : r <= s ELSE 0]

\* The time may be up after any of them, the first one too.
RoundTake(t) ==
    /\ IsNext("round", t)
    /\ LET w == WindowsOf(scope)
           page == TenantPage(after[t], DOMAIN w)
       IN  /\ after' = [after EXCEPT ![t] = page.next]
           /\ \E rest \in {Tail(todo["round"]), <<>>} :
                 Take("round", t, Without(w, (DOMAIN w \ page.stores) \cup waiting), rest)
           /\ served' = served \cup {t}
    /\ UNCHANGED <<world, recorded, scanned, queue, waiting, cache, at, polled, kept, failed, windows>>

FastTake(t) ==
    /\ IsNext("fast", t)
    /\ Take("fast", t, windows, Tail(todo["fast"]))
    /\ UNCHANGED <<world, recorded, scanned, queue, after, waiting, cache, at, polled, kept, failed,
                   windows, served>>

Found(p, s) == {<<current[p], o>> : o \in Pays[current[p]] \cap open[p][s]}

\* Mutant: the one the store has by now.
WindowNow(p, s) == {o \in scope : StoreOf[o] = s}
ScannedWith(p, s) == open[p][s]

\* What was found is recorded, and the scan is remembered as done.
Complete(p, s) ==
    /\ s \in DOMAIN open[p]
    /\ recorded' = recorded \cup Found(p, s)
    /\ scanned' = [scanned EXCEPT ![current[p]][s] = ScannedWith(p, s)]
    /\ inFlight' = inFlight \ {<<current[p], s>>}
    /\ open' = [open EXCEPT ![p] = Without(@, {s})]
    /\ UNCHANGED <<world, queue, after, waiting, cache, at, polled, todo, current, kept, failed,
                   windows, served>>

Keep(p, s) ==
    /\ s \in DOMAIN open[p] /\ Surprise
    /\ open' = [open EXCEPT ![p] = Without(@, {s})]
    /\ kept' = [kept EXCEPT ![p] = @ \cup {s}]
    /\ UNCHANGED <<pool, scope, recorded, scanned, inFlight, queue, after, cache, at, polled, todo,
                   current, windows, served>>

\* The store's keys fail, and it may have to wait (Backoff::failed).
ScanFails(p, s) ==
    /\ Keep(p, s)
    /\ failed' = [failed EXCEPT ![p] = @ \cup {s}]
    /\ waiting' \in {waiting, waiting \cup {s}}

\* The database fails.
WriteFails(p, s) == Keep(p, s) /\ Found(p, s) # {} /\ UNCHANGED <<failed, waiting>>

Leases(p) == {<<current[p], s>> : s \in DOMAIN open[p] \cup kept[p]}

\* The leases that are left are dropped with the pass's claims on the transaction.
Release(p) ==
    /\ current[p] # None /\ open[p] = NoWindows
    /\ inFlight' = inFlight \ Leases(p)
    /\ kept' = [kept EXCEPT ![p] = {}] /\ current' = [current EXCEPT ![p] = None]
    /\ UNCHANGED <<world, recorded, scanned, queue, after, waiting, cache, at, polled, todo, open,
                   failed, windows, served>>

-----------------------------------------------------------------------------
(* The end of a pass. *)

Through(p) == at[p] = "scanning" /\ current[p] = None /\ todo[p] = <<>>

FastEnd ==
    /\ Through("fast")
    /\ at' = [at EXCEPT !["fast"] = "idle"] /\ failed' = [failed EXCEPT !["fast"] = {}]
    /\ windows' = NoWindows
    /\ UNCHANGED <<world, recorded, memory, cache, polled, todo, current, open, kept, served>>

\* PoolRotation::served
RoundEnd ==
    /\ Through("round")
    /\ at' = [at EXCEPT !["round"] = "idle"] /\ failed' = [failed EXCEPT !["round"] = {}]
    /\ queue' = Only(queue, Tx \ served) \o Only(queue, served) /\ served' = {}
    /\ UNCHANGED <<world, recorded, scanned, inFlight, after, waiting, cache, polled, todo, current,
                   open, kept, windows>>

\* A pass is dropped at its deadline, or its loop dies: one write it was
\* waiting for may still be made.
Abandon(p) ==
    /\ at[p] # "idle" /\ Surprise
    /\ \E done \in {{}} \cup {Found(p, s) : s \in DOMAIN open[p]} : recorded' = recorded \cup done
    /\ inFlight' = inFlight \ Leases(p)
    /\ at' = [at EXCEPT ![p] = "idle"] /\ polled' = [polled EXCEPT ![p] = None]
    /\ todo' = [todo EXCEPT ![p] = <<>>] /\ current' = [current EXCEPT ![p] = None]
    /\ open' = [open EXCEPT ![p] = NoWindows] /\ kept' = [kept EXCEPT ![p] = {}]
    /\ failed' = [failed EXCEPT ![p] = {}]
    /\ windows' = IF p = "fast" THEN NoWindows ELSE windows
    /\ served' = IF p = "round" THEN {} ELSE served
    /\ UNCHANGED <<pool, scope, scanned, queue, after, waiting, cache>>

\* The engine stops and starts again, and nothing is remembered.
Restart ==
    /\ Surprise
    /\ scanned' = [t \in Tx |-> Unscanned] /\ inFlight' = {}
    /\ queue' = <<>> /\ after' = [t \in Tx |-> 0] /\ cache' = None /\ waiting' = {}
    /\ at' = [p \in Path |-> "idle"] /\ polled' = [p \in Path |-> None]
    /\ windows' = NoWindows
    /\ todo' = [p \in Path |-> <<>>] /\ current' = [p \in Path |-> None]
    /\ open' = [p \in Path |-> NoWindows] /\ kept' = [p \in Path |-> {}]
    /\ failed' = [p \in Path |-> {}] /\ served' = {}
    /\ UNCHANGED <<pool, scope, recorded>>

Scanning(p) == Release(p) \/ \E s \in Store : Complete(p, s)

RoundStep ==
    \/ RoundAsk \/ RoundForgets \/ RoundSelect \/ Scanning("round") \/ RoundEnd
    \/ \E t \in Tx : RoundTake(t)
FastGoesOn == FastSelect \/ Scanning("fast") \/ FastEnd \/ \E t \in Tx : FastTake(t)

Next ==
    \/ RoundStep \/ FastAsk \/ FastGoesOn
    \/ \E t \in Tx : PoolChanges(t)
    \/ \E o \in Order : ScopeChanges(o)
    \/ \E s \in Store : Retry(s) \/ \E p \in Path : ScanFails(p, s) \/ WriteFails(p, s)
    \/ Restart \/ \E p \in Path : Abandon(p)

Spec == Init /\ [][Next]_vars

\* Rounds follow each other, and a fast pass that has begun ends; one may never
\* begin.
FairSpec ==
    /\ Spec /\ WF_vars(RoundStep) /\ WF_vars(FastGoesOn)
    /\ \A s \in Store : WF_vars(Retry(s))

-----------------------------------------------------------------------------

Window == {None} \cup SUBSET Order

TypeOK ==
    /\ pool \subseteq Tx /\ scope \subseteq Order /\ recorded \subseteq Tx \X Order
    /\ surprises \in 0..MaxSurprises
    /\ scanned \in [Tx -> [Store -> Window]] /\ inFlight \subseteq Tx \X Store
    /\ queue \in Seq(Tx) /\ IsInjective(queue)
    /\ after \in [Tx -> Store \cup {0}] /\ waiting \subseteq Store
    /\ polled \in [Path -> {None} \cup SUBSET Tx] /\ todo \in [Path -> Seq(Tx)]
    /\ current \in [Path -> Tx \cup {None}] /\ kept \in [Path -> SUBSET Store]
    /\ failed \in [Path -> SUBSET Store] /\ served \subseteq Tx
    /\ \A p \in Path : /\ DOMAIN open[p] \subseteq Store
                       /\ \A s \in DOMAIN open[p] : open[p][s] \in SUBSET Order

\* A transaction is scanned for a store by one path at a time, and is held by no
\* path that isn't scanning it, whichever fails, is dropped or forgets: else an
\* older window's scan could end after a newer one's, or a store never be
\* scanned again (ScanClaims).
OneOwner ==
    /\ Leases("fast") \cap Leases("round") = {}
    /\ inFlight = Leases("fast") \cup Leases("round")

\* A scan is remembered as done only when what it found is in the store: the
\* rotation passes over what is remembered (claims.complete).
DoneIsRecorded ==
    \A t \in Tx, s \in Store : scanned[t][s] # None =>
        \A o \in Pays[t] \cap scanned[t][s] : <<t, o>> \in recorded

\* Every payment that stays in the pool, to an order that stays in scope, is
\* seen in the end without any fast pass, though its window was stale when it
\* was first scanned, a store failed, or other transactions are withheld.
EventuallySeen ==
    <>[](\A t \in pool \ Withheld : \A o \in Pays[t] \cap scope : <<t, o>> \in recorded)
=============================================================================
