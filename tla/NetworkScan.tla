----------------------------- MODULE NetworkScan -----------------------------
(***************************************************************************)
(* The scanner of one Monero network (crates/engine/src/work): the chain   *)
(* tier, which compares the recorded blocks with the node's and reconciles *)
(* a reorganisation, the blocks tier, which records new blocks and the     *)
(* payments in them, the vanished-payment check of the settlement tier and *)
(* the void recheck of the upkeep tier.                                    *)
(*                                                                         *)
(* The tiers run one unit at a time.  A unit that asks the node and then   *)
(* writes is several steps here, since the node may change branch between  *)
(* its answer and the write: unit says what the running unit has been      *)
(* answered so far.  Everything else the tiers share is in the store.      *)
(***************************************************************************)
EXTENDS BlockTree, FiniteSets

CONSTANTS
    Tenant,         \* the stores of the network
    Owner,          \* Owner[x] is the store whose order x pays
    CheckDepth,     \* reorg_check_depth: how far back detection compares
    MaxAttempts,    \* MAX_CANDIDATE_ATTEMPTS
    Switches,       \* bound: the changes of tip <<from, to>> the node may make
    MaxMoves,       \* bound: how many changes of tip it makes
    MoveDuring,     \* bound: the kinds of unit it may make them in
    MaxFaults,      \* bound: how many calls fail and how often the process dies
    Ageing,         \* bound: the payments the voids of which may grow too old
    InPool, NotFound    \* TxLocation, beside a height

Switch(from) == {to \in Block : <<from, to>> \in Switches}

Job == [fork : 0..MaxHeight + 1,
        phase : {"collect_confirmed", "collect_unconfirmed", "process"},
        candidates : SUBSET Tx]

ASSUME ScanAssumption ==
    /\ Owner \in [Tx -> Tenant]
    /\ CheckDepth \in Nat /\ MaxAttempts \in Nat \ {0} /\ MaxMoves \in Nat /\ MaxFaults \in Nat
    /\ InPool \notin Height /\ NotFound \notin Height /\ None \notin {InPool, NotFound}
    /\ InPool # NotFound
    /\ None \notin Job /\ None \notin [height : Height \cup {None}, voided : BOOLEAN]

VARIABLES
    node, moves,    \* the tip of the node's chain, and how often it changed
    faults,         \* how many calls failed so far
    \* what a round keeps in memory
    tip,            \* the tip read at the round's start (None: no round yet)
    detected,       \* the chain was compared this round
    rewound,        \* a job was finished this round
    held,           \* a block fetched and not committed yet
    unit,           \* what the running unit has been answered so far
    \* the store
    scanned,        \* scanned_blocks: the recorded block of each height
    cursor,         \* tenants.scanned_through_height
    row,            \* order_payments: [height, voided], or None
    aged,           \* the voids older than DOUBLE_SPEND_RECHECK_WINDOW_SECS
    job,            \* reorg_jobs: [fork, phase, candidates], or None
    work,           \* reorg_work: the candidates left to re-examine
    attempts,       \* their failed lookups
    branch          \* the Reorg* scheduler positions: [height, block, fork], or None

round == <<tip, detected, rewound, held, unit>>
chainStore == <<scanned, cursor>>
jobStore == <<job, work, attempts, branch>>
payments == <<row, aged>>
vars == <<node, moves, faults, round, chainStore, payments, jobStore>>

-----------------------------------------------------------------------------
(* What a unit in progress knows. *)

Location == Height \cup {InPool, NotFound}
Purpose == {"job", "vanished", "recheck"}

Idle == [kind |-> "idle"]
Unit == [kind : {"idle", "extend", "phase"}]
        \cup [kind : {"open"}, fork : 0..MaxHeight + 1]
        \cup [kind : {"rewind"}, ancestor : Block \cup {None}]
        \cup [kind : {"located"}, why : Purpose, tx : Tx, at : Location]
        \cup [kind : {"judged"}, why : Purpose, tx : Tx, spent : BOOLEAN, by : Block]

TypeOK ==
    /\ node \in Block /\ moves \in 0..MaxMoves /\ faults \in 0..MaxFaults
    /\ tip \in Block \cup {None} /\ held \in Block \cup {None}
    /\ detected \in BOOLEAN /\ rewound \in BOOLEAN
    /\ unit \in Unit
    /\ scanned \in [Height -> Block \cup {None}]
    /\ cursor \in [Tenant -> Height \cup {None}]
    /\ row \in [Tx -> [height : Height \cup {None}, voided : BOOLEAN] \cup {None}]
    /\ aged \subseteq Tx
    /\ job \in Job \cup {None}
    /\ work \subseteq Tx
    /\ attempts \in [Tx -> 0..MaxAttempts - 1]
    /\ branch \in [height : Height, block : Block, fork : 0..MaxHeight + 1] \cup {None}

-----------------------------------------------------------------------------
(* Reads of the store. *)

Recorded == {h \in Height : scanned[h] # None}
IsHighWater(h) == h \in Recorded /\ \A k \in Recorded : k <= h
IsLowest(h) == h \in Recorded /\ \A k \in Recorded : k >= h

Rows == {x \in Tx : row[x] # None}
Valid(x) == row[x] # None /\ ~row[x].voided

\* The stores that scan block b next.
AtParent(b) == {t \in Tenant : cursor[t] # None /\ cursor[t] + 1 = Depth[b]}

\* Rows the height of which counts (payments_at_height and
\* payment_claims_height_above leave voided rows out).
ClaimAt(h) == {x \in Tx : Valid(x) /\ row[x].height = h}
ClaimAbove(h) == \E x \in Tx : Valid(x) /\ row[x].height # None /\ row[x].height > h

\* update_payment_block_height: leaves a voided row alone.
WithHeight(r, h) == IF r = None \/ r.voided THEN r ELSE [r EXCEPT !.height = h]

-----------------------------------------------------------------------------
(* The node's answers. *)

NodeAt(h) == IF h \in Height THEN Chain[node][h] ELSE None
TipHeight == Depth[tip]

\* A transaction in no block may be in the pool, unless its inputs are spent.
Locations(x) ==
    IF MinedIn(node, x) THEN {MinedAt(node, x)}
    ELSE IF RivalIn(node, x) THEN {NotFound}
    ELSE {InPool, NotFound}

-----------------------------------------------------------------------------

Init ==
    /\ node \in Block /\ Depth[node] = 1 /\ moves = 0 /\ faults = 0
    /\ tip = None /\ detected = FALSE /\ rewound = FALSE /\ held = None /\ unit = Idle
    /\ scanned = [h \in Height |-> None]
    /\ cursor = [t \in Tenant |-> None]
    /\ row = [x \in Tx |-> None] /\ aged = {}
    /\ job = None /\ work = {} /\ attempts = [x \in Tx |-> 0] /\ branch = None

\* The node extends, loses or replaces blocks of its chain.
NodeMoves ==
    /\ moves < MaxMoves
    /\ unit.kind \in MoveDuring
    /\ node' \in Switch(node)
    /\ moves' = moves + 1
    /\ UNCHANGED <<faults, round, chainStore, payments, jobStore>>

\* Blocks fetched and not committed are kept for the next round where the chain
\* counts as settled (carry), unless the client may ask another node each call.
Carried ==
    IF /\ held # None /\ tip # None /\ ~rewound /\ job = None
       /\ Depth[held] + CheckDepth <= TipHeight
       /\ AtParent(held) # {} \/ \A h \in Recorded : h < Depth[held]
    THEN {held, None} ELSE {None}

\* A round starts by reading the node's tip.
BeginRound ==
    /\ unit = Idle
    /\ tip' = node /\ detected' = FALSE /\ rewound' = FALSE /\ held' \in Carried
    /\ UNCHANGED <<node, moves, faults, unit, chainStore, payments, jobStore>>

Fault == faults < MaxFaults /\ faults' = faults + 1

\* The process dies, or the round is dropped between two database jobs.
Crash ==
    /\ Fault
    /\ tip' = None /\ detected' = FALSE /\ rewound' = FALSE /\ held' = None
    /\ unit' = Idle
    /\ UNCHANGED <<node, moves, chainStore, payments, jobStore>>

\* A call of the node or the database fails: the unit ends with nothing more
\* written, and what it had been answered is forgotten.
UnitFails ==
    /\ Fault
    /\ unit # Idle
    /\ unit' = Idle
    /\ UNCHANGED <<node, moves, tip, detected, rewound, held, chainStore, payments, jobStore>>

-----------------------------------------------------------------------------
(* The chain tier: detection (Chain::detect). *)

\* pending_branch_fork: the branch the last job settled on is followed until
\* the scan records it.
BranchScanned == branch # None /\ scanned[branch.height] = branch.block
BranchHolds == branch.height <= TipHeight /\ NodeAt(branch.height) = branch.block
BranchCovered == \E h \in Recorded : h >= branch.height

PendingFork ==
    IF job = None /\ branch # None /\ ~BranchScanned /\ ~BranchHolds THEN {branch.fork} ELSE {}

DetectClearsBranch == job = None /\ branch # None /\ (BranchScanned \/ (BranchHolds /\ BranchCovered))

\* A payment claims a block above a tip that no recorded block is above.
ClaimedFork ==
    IF (\A h \in Recorded : h <= TipHeight) /\ ClaimAbove(TipHeight) THEN {TipHeight + 1} ELSE {}

\* The recorded blocks compared: down to CheckDepth below the highest both have.
Window == {h \in Recorded :
              /\ h <= TipHeight
              /\ \A top \in Recorded : IsHighWater(top) /\ top <= TipHeight => h >= top - CheckDepth
              /\ (\E top \in Recorded : top > TipHeight) => h >= TipHeight - CheckDepth}

\* The tip's own hash came with the tip, at the round's start.
Agrees(h) == (IF h = TipHeight THEN tip ELSE NodeAt(h)) = scanned[h]

\* The binary search's answer: the lowest compared height that disagrees, if
\* the highest one does.  A single row is looked up once more.
Diverges(h) ==
    /\ ~Agrees(h)
    /\ \A k \in Window : k < h => Agrees(k)
    /\ \A k \in Window : k > h => ~Agrees(k)
RecordedFork ==
    {IF Window = {h} /\ NodeAt(h) = scanned[h] THEN h + 1 ELSE h :
        h \in {k \in Window : Diverges(k)}}

Forks == PendingFork \cup ClaimedFork \cup RecordedFork

\* The heights asked about: none when the tip read is the recorded block.
Asked ==
    (IF job = None /\ branch # None /\ ~BranchScanned /\ branch.height <= TipHeight
     THEN {branch.height} ELSE {})
    \cup (IF \E h \in Window : h = TipHeight /\ scanned[h] = tip
          THEN {} ELSE Window \ {TipHeight})

\* Once a round.  Detection that fails (DetectFails) waits for the next one.
Detect ==
    /\ unit = Idle /\ tip # None /\ ~detected
    /\ \A h \in Asked : NodeAt(h) # None
    /\ detected' = TRUE
    /\ branch' = IF DetectClearsBranch THEN None ELSE branch
    /\ \E forks \in {Forks} :
          \/ forks = {} /\ unit' = Idle
          \/ \E f \in forks : /\ \A g \in forks : f <= g
                             /\ unit' = [kind |-> "open", fork |-> f]
    /\ UNCHANGED <<node, moves, faults, tip, rewound, held, chainStore, payments, job, work, attempts>>

DetectFails ==
    /\ Fault
    /\ unit = Idle /\ tip # None /\ ~detected
    /\ detected' = TRUE
    /\ UNCHANGED <<node, moves, tip, rewound, held, unit, chainStore, payments, jobStore>>

NewJob(fork, candidates) ==
    [fork |-> fork, phase |-> "collect_confirmed", candidates |-> candidates]

\* Store::open_reorg_job: created, deepened, or covered by the open job.
OpenJob ==
    /\ unit.kind = "open"
    /\ unit' = Idle
    /\ \/ /\ job = None
          /\ job' = NewJob(unit.fork, Rows) /\ branch' = None
       \/ /\ job # None /\ unit.fork < job.fork
          /\ job' = NewJob(unit.fork, Rows \cup job.candidates) /\ branch' = None
       \/ /\ job # None /\ unit.fork >= job.fork
          /\ UNCHANGED <<job, branch>>
    /\ UNCHANGED <<node, moves, faults, tip, detected, rewound, held, chainStore, payments, work, attempts>>

-----------------------------------------------------------------------------
(* The chain tier: one unit of the open job (Chain::advance_job).  First   *)
(* the branch the candidates were re-examined on is looked up again.       *)

JobUnit == unit = Idle /\ tip # None /\ detected /\ job # None

\* restart_reorg_for_branch
RestartForBranch ==
    /\ JobUnit
    /\ ~(branch # None /\ BranchHolds)
    /\ branch # None /\ branch.height <= TipHeight => NodeAt(branch.height) # None
    /\ NodeAt(TipHeight) # None
    /\ job' = NewJob(job.fork, Rows \cup job.candidates)
    /\ work' = {} /\ attempts' = [x \in Tx |-> 0]
    /\ branch' = [height |-> TipHeight, block |-> NodeAt(TipHeight), fork |-> job.fork]
    /\ unit' = [kind |-> "phase"]
    /\ UNCHANGED <<node, moves, faults, tip, detected, rewound, held, chainStore, payments>>

CheckBranch ==
    /\ JobUnit
    /\ branch # None /\ BranchHolds
    /\ unit' = [kind |-> IF branch.height < TipHeight THEN "extend" ELSE "phase"]
    /\ UNCHANGED <<node, moves, faults, tip, detected, rewound, held, chainStore, payments, jobStore>>

\* extend_reorg_branch: the tip's hash is a second answer of the node.
ExtendBranch ==
    /\ unit.kind = "extend"
    /\ NodeAt(TipHeight) # None
    /\ branch' = [height |-> TipHeight, block |-> NodeAt(TipHeight), fork |-> job.fork]
    /\ unit' = [kind |-> "phase"]
    /\ UNCHANGED <<node, moves, faults, tip, detected, rewound, held, chainStore, payments, job, work, attempts>>

\* collect_reorg_candidates: the payments at or above the fork, then those in
\* no block (voided ones too).  Each kind fits one page (COLLECT_PAGE).
Collect ==
    /\ unit.kind = "phase"
    /\ \/ /\ job.phase = "collect_confirmed"
          /\ work' = work \cup {x \in job.candidates : row[x].height # None /\ row[x].height >= job.fork}
          /\ job' = [job EXCEPT !.phase = "collect_unconfirmed"]
       \/ /\ job.phase = "collect_unconfirmed"
          /\ work' = work \cup {x \in job.candidates : row[x].height = None}
          /\ job' = [job EXCEPT !.phase = "process"]
    /\ unit' = Idle
    /\ UNCHANGED <<node, moves, faults, tip, detected, rewound, held, chainStore, payments, attempts, branch>>

\* process_page asks where a candidate's transaction is.
LocateCandidate ==
    /\ unit.kind = "phase" /\ job.phase = "process"
    /\ \E x \in work : \E at \in Locations(x) :
          unit' = [kind |-> "located", why |-> "job", tx |-> x, at |-> at]
    /\ UNCHANGED <<node, moves, faults, tip, detected, rewound, held, chainStore, payments, jobStore>>

\* Mutant: one failure too many before giving up.
GivesUpLate(x) == attempts[x] >= MaxAttempts
GivesUp(x) == attempts[x] + 1 >= MaxAttempts

\* The node fails for a candidate, asked where it is or whether its inputs
\* are spent: it is deferred, and after MaxAttempts failures given up on, out
\* of its block.
CandidateFails ==
    /\ Fault
    /\ \/ unit.kind = "phase" /\ job.phase = "process"
       \/ unit.kind = "located" /\ unit.why = "job"
    /\ \E x \in IF unit.kind = "phase" THEN work ELSE {unit.tx} :
          \/ /\ ~GivesUp(x)
             /\ attempts' = [attempts EXCEPT ![x] = @ + 1]
             /\ UNCHANGED <<work, row>>
          \/ /\ GivesUp(x)
             /\ row' = [row EXCEPT ![x] = WithHeight(@, None)]
             /\ work' = work \ {x}
             /\ attempts' = [attempts EXCEPT ![x] = 0]
    /\ unit' = Idle
    /\ UNCHANGED <<node, moves, tip, detected, rewound, held, chainStore, aged, job, branch>>

\* Chain::rewind reads the common ancestor's hash.
AskAncestor ==
    /\ unit.kind = "phase" /\ job.phase = "process" /\ work = {}
    /\ job.fork > 0 => NodeAt(job.fork - 1) # None
    /\ unit' = [kind |-> "rewind",
                ancestor |-> IF job.fork = 0 THEN None ELSE NodeAt(job.fork - 1)]
    /\ UNCHANGED <<node, moves, faults, tip, detected, rewound, held, chainStore, payments, jobStore>>

\* clamp_cursors, to the common ancestor.  Mutant: the cursors stay.
Unclamped(top, ancestor) == cursor
Clamped(top, ancestor) ==
    [t \in Tenant |->
        IF ancestor = None THEN None
        ELSE IF cursor[t] # None /\ cursor[t] > top THEN top
        ELSE cursor[t]]

\* finish_reorg
FinishJob ==
    /\ unit.kind = "rewind"
    /\ job # None /\ job.phase = "process" /\ work = {}
    /\ LET kept == [h \in Height |-> IF h >= job.fork THEN None ELSE scanned[h]]
           empty == \A h \in Height : kept[h] = None
           top == job.fork - 1
       IN  /\ scanned' = IF empty /\ unit.ancestor # None
                         THEN [kept EXCEPT ![top] = unit.ancestor] ELSE kept
           /\ cursor' = Clamped(top, unit.ancestor)
    /\ branch' = IF unit.ancestor = None THEN None ELSE branch
    /\ job' = None /\ rewound' = TRUE /\ held' = None
    /\ unit' = Idle
    /\ UNCHANGED <<node, moves, faults, tip, detected, payments, work, attempts>>

-----------------------------------------------------------------------------
(* Looking a payment's transaction up: for the job, for the vanished       *)
(* payments (check_vanished_candidates) and for the voided ones            *)
(* (recheck_voided_payment).                                               *)

StartLookup(x, why) ==
    /\ unit = Idle /\ tip # None
    /\ \E at \in Locations(x) :
          unit' = [kind |-> "located", why |-> why, tx |-> x, at |-> at]
    /\ UNCHANGED <<node, moves, faults, tip, detected, rewound, held, chainStore, payments, jobStore>>

CheckVanished(x) == Valid(x) /\ row[x].height = None /\ StartLookup(x, "vanished")

Voided(x) == row[x] # None /\ row[x].voided

\* x was voided longer ago than voids are rechecked for.  (A unit that has read it
\* by then does as it would have done before.)
VoidAges(x) ==
    /\ unit = Idle
    /\ Voided(x) /\ x \in Ageing \ aged
    /\ aged' = aged \cup {x}
    /\ UNCHANGED <<node, moves, faults, round, chainStore, row, jobStore>>

\* The voids whose row a unit doesn't change.
StillVoided == {x \in aged : row'[x] = row[x]}

\* Mutant: only voided payments that have a height, which none has.
RecheckMinedVoid(x) ==
    Voided(x) /\ x \notin aged /\ row[x].height # None /\ StartLookup(x, "recheck")
RecheckVoid(x) == Voided(x) /\ x \notin aged /\ StartLookup(x, "recheck")

\* Whether the key images matter: of a payment that is nowhere, or of a void
\* whose transaction is in no block.
NeedsProof ==
    \/ unit.why = "job" /\ unit.at = NotFound /\ ~row[unit.tx].voided
    \/ unit.why = "vanished" /\ unit.at = NotFound
    \/ unit.why = "recheck" /\ unit.at \notin Height

\* is_key_image_spent_corroborated: spent in a block, by whichever transaction.
AskKeyImages ==
    /\ unit.kind = "located" /\ NeedsProof
    /\ unit' = [kind |-> "judged", why |-> unit.why, tx |-> unit.tx,
                spent |-> SpentIn(node, unit.tx), by |-> node]
    /\ UNCHANGED <<node, moves, faults, tip, detected, rewound, held, chainStore, payments, jobStore>>

\* What the candidate's outcome does, with its removal from the job's work.
Complete(why, x) ==
    IF why = "job"
    THEN work' = work \ {x} /\ attempts' = [attempts EXCEPT ![x] = 0]
    ELSE UNCHANGED <<work, attempts>>

\* A location that settles the matter: decide's Move, Restore and Keep, the
\* vanished payment found in a block, the void reversed by a block.
ApplyLocation ==
    /\ unit.kind = "located" /\ ~NeedsProof
    /\ LET x == unit.tx IN
       /\ Complete(unit.why, x)
       /\ row' = CASE unit.at \in Height ->
                        [row EXCEPT ![x] = [height |-> unit.at, voided |-> FALSE]]
                   [] unit.at \notin Height /\ unit.why = "job" ->
                        [row EXCEPT ![x] = WithHeight(@, None)]
                   [] OTHER -> row
    /\ aged' = StillVoided
    /\ unit' = Idle
    /\ UNCHANGED <<node, moves, faults, tip, detected, rewound, held, chainStore, job, branch>>

\* Spent: the payment is voided and loses its height (void_and_notify_in_tx).
\* Not spent: it is in no block; a void is reversed (unvoid_as_false_positive),
\* unless the pool spends its inputs.
ApplyProof ==
    /\ unit.kind = "judged"
    /\ LET x == unit.tx IN
       /\ Complete(unit.why, x)
       /\ \/ /\ unit.why # "recheck" /\ unit.spent
             /\ row' = [row EXCEPT ![x] = [height |-> None, voided |-> TRUE]]
          \/ /\ unit.why = "job" /\ ~unit.spent
             /\ row' = [row EXCEPT ![x] = WithHeight(@, None)]
          \/ /\ unit.why = "recheck" /\ ~unit.spent
             /\ row' = [row EXCEPT ![x] = [height |-> None, voided |-> FALSE]]
          \/ /\ (unit.why = "vanished" /\ ~unit.spent) \/ unit.why = "recheck"
             /\ UNCHANGED row
    /\ aged' = StillVoided
    /\ unit' = Idle
    /\ UNCHANGED <<node, moves, faults, tip, detected, rewound, held, chainStore, job, branch>>

-----------------------------------------------------------------------------
(* The blocks tier. *)

BlocksUnit == unit = Idle /\ tip # None /\ ~rewound /\ job = None

\* The repairs at the start of a unit: no cursor above the high-water mark,
\* unset ones at it.
Repaired(top) ==
    [t \in Tenant |-> IF cursor[t] = None \/ cursor[t] > top THEN top ELSE cursor[t]]

\* First run: just below the tip (seed).
Seed ==
    /\ BlocksUnit /\ Recorded = {}
    /\ LET h == IF TipHeight = 0 THEN 0 ELSE TipHeight - 1 IN
       /\ NodeAt(h) # None
       /\ scanned' = [scanned EXCEPT ![h] = NodeAt(h)]
       /\ cursor' = [t \in Tenant |-> IF cursor[t] = None THEN h ELSE cursor[t]]
    /\ UNCHANGED <<node, moves, faults, round, payments, jobStore>>

\* The next block for the stores at the high-water mark, or for a group
\* that is behind it.
FetchBlock(h) ==
    /\ BlocksUnit /\ held = None
    /\ \E top \in Recorded :
          /\ IsHighWater(top)
          /\ cursor' = Repaired(top)
          /\ \/ h = top + 1 /\ h <= TipHeight
             \/ h <= top /\ \E t \in Tenant : cursor'[t] = h - 1
    /\ NodeAt(h) # None
    /\ held' = NodeAt(h)
    /\ UNCHANGED <<node, moves, faults, tip, detected, rewound, unit, scanned, payments, jobStore>>

\* The recorded chain the commit checks the block against.  Mutant: only
\* the block's own height.
ExtendsHeight(b) == scanned[Depth[b]] \in {None, b}
Extends(b) ==
    /\ Parent(b) # None => scanned[Depth[b] - 1] \in {None, Parent(b)}
    /\ scanned[Depth[b]] \in {None, b}

\* Mutants: the payments that claim the block's height are not looked at; a
\* payment already in the store is not updated.
RowsUnchecked(b, S) ==
    [x \in Tx |-> IF x \in Holds[b] /\ Owner[x] \in S
                  THEN IF row[x] = None THEN [height |-> Depth[b], voided |-> FALSE]
                       ELSE WithHeight(row[x], Depth[b])
                  ELSE row[x]]
RowsInserted(b, S) ==
    [x \in Tx |-> IF x \in Holds[b] /\ Owner[x] \in S /\ row[x] = None
                  THEN [height |-> Depth[b], voided |-> FALSE] ELSE row[x]]

\* The rows after block b is committed for the stores S: a payment that
\* claims the height without being in the block loses it, one found is
\* recorded there.
RowsAfter(b, S) ==
    [x \in Tx |->
        LET r == IF x \in ClaimAt(Depth[b]) /\ x \notin Holds[b] THEN WithHeight(row[x], None) ELSE row[x]
        IN  IF x \in Holds[b] /\ Owner[x] \in S
            THEN IF r = None THEN [height |-> Depth[b], voided |-> FALSE]
                 ELSE WithHeight(r, Depth[b])
            ELSE r]

\* advance_scanned_cursors.
Advanced(b, S) == [t \in Tenant |-> IF t \in S THEN Depth[b] ELSE cursor[t]]

\* blocks::commit, for the stores S whose scan went through (a store whose
\* keys failed stays behind).  A block that doesn't extend the recorded
\* chain is dropped.
CommitBlock(S) ==
    /\ BlocksUnit /\ held # None
    /\ held' = None
    /\ S \subseteq AtParent(held)
    /\ \/ /\ Extends(held)
          /\ S # {} \/ \A h \in Recorded : h < Depth[held]
          /\ cursor' = Advanced(held, S)
          /\ row' = RowsAfter(held, S)
          /\ scanned' = IF scanned[Depth[held]] = None /\ \E h \in Recorded : IsHighWater(h) /\ h + 1 = Depth[held]
                        THEN [scanned EXCEPT ![Depth[held]] = held] ELSE scanned
       \/ /\ ~Extends(held)
          /\ UNCHANGED <<chainStore, row>>
    /\ UNCHANGED <<node, moves, faults, tip, detected, rewound, unit, aged, jobStore>>

\* The mempool tier and the fast path see the transaction in the pool.
RecordPool(x) ==
    /\ row[x] = None
    /\ row' = [row EXCEPT ![x] = [height |-> None, voided |-> FALSE]]
    /\ UNCHANGED <<node, moves, faults, round, chainStore, aged, jobStore>>

-----------------------------------------------------------------------------

ChainTier ==
    \/ Detect \/ DetectFails \/ OpenJob \/ RestartForBranch \/ CheckBranch \/ ExtendBranch
    \/ Collect \/ LocateCandidate \/ CandidateFails \/ AskAncestor \/ FinishJob

Next ==
    \/ NodeMoves \/ BeginRound \/ Crash \/ UnitFails
    \/ ChainTier
    \/ Seed
    \/ \E h \in Height : FetchBlock(h)
    \/ \E S \in SUBSET Tenant : CommitBlock(S)
    \/ AskKeyImages \/ ApplyLocation \/ ApplyProof
    \/ \E x \in Tx : CheckVanished(x) \/ RecheckVoid(x) \/ VoidAges(x) \/ RecordPool(x)

Spec == Init /\ [][Next]_vars

\* The rest of a unit that began, when nothing fails.
UnitContinues ==
    OpenJob \/ ExtendBranch \/ Collect \/ LocateCandidate \/ AskAncestor \/ FinishJob
    \/ AskKeyImages \/ ApplyLocation \/ ApplyProof

\* The failures over (MaxFaults), a unit that began ends; rounds follow each
\* other and each gives every tier a unit (Scheduler), so that what a tier
\* could do again and again it does (a void is rechecked in every pass that starts
\* before it has aged).  The disjuncts of one conjunct exclude
\* each other: a job is open or blocks are committed, a payment is voided or
\* it isn't.
Fairness ==
    /\ WF_vars(UnitContinues)
    /\ SF_vars(BeginRound)
    /\ SF_vars(Detect)
    /\ SF_vars(RestartForBranch \/ CheckBranch \/ Seed
               \/ (held # None /\ CommitBlock(AtParent(held))))
    /\ SF_vars(\E h \in Height : FetchBlock(h))
    /\ \A x \in Tx : SF_vars(CheckVanished(x) \/ RecheckVoid(x))

FairSpec == Spec /\ Fairness

-----------------------------------------------------------------------------
(* Safety. *)

\* The recorded blocks are a chain without gaps: whatever branch the node
\* follows between a block's fetch and its commit (scan_block, commit) and
\* wherever a rewind stops (finish_reorg), no block is recorded above one
\* that isn't its parent.
RecordedChain ==
    /\ \A h \in Recorded : Depth[scanned[h]] = h
    /\ \A h \in Recorded : \A k \in Recorded : \A m \in Height :
          k <= m /\ m <= h => m \in Recorded
    /\ \A h \in Recorded : h - 1 \in Recorded => Parent(scanned[h]) = scanned[h - 1]

\* No store has scanned past what the network recorded: a cursor is at a
\* recorded height or below it (clamp_cursors in finish_reorg, commit).
CursorsRecorded ==
    \A t \in Tenant : cursor[t] # None => \E h \in Recorded : cursor[t] <= h

\* The node's chain still has the highest recorded block.
NodeAgrees == \A top \in Recorded : IsHighWater(top) => NodeAt(top) = scanned[top]

\* x is in the block recorded at h, and its store has scanned that.
ScannedAt(x, h) ==
    /\ cursor[Owner[x]] # None /\ h <= cursor[Owner[x]]
    /\ ~IsLowest(h)
    /\ x \in Holds[scanned[h]]

NoneForgotten == \A x \in Tx : \A h \in Recorded : ScannedAt(x, h) => row[x] # None

\* Every payment in a recorded block that its store has scanned is in the
\* store; and while no reorganisation is open and the node has the recorded
\* blocks, it is counted from that block unless it was voided (commit,
\* finish_reorg).  One that was given up on is the exception (ForgetsFound), till
\* the vanished-payment check finds it again.
NoMissedPayment ==
    /\ NoneForgotten
    /\ job = None /\ NodeAgrees =>
          \A x \in Tx : \A h \in Recorded : ScannedAt(x, h) => row[x].voided \/ row[x].height = h

\* While no reorganisation is open and the node has the recorded blocks, a
\* payment counted from a recorded height is in the block recorded there: no
\* confirmation is counted from a block that doesn't hold the payment (the
\* check of payments_at_height in commit; update_payment_block_height).
HeightIsRecorded ==
    \A x \in Tx : \A h \in Recorded :
        (/\ job = None /\ unit = Idle /\ NodeAgrees
         /\ Valid(x) /\ row[x].height = h /\ ~IsLowest(h))
        => x \in Holds[scanned[h]]

-----------------------------------------------------------------------------
(* What HeightIsRecorded and NoMissedPayment need of the node and of the   *)
(* failures, for every instance.                                           *)

OnChain(n, b) == Chain[n][Depth[b]] = b

\* The tips the node may come to from n.
After(n) == {m \in Block : \A S \in SUBSET Block :
                (n \in S /\ \A s \in S : Switch(s) \subseteq S) => m \in S}

\* The node never returns to a block it left.
NeverReturns ==
    \A from \in Block : \A to \in Switch(from) : \A b \in Block :
        OnChain(from, b) /\ ~OnChain(to, b) => \A n \in After(to) : ~OnChain(n, b)

\* A candidate is given up on that was found below the job's fork after it
\* had been collected: it loses the height of a block that stays recorded
\* ("its height is from the discarded chain", which this one's isn't).
ForgetsFound ==
    /\ CandidateFails
    /\ \E x \in Tx : /\ Valid(x) /\ row[x].height # None /\ row[x].height < job.fork
                     /\ row'[x].height = None

-----------------------------------------------------------------------------
(* Liveness. *)

\* Counted from a block no later than the first one recorded: detection
\* leaves such payments alone.
BeforeScan(x) ==
    Valid(x) /\ row[x].height # None /\ \E h \in Recorded : IsLowest(h) /\ row[x].height <= h

\* The store says what the node's chain says: it recorded the chain, every
\* store has scanned it, and a payment is counted exactly from the block that
\* has it, whatever it was voided or moved for on the way; one the inputs of
\* which another transaction spent is voided.  Except for what was voided longer
\* ago than voids are rechecked for: only the job of another reorganisation
\* looks at that again.
Converged ==
    /\ job = None /\ Recorded # {}
    /\ \A h \in Recorded : IsHighWater(h) => h = Depth[node] /\ \A t \in Tenant : cursor[t] = h
    /\ \A h \in Recorded : scanned[h] = NodeAt(h)
    /\ \A x \in Tx : \/ BeforeScan(x)
                     \/ x \in aged
                     \/ /\ MinedIn(node, x)
                        /\ \/ row[x] = [height |-> MinedAt(node, x), voided |-> FALSE]
                           \/ row[x] = None /\ \E h \in Recorded : IsLowest(h) /\ MinedAt(node, x) <= h
                     \/ /\ ~MinedIn(node, x)
                        /\ row[x] # None => row[x].height = None /\ (RivalIn(node, x) => row[x].voided)

\* Once the node's chain stays as it is, the store comes to agree with it for
\* good, through failing lookups, crashes and given-up candidates
\* (pending_branch_fork, check_vanished_candidates, recheck_voided_payment).
EventuallyConverged == <>[]Converged

=============================================================================
