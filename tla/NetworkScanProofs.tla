-------------------------- MODULE NetworkScanProofs --------------------------
(***************************************************************************)
(* For every tree of blocks, every set of stores and payments and every    *)
(* bound: the types, that the recorded blocks are a chain, that no store   *)
(* has scanned past it, and that no payment in it is forgotten.  And for   *)
(* every node that never returns to a block it left: from which block a    *)
(* payment is counted.                                                     *)
(***************************************************************************)
EXTENDS NetworkScan, TLAPS, NaturalsInduction, WellFoundedInduction

\* A block the node answers with is at the height it was asked for.
LEMMA NodeAnswers ==
    ASSUME TypeOK, NEW h \in Height, NodeAt(h) # None
    PROVE  NodeAt(h) \in Block /\ Depth[NodeAt(h)] = h
BY HeightAssumption, ChainAssumption DEF TypeOK, NodeAt, Height

LEMMA DepthIsHeight ==
    ASSUME NEW b \in Block PROVE Depth[b] \in Height
BY ChainAssumption DEF Height

BranchType == [height : Height, block : Block, fork : 0..MaxHeight + 1] \cup {None}

RowType == [height : Height \cup {None}, voided : BOOLEAN] \cup {None}

LEMMA WithHeightType ==
    ASSUME NEW r \in RowType, NEW h \in Height \cup {None}
    PROVE  WithHeight(r, h) \in RowType
BY DEF WithHeight, RowType

LEMMA NewRowType ==
    ASSUME NEW h \in Height \cup {None}, NEW v \in BOOLEAN
    PROVE  [height |-> h, voided |-> v] \in RowType
BY DEF RowType

\* Where the node says a transaction is.
LEMMA LocationsAreLocations ==
    ASSUME TypeOK, NEW x \in Tx PROVE Locations(x) \subseteq Location
<1>1. MinedIn(node, x) => MinedAt(node, x) \in Height
  BY DEF MinedIn, MinedAt
<1>2. QED
  BY <1>1 DEF Locations, Location

\* What the running unit may rely on: a unit of the job has a job and a tip,
\* and the ancestor it read is just below the job's fork.
UnitOK ==
    /\ unit.kind \in {"extend", "phase", "rewind"} => job # None /\ tip # None
    /\ (unit.kind = "located" /\ unit.why = "job") => job # None
    /\ (unit.kind = "rewind" /\ unit.ancestor # None)
          => job.fork - 1 \in Height /\ Depth[unit.ancestor] = job.fork - 1
    /\ (unit.kind = "rewind" /\ unit.ancestor = None) => job.fork = 0

LEMMA TypeStep ==
    ASSUME TypeOK, UnitOK, [Next]_vars PROVE TypeOK'
<1> USE HeightAssumption, ScanAssumption
<1>1. CASE NodeMoves
  BY <1>1 DEF NodeMoves, Switch, TypeOK, round, chainStore, payments, jobStore
<1>2. CASE BeginRound
  BY <1>2 DEF BeginRound, Carried, TypeOK, chainStore, payments, jobStore
<1>3. CASE Crash \/ UnitFails
  <2>1. unit' \in Unit
    BY <1>3 DEF Crash, UnitFails, Unit, Idle
  <2>2. faults' \in 0..MaxFaults
    BY <1>3 DEF Crash, UnitFails, Fault, TypeOK
  <2>3. QED
    BY <1>3, <2>1, <2>2 DEF Crash, UnitFails, TypeOK, chainStore, payments, jobStore
<1>4. CASE DetectFails
  BY <1>4 DEF DetectFails, Fault, TypeOK, chainStore, payments, jobStore
<1>5. CASE Detect
  <2>1. Forks \subseteq 0..MaxHeight + 1
    <3>1. PendingFork \subseteq 0..MaxHeight + 1
      BY DEF PendingFork, TypeOK
    <3>2. ClaimedFork \subseteq 0..MaxHeight + 1
      BY <1>5, DepthIsHeight DEF ClaimedFork, TipHeight, Detect, TypeOK, Height
    <3>3. RecordedFork \subseteq 0..MaxHeight + 1
      BY DEF RecordedFork, Window, Recorded, Height
    <3>4. QED
      BY <3>1, <3>2, <3>3 DEF Forks
  <2>2. unit' \in Unit
    BY <1>5, <2>1 DEF Detect, Unit, Idle
  <2>3. QED
    BY <1>5, <2>2 DEF Detect, TypeOK, chainStore, payments
<1>6. CASE OpenJob
  <2>1. unit.fork \in 0..MaxHeight + 1
    BY <1>6 DEF OpenJob, TypeOK, Unit
  <2>2. job' \in Job \cup {None} /\ branch' \in BranchType
    BY <1>6, <2>1 DEF OpenJob, NewJob, Rows, TypeOK, Job, BranchType
  <2>3. unit' \in Unit
    BY <1>6 DEF OpenJob, Unit, Idle
  <2>4. QED
    BY <1>6, <2>2, <2>3 DEF OpenJob, TypeOK, BranchType, chainStore, payments
<1>7. CASE RestartForBranch
  <2>1. job' \in Job \cup {None}
    BY <1>7 DEF RestartForBranch, JobUnit, NewJob, Rows, TypeOK, Job
  <2>2. branch' \in BranchType
    BY <1>7, DepthIsHeight, NodeAnswers
       DEF RestartForBranch, JobUnit, TipHeight, TypeOK, BranchType, Job
  <2>3. unit' \in Unit
    BY <1>7 DEF RestartForBranch, Unit
  <2>4. attempts' \in [Tx -> 0..MaxAttempts - 1] /\ work' \subseteq Tx
    BY <1>7 DEF RestartForBranch
  <2>5. QED
    BY <1>7, <2>1, <2>2, <2>3, <2>4 DEF RestartForBranch, TypeOK, BranchType, chainStore, payments
<1>8. CASE CheckBranch
  <2>1. unit' \in Unit
    BY <1>8 DEF CheckBranch, Unit
  <2>2. QED
    BY <1>8, <2>1 DEF CheckBranch, TypeOK, chainStore, payments, jobStore
<1>9. CASE ExtendBranch
  <2>1. branch' \in BranchType
    BY <1>9, DepthIsHeight, NodeAnswers
       DEF ExtendBranch, TipHeight, UnitOK, TypeOK, BranchType, Job
  <2>2. unit' \in Unit
    BY <1>9 DEF ExtendBranch, Unit
  <2>3. QED
    BY <1>9, <2>1, <2>2 DEF ExtendBranch, TypeOK, BranchType, chainStore, payments
<1>10. CASE Collect
  <2>1. job' \in Job \cup {None} /\ work' \subseteq Tx
    BY <1>10 DEF Collect, UnitOK, TypeOK, Job
  <2>2. unit' \in Unit
    BY <1>10 DEF Collect, Unit, Idle
  <2>3. QED
    BY <1>10, <2>1, <2>2 DEF Collect, TypeOK, Job, chainStore, payments
<1>11. CASE LocateCandidate
  <2>1. \A x \in Tx : Locations(x) \subseteq Location
    BY LocationsAreLocations
  <2>2. unit' \in Unit
    BY <1>11, <2>1 DEF LocateCandidate, TypeOK, Unit, Purpose
  <2>3. QED
    BY <1>11, <2>2 DEF LocateCandidate, TypeOK, chainStore, payments, jobStore
<1>12. CASE CandidateFails
  <2>1. PICK x \in Tx :
          \/ /\ ~GivesUp(x)
             /\ attempts' = [attempts EXCEPT ![x] = @ + 1]
             /\ UNCHANGED <<work, row>>
          \/ /\ GivesUp(x)
             /\ row' = [row EXCEPT ![x] = WithHeight(@, None)]
             /\ work' = work \ {x}
             /\ attempts' = [attempts EXCEPT ![x] = 0]
    BY <1>12 DEF CandidateFails, TypeOK, Unit
  <2>2. attempts' \in [Tx -> 0..MaxAttempts - 1]
    BY <2>1 DEF GivesUp, TypeOK
  <2>3. row' \in [Tx -> RowType]
    BY <2>1 DEF WithHeight, TypeOK, RowType
  <2>4. work' \subseteq Tx
    BY <2>1 DEF TypeOK
  <2>5. unit' \in Unit /\ faults' \in 0..MaxFaults
    BY <1>12 DEF CandidateFails, Fault, Unit, Idle, TypeOK
  <2>6. QED
    BY <1>12, <2>2, <2>3, <2>4, <2>5 DEF CandidateFails, TypeOK, RowType, chainStore, payments
<1>13. CASE AskAncestor
  <2>1. unit' \in Unit
    BY <1>13, NodeAnswers DEF AskAncestor, NodeAt, UnitOK, TypeOK, Unit, Height
  <2>2. QED
    BY <1>13, <2>1 DEF AskAncestor, TypeOK, chainStore, payments, jobStore
<1>14. CASE FinishJob
  <2>1. unit.ancestor \in Block \cup {None}
    BY <1>14 DEF FinishJob, TypeOK, Unit
  <2>2. scanned' \in [Height -> Block \cup {None}]
    BY <1>14, <2>1 DEF FinishJob, TypeOK
  <2>3. cursor' \in [Tenant -> Height \cup {None}]
    BY <1>14 DEF FinishJob, Clamped, TypeOK, UnitOK, Height
  <2>4. unit' \in Unit
    BY <1>14 DEF FinishJob, Unit, Idle
  <2>5. QED
    BY <1>14, <2>2, <2>3, <2>4 DEF FinishJob, TypeOK, payments
<1>15. ASSUME NEW x \in Tx, CheckVanished(x) \/ RecheckVoid(x) PROVE TypeOK'
  <2>1. PICK why \in {"vanished", "recheck"} : StartLookup(x, why)
    BY <1>15 DEF CheckVanished, RecheckVoid
  <2>2. unit' \in Unit
    BY <2>1, LocationsAreLocations DEF StartLookup, Unit, Purpose
  <2>3. QED
    BY <2>1, <2>2 DEF StartLookup, TypeOK, chainStore, payments, jobStore
<1>16. CASE AskKeyImages
  <2>1. unit.why \in Purpose /\ unit.tx \in Tx
    BY <1>16 DEF AskKeyImages, TypeOK, Unit
  <2>2. SpentIn(node, unit.tx) \in BOOLEAN
    BY DEF SpentIn, MinedIn, RivalIn
  <2>3. unit' \in Unit
    BY <1>16, <2>1, <2>2 DEF AskKeyImages, TypeOK, Unit
  <2>4. QED
    BY <1>16, <2>3 DEF AskKeyImages, TypeOK, chainStore, payments, jobStore
<1>17. CASE ApplyLocation
  <2>1. unit.tx \in Tx /\ unit.at \in Location
    BY <1>17 DEF ApplyLocation, TypeOK, Unit
  <2>2. row' \in [Tx -> RowType]
    BY <1>17, <2>1 DEF ApplyLocation, WithHeight, TypeOK, RowType
  <2>3. work' \subseteq Tx /\ attempts' \in [Tx -> 0..MaxAttempts - 1]
    BY <1>17 DEF ApplyLocation, Complete, TypeOK
  <2>4. unit' \in Unit
    BY <1>17 DEF ApplyLocation, Unit, Idle
  <2>5. QED
    BY <1>17, <2>2, <2>3, <2>4 DEF ApplyLocation, StillVoided, TypeOK, RowType, chainStore
<1>18. CASE ApplyProof
  <2>1. unit.tx \in Tx
    BY <1>18 DEF ApplyProof, TypeOK, Unit
  <2>2. row' \in [Tx -> RowType]
    <3>1. row \in [Tx -> RowType]
      BY DEF TypeOK, RowType
    <3>2. /\ [height |-> None, voided |-> TRUE] \in RowType
          /\ [height |-> None, voided |-> FALSE] \in RowType
          /\ WithHeight(row[unit.tx], None) \in RowType
      BY <2>1, <3>1, WithHeightType, NewRowType
    <3>3. \/ row' = row
          \/ row' = [row EXCEPT ![unit.tx] = [height |-> None, voided |-> TRUE]]
          \/ row' = [row EXCEPT ![unit.tx] = [height |-> None, voided |-> FALSE]]
          \/ row' = [row EXCEPT ![unit.tx] = WithHeight(@, None)]
      BY <1>18 DEF ApplyProof
    <3>4. QED
      BY <2>1, <3>1, <3>2, <3>3
  <2>3. work' \subseteq Tx /\ attempts' \in [Tx -> 0..MaxAttempts - 1]
    BY <1>18 DEF ApplyProof, Complete, TypeOK
  <2>4. unit' \in Unit
    BY <1>18 DEF ApplyProof, Unit, Idle
  <2>5. QED
    BY <1>18, <2>2, <2>3, <2>4 DEF ApplyProof, StillVoided, TypeOK, RowType, chainStore
<1>19. CASE Seed
  <2>1. TipHeight \in Height
    BY <1>19, DepthIsHeight DEF Seed, BlocksUnit, TipHeight, TypeOK
  <2>2. QED
    BY <1>19, <2>1, NodeAnswers DEF Seed, TypeOK, Height, round, jobStore, payments
<1>20. ASSUME NEW h \in Height, FetchBlock(h) PROVE TypeOK'
  <2>1. cursor' \in [Tenant -> Height \cup {None}]
    BY <1>20 DEF FetchBlock, Repaired, Recorded, TypeOK
  <2>2. held' \in Block
    BY <1>20, NodeAnswers DEF FetchBlock
  <2>3. QED
    BY <1>20, <2>1, <2>2 DEF FetchBlock, TypeOK, jobStore, payments
<1>21. ASSUME NEW S \in SUBSET Tenant, CommitBlock(S) PROVE TypeOK'
  <2>1. held \in Block /\ Depth[held] \in Height
    BY <1>21, DepthIsHeight DEF CommitBlock, TypeOK
  <2>2. cursor' \in [Tenant -> Height \cup {None}]
    BY <1>21, <2>1 DEF CommitBlock, Advanced, TypeOK, chainStore, payments
  <2>3. row' \in [Tx -> RowType]
    <3>1. row \in [Tx -> RowType]
      BY DEF TypeOK, RowType
    <3>2. ASSUME NEW x \in Tx PROVE RowsAfter(held, S)[x] \in RowType
      <4> DEFINE r == IF x \in ClaimAt(Depth[held]) /\ x \notin Holds[held]
                      THEN WithHeight(row[x], None) ELSE row[x]
      <4>1. r \in RowType
        BY <3>1, WithHeightType
      <4>2. RowsAfter(held, S)[x] =
               IF x \in Holds[held] /\ Owner[x] \in S
               THEN IF r = None THEN [height |-> Depth[held], voided |-> FALSE]
                    ELSE WithHeight(r, Depth[held])
               ELSE r
        BY DEF RowsAfter
      <4>3. [height |-> Depth[held], voided |-> FALSE] \in RowType
        BY <2>1, NewRowType
      <4>4. WithHeight(r, Depth[held]) \in RowType
        BY <2>1, <4>1, WithHeightType
      <4>5. QED
        BY <4>1, <4>2, <4>3, <4>4
    <3>3. RowsAfter(held, S) = [x \in Tx |-> RowsAfter(held, S)[x]]
      BY DEF RowsAfter
    <3>4. row' = row \/ row' = RowsAfter(held, S)
      BY <1>21 DEF CommitBlock
    <3>5. QED
      BY <3>1, <3>2, <3>3, <3>4
  <2>4. scanned' \in [Height -> Block \cup {None}]
    BY <1>21, <2>1 DEF CommitBlock, TypeOK, chainStore, payments
  <2>5. QED
    BY <1>21, <2>2, <2>3, <2>4 DEF CommitBlock, TypeOK, RowType, jobStore
<1>22. ASSUME NEW x \in Tx, RecordPool(x) PROVE TypeOK'
  <2>1. row' \in [Tx -> RowType]
    BY <1>22 DEF RecordPool, TypeOK, RowType
  <2>2. QED
    BY <1>22, <2>1 DEF RecordPool, TypeOK, RowType, round, chainStore, payments, jobStore
<1>23. CASE UNCHANGED vars
  BY <1>23 DEF TypeOK, vars, round, chainStore, payments, jobStore
<1>25. ASSUME NEW x \in Tx, VoidAges(x) PROVE TypeOK'
  BY <1>25 DEF VoidAges, TypeOK, round, chainStore, jobStore
<1>24. QED
  BY <1>1, <1>2, <1>3, <1>4, <1>5, <1>6, <1>7, <1>8, <1>9, <1>10, <1>11, <1>12, <1>13,
     <1>14, <1>15, <1>16, <1>17, <1>18, <1>19, <1>20, <1>21, <1>22, <1>23, <1>25
     DEF Next, ChainTier

LEMMA TypeInit == ASSUME Init PROVE TypeOK /\ UnitOK
<1> USE ScanAssumption, HeightAssumption DEF Init
<1>1. unit \in Unit
  BY DEF Unit, Idle
<1>2. /\ scanned \in [Height -> Block \cup {None}]
      /\ cursor \in [Tenant -> Height \cup {None}]
      /\ row \in [Tx -> [height : Height \cup {None}, voided : BOOLEAN] \cup {None}]
  OBVIOUS
<1>3. attempts \in [Tx -> 0..MaxAttempts - 1]
  OBVIOUS
<1>4. moves \in 0..MaxMoves /\ faults \in 0..MaxFaults
  OBVIOUS
<1>5. QED
  BY <1>1, <1>2, <1>3, <1>4 DEF TypeOK, UnitOK, Idle

LEMMA UnitStep ==
    ASSUME TypeOK, UnitOK, [Next]_vars PROVE UnitOK'
<1> USE DEF UnitOK
<1>1. CASE NodeMoves \/ UNCHANGED vars
  BY <1>1 DEF NodeMoves, vars, round, jobStore
<1>2. CASE BeginRound
  BY <1>2 DEF BeginRound, Idle, jobStore
<1>3. CASE Crash \/ UnitFails \/ DetectFails
  BY <1>3 DEF Crash, UnitFails, DetectFails, Idle
<1>4. CASE Detect \/ OpenJob \/ Collect \/ CandidateFails \/ FinishJob
  BY <1>4 DEF Detect, OpenJob, Collect, CandidateFails, FinishJob, Idle
<1>5. CASE RestartForBranch
  <2>1. NewJob(job.fork, Rows \cup job.candidates) \in Job
    BY <1>5 DEF RestartForBranch, JobUnit, NewJob, Rows, TypeOK, Job
  <2>2. QED
    BY <1>5, <2>1, ScanAssumption DEF RestartForBranch, JobUnit
<1>6. CASE CheckBranch \/ ExtendBranch
  BY <1>6 DEF CheckBranch, ExtendBranch, JobUnit, jobStore
<1>7. CASE AskAncestor
  <2>1. job.fork \in 0..MaxHeight + 1
    BY <1>7 DEF AskAncestor, TypeOK, Job
  <2>2. job.fork # 0 /\ NodeAt(job.fork - 1) # None
           => job.fork - 1 \in Height /\ Depth[NodeAt(job.fork - 1)] = job.fork - 1
    BY <2>1, NodeAnswers, HeightAssumption DEF NodeAt, Height
  <2>3. QED
    BY <1>7, <2>1, <2>2 DEF AskAncestor, jobStore
<1>8. CASE LocateCandidate \/ AskKeyImages
  BY <1>8 DEF LocateCandidate, AskKeyImages, jobStore
<1>9. CASE ApplyLocation \/ ApplyProof
  BY <1>9 DEF ApplyLocation, ApplyProof, Idle
<1>10. ASSUME NEW x \in Tx, CheckVanished(x) \/ RecheckVoid(x) PROVE UnitOK'
  BY <1>10 DEF CheckVanished, RecheckVoid, StartLookup
<1>16. ASSUME NEW x \in Tx, VoidAges(x) PROVE UnitOK'
  BY <1>16 DEF VoidAges, round, jobStore
<1>11. CASE Seed
  BY <1>11 DEF Seed, round, jobStore
<1>12. ASSUME NEW h \in Height, FetchBlock(h) PROVE UnitOK'
  BY <1>12 DEF FetchBlock, jobStore
<1>13. ASSUME NEW S \in SUBSET Tenant, CommitBlock(S) PROVE UnitOK'
  BY <1>13 DEF CommitBlock, jobStore
<1>14. ASSUME NEW x \in Tx, RecordPool(x) PROVE UnitOK'
  BY <1>14 DEF RecordPool, round, jobStore
<1>15. QED
  BY <1>1, <1>2, <1>3, <1>4, <1>5, <1>6, <1>7, <1>8, <1>9, <1>10, <1>11, <1>12, <1>13,
     <1>14, <1>16
     DEF Next, ChainTier

\* Every variable keeps its type.
THEOREM TypeCorrect == Spec => [](TypeOK /\ UnitOK)
<1>1. TypeOK /\ UnitOK /\ [Next]_vars => (TypeOK /\ UnitOK)'
  BY TypeStep, UnitStep
<1>2. QED
  BY <1>1, TypeInit, PTL DEF Spec

-----------------------------------------------------------------------------

\* The block below one that is recorded as the next of the high-water mark.
LEMMA ParentIsBelow ==
    ASSUME NEW b \in Block, Depth[b] > 0
    PROVE  Parent(b) \in Block /\ Depth[Parent(b)] = Depth[b] - 1
BY ChainAssumption, HeightAssumption DEF Parent, Height

LEMMA ChainFinish ==
    ASSUME TypeOK, UnitOK, RecordedChain, CursorsRecorded, FinishJob
    PROVE  RecordedChain' /\ CursorsRecorded'
<1> DEFINE kept == [h \in Height |-> IF h >= job.fork THEN None ELSE scanned[h]]
           empty == \A h \in Height : kept[h] = None
           top == job.fork - 1
<1>1. /\ job.fork \in 0..MaxHeight + 1
      /\ unit.ancestor \in Block \cup {None}
      /\ unit.ancestor # None => top \in Height /\ Depth[unit.ancestor] = top
  BY DEF FinishJob, TypeOK, UnitOK, Job, Unit
<1>2. /\ scanned' = IF empty /\ unit.ancestor # None
                    THEN [kept EXCEPT ![top] = unit.ancestor] ELSE kept
      /\ cursor' = Clamped(top, unit.ancestor)
  BY DEF FinishJob
<1>3. CASE empty /\ unit.ancestor # None
  <2>1. Recorded' = {top} /\ scanned'[top] = unit.ancestor
    BY <1>1, <1>2, <1>3, HeightAssumption DEF Recorded, Height
  <2>2. \A t \in Tenant : cursor'[t] # None => cursor'[t] <= top
    BY <1>1, <1>2, <1>3, HeightAssumption DEF Clamped, TypeOK, Height
  <2>3. QED
    BY <1>1, <1>3, <2>1, <2>2, HeightAssumption DEF RecordedChain, CursorsRecorded, Height
<1>4. CASE ~(empty /\ unit.ancestor # None)
  <2>1. Recorded' = {h \in Recorded : h < job.fork}
    BY <1>1, <1>2, <1>4, HeightAssumption DEF Recorded, Height, TypeOK
  <2>2. \A h \in Recorded' : scanned'[h] = scanned[h]
    BY <1>1, <1>2, <1>4, <2>1 DEF Recorded, Height
  <2>3. RecordedChain'
    BY <1>1, <2>1, <2>2, HeightAssumption DEF RecordedChain, Recorded, Height
  <2>4. ASSUME NEW t \in Tenant, cursor'[t] # None
        PROVE  \E h \in Recorded' : cursor'[t] <= h
    <3>1. /\ unit.ancestor # None /\ top \in Height /\ ~empty
          /\ cursor[t] # None /\ cursor[t] \in Height
          /\ cursor'[t] = IF cursor[t] > top THEN top ELSE cursor[t]
      BY <1>1, <1>2, <1>4, <2>4, HeightAssumption DEF Clamped, TypeOK
    <3>2. PICK high \in Recorded : cursor[t] <= high
      BY <3>1 DEF CursorsRecorded
    <3>3. PICK low \in Recorded : low < job.fork
      BY <1>1, <3>1, HeightAssumption DEF Recorded, Height, TypeOK
    <3>4. CASE high < job.fork
      BY <1>1, <2>1, <3>1, <3>2, <3>4 DEF Recorded, Height
    <3>5. CASE high >= job.fork
      <4>1. top \in Recorded
        BY <1>1, <3>1, <3>2, <3>3, <3>5, HeightAssumption DEF RecordedChain, Recorded, Height
      <4>2. QED
        BY <1>1, <2>1, <3>1, <4>1 DEF Recorded, Height
    <3>6. QED
      BY <1>1, <3>4, <3>5, HeightAssumption DEF Recorded, Height
  <2>5. QED
    BY <2>3, <2>4 DEF CursorsRecorded
<1>5. QED
  BY <1>3, <1>4

LEMMA ChainSeed ==
    ASSUME TypeOK, RecordedChain, CursorsRecorded, Seed
    PROVE  RecordedChain' /\ CursorsRecorded'
<1> DEFINE h == IF TipHeight = 0 THEN 0 ELSE TipHeight - 1
<1>1. h \in Height
  BY DepthIsHeight, HeightAssumption DEF Seed, BlocksUnit, TipHeight, TypeOK, Height
<1>2. NodeAt(h) # None /\ scanned' = [scanned EXCEPT ![h] = NodeAt(h)] /\ Recorded = {}
  BY DEF Seed
<1>3. Depth[NodeAt(h)] = h
  BY <1>1, <1>2, NodeAnswers
<1>4. Recorded' = {h} /\ scanned'[h] = NodeAt(h)
  BY <1>1, <1>2 DEF Recorded, TypeOK
<1>5. \A t \in Tenant : cursor[t] = None
  BY <1>2 DEF CursorsRecorded
<1>6. \A t \in Tenant : cursor'[t] = h
  BY <1>5 DEF Seed
<1>7. QED
  BY <1>1, <1>3, <1>4, <1>6, HeightAssumption DEF RecordedChain, CursorsRecorded, Height

LEMMA ChainFetch ==
    ASSUME TypeOK, RecordedChain, CursorsRecorded, NEW h \in Height, FetchBlock(h)
    PROVE  RecordedChain' /\ CursorsRecorded'
<1>1. PICK top \in Recorded : cursor' = Repaired(top)
  BY DEF FetchBlock
<1>2. scanned' = scanned /\ Recorded' = Recorded
  BY DEF FetchBlock, Recorded
<1>3. \A t \in Tenant : cursor'[t] <= top
  BY <1>1, HeightAssumption DEF Repaired, Recorded, TypeOK, Height
<1>4. QED
  BY <1>2, <1>3 DEF RecordedChain, CursorsRecorded

LEMMA ChainCommit ==
    ASSUME TypeOK, RecordedChain, CursorsRecorded, NEW S \in SUBSET Tenant, CommitBlock(S)
    PROVE  RecordedChain' /\ CursorsRecorded'
<1> DEFINE d == Depth[held]
<1>1. held \in Block /\ d \in Height
  BY DepthIsHeight DEF CommitBlock, TypeOK
<1>2. CASE ~Extends(held)
  BY <1>2 DEF CommitBlock, chainStore, payments, RecordedChain, CursorsRecorded, Recorded
<1>3. CASE Extends(held)
  <2>1. \A t \in Tenant : \/ t \in S /\ cursor[t] # None /\ cursor[t] + 1 = d /\ cursor'[t] = d
                          \/ cursor'[t] = cursor[t]
    BY <1>3 DEF CommitBlock, Advanced, AtParent
  <2>2. CASE scanned[d] = None /\ \E h \in Recorded : IsHighWater(h) /\ h + 1 = d
    <3>1. PICK h \in Recorded : IsHighWater(h) /\ h + 1 = d
      BY <2>2
    <3>2. scanned' = [scanned EXCEPT ![d] = held]
      BY <1>3, <2>2 DEF CommitBlock
    <3>3. Recorded' = Recorded \cup {d} /\ scanned'[d] = held
      BY <1>1, <3>2, HeightAssumption DEF Recorded, TypeOK
    <3>4. \A k \in Recorded : k < d /\ scanned'[k] = scanned[k]
      BY <1>1, <3>1, <3>2 DEF IsHighWater, Recorded, TypeOK, Height
    <3>5. Parent(held) = scanned[h]
      BY <1>1, <1>3, <3>1, ParentIsBelow, HeightAssumption DEF Extends, Recorded, Height
    <3>6. RecordedChain'
      <4>1. \A k \in Recorded' : Depth[scanned'[k]] = k
        BY <3>3, <3>4 DEF RecordedChain
      <4>2. \A i \in Recorded' : \A k \in Recorded' : \A m \in Height :
               k <= m /\ m <= i => m \in Recorded'
        BY <1>1, <3>1, <3>3, <3>4 DEF RecordedChain, Recorded, Height
      <4>3. \A k \in Recorded' : k - 1 \in Recorded' => Parent(scanned'[k]) = scanned'[k - 1]
        <5>1. ASSUME NEW k \in Recorded, k - 1 \in Recorded'
              PROVE  Parent(scanned'[k]) = scanned'[k - 1]
          <6>1. k - 1 \in Recorded
            BY <1>1, <3>3, <3>4, <5>1 DEF Recorded, Height
          <6>2. QED
            BY <3>4, <6>1 DEF RecordedChain
        <5>2. Parent(scanned'[d]) = scanned'[d - 1]
          BY <1>1, <3>1, <3>3, <3>4, <3>5 DEF Recorded, Height
        <5>3. QED
          BY <3>3, <5>1, <5>2
      <4>4. QED
        BY <4>1, <4>2, <4>3 DEF RecordedChain
    <3>7. CursorsRecorded'
      <4> SUFFICES ASSUME NEW t \in Tenant, cursor'[t] # None
                   PROVE  \E k \in Recorded' : cursor'[t] <= k
        BY DEF CursorsRecorded
      <4>1. CASE cursor'[t] = d
        BY <1>1, <3>3, <4>1, HeightAssumption DEF Height
      <4>2. CASE cursor'[t] = cursor[t]
        BY <3>3, <4>2 DEF CursorsRecorded
      <4> QED
        BY <2>1, <4>1, <4>2
    <3>8. QED
      BY <3>6, <3>7
  <2>3. CASE ~(scanned[d] = None /\ \E h \in Recorded : IsHighWater(h) /\ h + 1 = d)
    <3>1. scanned' = scanned /\ Recorded' = Recorded
      BY <1>3, <2>3 DEF CommitBlock, Recorded
    <3>2. ASSUME NEW t \in Tenant, t \in S, cursor[t] # None, cursor[t] + 1 = d
          PROVE  \E k \in Recorded : d <= k
      <4>1. PICK k \in Recorded : cursor[t] <= k
        BY <3>2 DEF CursorsRecorded
      <4>2. CASE \E m \in Recorded : m > cursor[t]
        BY <1>1, <3>2, <4>2, HeightAssumption DEF Recorded, TypeOK, Height
      <4>3. CASE ~\E m \in Recorded : m > cursor[t]
        <5>1. k = cursor[t] /\ IsHighWater(k) /\ k + 1 = d
          BY <3>2, <4>1, <4>3, HeightAssumption DEF IsHighWater, Recorded, TypeOK, Height
        <5>2. d \in Recorded
          BY <1>1, <2>3, <5>1 DEF Recorded
        <5>3. QED
          BY <1>1, <5>2 DEF Height
      <4>4. QED
        BY <4>2, <4>3
    <3>3. CursorsRecorded'
      BY <2>1, <3>1, <3>2 DEF CursorsRecorded
    <3>4. QED
      BY <3>1, <3>3 DEF RecordedChain
  <2>4. QED
    BY <2>2, <2>3
<1>4. QED
  BY <1>2, <1>3

LEMMA ChainStep ==
    ASSUME TypeOK, UnitOK, RecordedChain, CursorsRecorded, [Next]_vars
    PROVE  RecordedChain' /\ CursorsRecorded'
<1>1. CASE UNCHANGED chainStore
  BY <1>1 DEF chainStore, payments, RecordedChain, CursorsRecorded, Recorded
<1>2. CASE NodeMoves \/ BeginRound \/ Crash \/ UnitFails \/ UNCHANGED vars
  BY <1>1, <1>2 DEF NodeMoves, BeginRound, Crash, UnitFails, vars
<1>3. CASE ChainTier
  BY <1>1, <1>3, ChainFinish
     DEF ChainTier, Detect, DetectFails, OpenJob, RestartForBranch, CheckBranch,
         ExtendBranch, Collect, LocateCandidate, CandidateFails, AskAncestor
<1>4. CASE AskKeyImages \/ ApplyLocation \/ ApplyProof
  BY <1>1, <1>4 DEF AskKeyImages, ApplyLocation, ApplyProof
<1>5. CASE \E x \in Tx : CheckVanished(x) \/ RecheckVoid(x) \/ VoidAges(x) \/ RecordPool(x)
  BY <1>1, <1>5 DEF CheckVanished, RecheckVoid, VoidAges, StartLookup, RecordPool
<1>6. QED
  BY <1>2, <1>3, <1>4, <1>5, ChainSeed, ChainFetch, ChainCommit DEF Next

-----------------------------------------------------------------------------

\* A store whose cursor isn't set has nothing before it: no block is waiting to
\* be committed, and at most one is recorded.
CursorsSet ==
    (\E t \in Tenant : cursor[t] = None) =>
        held = None /\ \A h \in Recorded : IsLowest(h)

LEMMA SetStep ==
    ASSUME TypeOK, UnitOK, RecordedChain, CursorsRecorded, CursorsSet, [Next]_vars
    PROVE  CursorsSet'
<1> USE HeightAssumption
<1>1. CASE UNCHANGED <<chainStore, held>>
  BY <1>1 DEF chainStore, payments, CursorsSet, Recorded, IsLowest
<1>2. CASE NodeMoves \/ UnitFails \/ UNCHANGED vars
  BY <1>1, <1>2 DEF NodeMoves, UnitFails, vars, round
<1>3. CASE BeginRound \/ Crash
  <2>1. UNCHANGED chainStore /\ held' \in {held, None}
    BY <1>3 DEF BeginRound, Crash, Carried
  <2> QED
    BY <2>1 DEF chainStore, payments, CursorsSet, Recorded, IsLowest
<1>4. CASE ChainTier /\ ~FinishJob
  BY <1>1, <1>4
     DEF ChainTier, Detect, DetectFails, OpenJob, RestartForBranch, CheckBranch,
         ExtendBranch, Collect, LocateCandidate, CandidateFails, AskAncestor
<1>5. CASE FinishJob
  <2> DEFINE kept == [h \in Height |-> IF h >= job.fork THEN None ELSE scanned[h]]
             empty == \A h \in Height : kept[h] = None
             top == job.fork - 1
  <2>1. /\ job.fork \in 0..MaxHeight + 1
        /\ unit.ancestor \in Block \cup {None}
        /\ unit.ancestor # None => top \in Height
        /\ unit.ancestor = None => job.fork = 0
    BY <1>5 DEF FinishJob, TypeOK, UnitOK, Job, Unit
  <2>2. /\ scanned' = IF empty /\ unit.ancestor # None
                      THEN [kept EXCEPT ![top] = unit.ancestor] ELSE kept
        /\ cursor' = Clamped(top, unit.ancestor) /\ held' = None
    BY <1>5 DEF FinishJob
  <2>3. CASE unit.ancestor = None
    <3>1. Recorded' = {}
      BY <2>1, <2>2, <2>3 DEF Recorded, Height
    <3> QED
      BY <2>2, <3>1 DEF CursorsSet
  <2>4. CASE empty /\ unit.ancestor # None
    <3>1. Recorded' = {top}
      BY <2>1, <2>2, <2>4 DEF Recorded, Height
    <3> QED
      BY <2>1, <2>2, <3>1 DEF CursorsSet, IsLowest, Height
  <2>5. CASE ~empty /\ unit.ancestor # None
    <3>1. Recorded' \subseteq Recorded
      BY <2>1, <2>2, <2>5 DEF Recorded, Height
    <3>2. \A t \in Tenant : cursor'[t] = None => cursor[t] = None
      BY <2>1, <2>2, <2>5 DEF Clamped
    <3> QED
      BY <2>2, <3>1, <3>2 DEF CursorsSet, IsLowest
  <2> QED
    BY <2>3, <2>4, <2>5
<1>6. CASE AskKeyImages \/ ApplyLocation \/ ApplyProof
  BY <1>1, <1>6 DEF AskKeyImages, ApplyLocation, ApplyProof
<1>7. CASE \E x \in Tx : CheckVanished(x) \/ RecheckVoid(x) \/ VoidAges(x) \/ RecordPool(x)
  BY <1>1, <1>7 DEF CheckVanished, RecheckVoid, VoidAges, StartLookup, RecordPool, round
<1>8. CASE Seed
  <2>1. TipHeight \in Height
    BY <1>8, DepthIsHeight DEF Seed, BlocksUnit, TipHeight, TypeOK
  <2>2. \A t \in Tenant : cursor'[t] # None
    BY <1>8, <2>1 DEF Seed, Height, TypeOK
  <2> QED
    BY <2>2 DEF CursorsSet
<1>9. CASE \E h \in Height : FetchBlock(h)
  <2>1. \A t \in Tenant : cursor'[t] # None
    BY <1>9 DEF FetchBlock, Repaired, Recorded, TypeOK
  <2> QED
    BY <2>1 DEF CursorsSet
<1>10. CASE \E S \in SUBSET Tenant : CommitBlock(S)
  <2>1. held # None /\ \A t \in Tenant : cursor[t] # None
    BY <1>10 DEF CommitBlock, CursorsSet
  <2>2. \A t \in Tenant : cursor'[t] # None
    BY <1>10, <2>1, DepthIsHeight DEF CommitBlock, Advanced, chainStore, payments, TypeOK
  <2> QED
    BY <2>2 DEF CursorsSet
<1> QED
  BY <1>2, <1>3, <1>4, <1>5, <1>6, <1>7, <1>8, <1>9, <1>10 DEF Next

-----------------------------------------------------------------------------

\* No payment that was recorded is deleted.
LEMMA RowsStay ==
    ASSUME TypeOK, [Next]_vars, NEW x \in Tx, row[x] # None
    PROVE  row'[x] # None
<1> USE ScanAssumption
<1>1. ASSUME NEW r, r # None, r \in RowType, NEW h \in Height \cup {None}
      PROVE  WithHeight(r, h) # None
  BY <1>1 DEF WithHeight, RowType
<1>2. \A h \in Height \cup {None} : \A v \in BOOLEAN : [height |-> h, voided |-> v] # None
  OBVIOUS
<1>3. row \in [Tx -> RowType]
  BY DEF TypeOK, RowType
<1>4. CASE UNCHANGED row
  BY <1>4
<1>5. CASE NodeMoves \/ BeginRound \/ Crash \/ UnitFails \/ AskKeyImages \/ UNCHANGED vars
  BY <1>4, <1>5 DEF NodeMoves, BeginRound, Crash, UnitFails, AskKeyImages, vars, payments
<1>6. CASE ChainTier /\ ~CandidateFails
  BY <1>4, <1>6
     DEF ChainTier, Detect, DetectFails, OpenJob, RestartForBranch, CheckBranch,
         ExtendBranch, Collect, LocateCandidate, FinishJob, AskAncestor, payments
<1>7. CASE CandidateFails
  <2>1. PICK y \in Tx : row' = row \/ row' = [row EXCEPT ![y] = WithHeight(@, None)]
    BY <1>7 DEF CandidateFails, TypeOK, Unit
  <2> QED
    BY <1>1, <1>3, <2>1
<1>8. CASE ApplyLocation
  <2>1. unit.tx \in Tx /\ unit.at \in Location
    BY <1>8 DEF ApplyLocation, TypeOK, Unit
  <2>2. \/ row' = row
        \/ row' = [row EXCEPT ![unit.tx] = WithHeight(@, None)]
        \/ unit.at \in Height /\ row' = [row EXCEPT ![unit.tx] = [height |-> unit.at, voided |-> FALSE]]
    BY <1>8 DEF ApplyLocation
  <2>3. CASE x = unit.tx
    <3>1. row[x] \in RowType /\ row'[x] \in {row[x], WithHeight(row[x], None)}
                \cup {[height |-> h, voided |-> FALSE] : h \in Height}
      BY <1>3, <2>1, <2>2, <2>3
    <3> QED
      BY <1>1, <1>2, <3>1
  <2>4. CASE x # unit.tx
    BY <1>3, <2>2, <2>4
  <2> QED
    BY <2>3, <2>4
<1>9. CASE ApplyProof
  <2>1. unit.tx \in Tx
    BY <1>9 DEF ApplyProof, TypeOK, Unit
  <2>2. \/ row' = row
        \/ row' = [row EXCEPT ![unit.tx] = [height |-> None, voided |-> TRUE]]
        \/ row' = [row EXCEPT ![unit.tx] = [height |-> None, voided |-> FALSE]]
        \/ row' = [row EXCEPT ![unit.tx] = WithHeight(@, None)]
    BY <1>9 DEF ApplyProof
  <2>3. CASE x = unit.tx
    <3>1. row[x] \in RowType /\ row'[x] \in {row[x], WithHeight(row[x], None)}
                \cup {[height |-> None, voided |-> v] : v \in BOOLEAN}
      BY <1>3, <2>1, <2>2, <2>3
    <3> QED
      BY <1>1, <1>2, <3>1
  <2>4. CASE x # unit.tx
    BY <1>3, <2>2, <2>4
  <2> QED
    BY <2>3, <2>4
<1>10. CASE \E y \in Tx : CheckVanished(y) \/ RecheckVoid(y) \/ VoidAges(y) \/ RecordPool(y)
  BY <1>2, <1>3, <1>4, <1>10
     DEF CheckVanished, RecheckVoid, VoidAges, StartLookup, RecordPool, payments
<1>11. CASE Seed \/ \E h \in Height : FetchBlock(h)
  BY <1>4, <1>11 DEF Seed, FetchBlock, payments
<1>12. CASE \E S \in SUBSET Tenant : CommitBlock(S)
  <2>1. PICK S \in SUBSET Tenant : CommitBlock(S)
    BY <1>12
  <2>2. held \in Block /\ Depth[held] \in Height
    BY <2>1, DepthIsHeight DEF CommitBlock, TypeOK
  <2>3. row' = row \/ row' = RowsAfter(held, S)
    BY <2>1 DEF CommitBlock
  <2> DEFINE r == IF x \in ClaimAt(Depth[held]) /\ x \notin Holds[held]
                  THEN WithHeight(row[x], None) ELSE row[x]
  <2>4. r \in RowType /\ r # None
    BY <1>1, <1>3, WithHeightType
  <2>5. RowsAfter(held, S)[x] =
           IF x \in Holds[held] /\ Owner[x] \in S
           THEN IF r = None THEN [height |-> Depth[held], voided |-> FALSE]
                ELSE WithHeight(r, Depth[held])
           ELSE r
    BY DEF RowsAfter
  <2>6. WithHeight(r, Depth[held]) # None
    BY <1>1, <2>2, <2>4
  <2> QED
    BY <2>3, <2>4, <2>5, <2>6
<1> QED
  BY <1>5, <1>6, <1>7, <1>8, <1>9, <1>10, <1>11, <1>12 DEF Next

\* What a commit scans is in the store.
LEMMA CommitRecords ==
    ASSUME TypeOK, NEW S \in SUBSET Tenant, CommitBlock(S), Extends(held),
           NEW x \in Tx, x \in Holds[held], Owner[x] \in S
    PROVE  row'[x] # None
<1>1. held \in Block /\ Depth[held] \in Height
  BY DepthIsHeight DEF CommitBlock, TypeOK
<1>2. row' = RowsAfter(held, S)
  BY DEF CommitBlock
<1>3. row[x] \in RowType
  BY DEF TypeOK, RowType
<1>4. RowsAfter(held, S)[x] = IF row[x] = None THEN [height |-> Depth[held], voided |-> FALSE]
                              ELSE WithHeight(row[x], Depth[held])
  BY DEF RowsAfter
<1>5. WithHeight(row[x], Depth[held]) # None \/ row[x] = None
  BY <1>1, <1>3, ScanAssumption DEF WithHeight, RowType
<1>6. \A h \in Height \cup {None} : \A v \in BOOLEAN : [height |-> h, voided |-> v] # None
  BY ScanAssumption
<1>7. row'[x] = IF row[x] = None THEN [height |-> Depth[held], voided |-> FALSE]
                ELSE WithHeight(row[x], Depth[held])
  BY <1>2, <1>4
<1> QED
  BY <1>1, <1>5, <1>6, <1>7

LEMMA KnownStep ==
    ASSUME TypeOK, UnitOK, RecordedChain, CursorsRecorded, CursorsSet, NoneForgotten, [Next]_vars
    PROVE  NoneForgotten'
<1> USE HeightAssumption
<1> SUFFICES ASSUME NEW x \in Tx, NEW h \in Recorded', ScannedAt(x, h)' PROVE row'[x] # None
  BY DEF NoneForgotten
<1> DEFINE t == Owner[x]
<1>0. t \in Tenant /\ h \in Height
  BY ScanAssumption DEF Recorded
<1>1. ASSUME h \in Recorded, ScannedAt(x, h) PROVE row'[x] # None
  BY <1>1, RowsStay DEF NoneForgotten
<1>2. CASE UNCHANGED chainStore
  <2>1. h \in Recorded /\ ScannedAt(x, h)
    BY <1>2 DEF chainStore, payments, ScannedAt, Recorded, IsLowest
  <2> QED
    BY <1>1, <2>1
<1>3. CASE NodeMoves \/ BeginRound \/ Crash \/ UnitFails \/ UNCHANGED vars
  BY <1>2, <1>3 DEF NodeMoves, BeginRound, Crash, UnitFails, vars
<1>4. CASE ChainTier /\ ~FinishJob
  BY <1>2, <1>4
     DEF ChainTier, Detect, DetectFails, OpenJob, RestartForBranch, CheckBranch,
         ExtendBranch, Collect, LocateCandidate, CandidateFails, AskAncestor
<1>5. CASE FinishJob
  <2> DEFINE kept == [k \in Height |-> IF k >= job.fork THEN None ELSE scanned[k]]
             empty == \A k \in Height : kept[k] = None
             top == job.fork - 1
  <2>1. /\ job.fork \in 0..MaxHeight + 1
        /\ unit.ancestor \in Block \cup {None}
        /\ unit.ancestor # None => top \in Height
    BY <1>5 DEF FinishJob, TypeOK, UnitOK, Job, Unit
  <2>2. /\ scanned' = IF empty /\ unit.ancestor # None
                      THEN [kept EXCEPT ![top] = unit.ancestor] ELSE kept
        /\ cursor' = Clamped(top, unit.ancestor)
    BY <1>5 DEF FinishJob
  <2>3. CASE empty /\ unit.ancestor # None
    <3>1. Recorded' = {top}
      BY <2>1, <2>2, <2>3 DEF Recorded, Height
    <3>2. IsLowest(h)'
      BY <2>1, <3>1 DEF IsLowest, Height
    <3> QED
      BY <3>2 DEF ScannedAt
  <2>4. CASE ~(empty /\ unit.ancestor # None)
    <3>1. Recorded' = {k \in Recorded : k < job.fork} /\ scanned'[h] = scanned[h]
      BY <1>0, <2>1, <2>2, <2>4 DEF Recorded, Height, TypeOK
    <3>2. IsLowest(h) => IsLowest(h)'
      BY <3>1 DEF IsLowest
    <3>3. cursor'[t] # None => cursor[t] # None /\ cursor'[t] <= cursor[t]
      BY <1>0, <2>1, <2>2 DEF Clamped, TypeOK, Height
    <3>4. cursor'[t] # None => cursor'[t] \in Int /\ cursor[t] \in Int
      BY <1>0, <2>1, <2>2, <3>3 DEF Clamped, TypeOK, Height
    <3>5. ScannedAt(x, h)
      BY <1>0, <3>1, <3>2, <3>3, <3>4 DEF ScannedAt, Height
    <3> QED
      BY <1>1, <3>1, <3>5
  <2> QED
    BY <2>3, <2>4
<1>6. CASE AskKeyImages \/ ApplyLocation \/ ApplyProof
  BY <1>2, <1>6 DEF AskKeyImages, ApplyLocation, ApplyProof
<1>7. CASE \E y \in Tx : CheckVanished(y) \/ RecheckVoid(y) \/ VoidAges(y) \/ RecordPool(y)
  BY <1>2, <1>7 DEF CheckVanished, RecheckVoid, VoidAges, StartLookup, RecordPool
<1>8. CASE Seed
  <2> DEFINE low == IF TipHeight = 0 THEN 0 ELSE TipHeight - 1
  <2>1. low \in Height
    BY <1>8, DepthIsHeight DEF Seed, BlocksUnit, TipHeight, TypeOK, Height
  <2>2. Recorded' = {low}
    BY <1>8, <2>1 DEF Seed, Recorded, TypeOK
  <2>3. IsLowest(h)'
    BY <2>1, <2>2 DEF IsLowest, Height
  <2> QED
    BY <2>3 DEF ScannedAt
<1>9. ASSUME NEW k \in Height, FetchBlock(k) PROVE row'[x] # None
  <2>1. PICK top \in Recorded : IsHighWater(top) /\ cursor' = Repaired(top)
    BY <1>9 DEF FetchBlock
  <2>2. Recorded' = Recorded /\ scanned' = scanned
    BY <1>9 DEF FetchBlock, Recorded
  <2>3. IsLowest(h) = IsLowest(h)' /\ ~IsLowest(h)
    BY <2>2 DEF IsLowest, ScannedAt
  <2>4. cursor[t] # None
    BY <1>0, <2>2, <2>3 DEF CursorsSet
  <2>5. cursor'[t] <= cursor[t] /\ cursor'[t] \in Int /\ cursor[t] \in Int
    BY <1>0, <2>1, <2>4 DEF Repaired, TypeOK, Height, Recorded
  <2>6. ScannedAt(x, h)
    BY <1>0, <2>2, <2>3, <2>4, <2>5 DEF ScannedAt, Height
  <2> QED
    BY <1>1, <2>2, <2>6
<1>10. ASSUME NEW S \in SUBSET Tenant, CommitBlock(S) PROVE row'[x] # None
  <2> DEFINE d == Depth[held]
  <2>1. held \in Block /\ d \in Height
    BY <1>10, DepthIsHeight DEF CommitBlock, TypeOK
  <2>2. CASE ~Extends(held)
    BY <1>2, <1>10, <2>2 DEF CommitBlock
  <2>3. CASE Extends(held)
    <3>1. /\ scanned' = scanned \/ (scanned' = [scanned EXCEPT ![d] = held]
                                    /\ \A k \in Recorded : k < d)
          /\ cursor' = Advanced(held, S) /\ S \subseteq AtParent(held)
          /\ scanned[d] \in {None, held}
      BY <1>10, <2>1, <2>3 DEF CommitBlock, Extends, IsHighWater, Recorded, Height
    <3>2. /\ Recorded \subseteq Recorded' /\ Recorded' \subseteq Recorded \cup {d}
          /\ \A k \in Recorded : k # d => scanned'[k] = scanned[k]
          /\ scanned'[d] \in {None, held}
      BY <2>1, <3>1 DEF Recorded, TypeOK
    <3>3. \A k \in Recorded' \ Recorded : k = d /\ \A m \in Recorded : m < d
      BY <3>1, <3>2 DEF Recorded
    <3>4. h # d => h \in Recorded /\ (IsLowest(h) => IsLowest(h)')
      BY <1>0, <2>1, <3>2, <3>3 DEF IsLowest, Recorded, Height
    <3>5. CASE t \in S
      <4>1. cursor[t] # None /\ cursor[t] + 1 = d /\ cursor'[t] = d
        BY <1>0, <3>1, <3>5 DEF Advanced, AtParent
      <4>2. CASE h = d
        <5>1. scanned'[d] = held
          BY <3>2, <4>2 DEF Recorded
        <5> QED
          BY <1>10, <2>3, <3>5, <4>2, <5>1, CommitRecords DEF ScannedAt
      <4>3. CASE h # d
        <5>1. h <= cursor[t]
          BY <1>0, <2>1, <4>1, <4>3 DEF ScannedAt, TypeOK, Height
        <5>2. ScannedAt(x, h)
          BY <3>2, <3>4, <4>1, <4>3, <5>1 DEF ScannedAt
        <5> QED
          BY <1>1, <3>4, <4>3, <5>2
      <4> QED
        BY <4>2, <4>3
    <3>6. CASE t \notin S
      <4>1. cursor'[t] = cursor[t]
        BY <1>0, <3>1, <3>6 DEF Advanced
      <4>2. h \in Recorded
        <5>1. CASE h \notin Recorded
          <6>1. PICK m \in Recorded : cursor[t] <= m
            BY <1>0, <4>1 DEF CursorsRecorded, ScannedAt
          <6>2. m < h
            BY <3>3, <5>1, <6>1
          <6> QED
            BY <1>0, <4>1, <6>1, <6>2 DEF ScannedAt, TypeOK, Height, Recorded
        <5> QED
          BY <5>1
      <4>3. scanned'[h] = scanned[h] /\ (IsLowest(h) => IsLowest(h)')
        BY <1>0, <2>1, <3>1, <3>2, <3>3, <4>2 DEF IsLowest, Recorded, Height, TypeOK
      <4>4. ScannedAt(x, h)
        BY <4>1, <4>3 DEF ScannedAt
      <4> QED
        BY <1>1, <4>2, <4>4
    <3> QED
      BY <3>5, <3>6
  <2> QED
    BY <2>2, <2>3
<1> QED
  BY <1>3, <1>4, <1>5, <1>6, <1>7, <1>8, <1>9, <1>10 DEF Next

-----------------------------------------------------------------------------

\* What the theorems below rest on.
IInv == TypeOK /\ UnitOK /\ RecordedChain /\ CursorsRecorded /\ CursorsSet /\ NoneForgotten

\* The inductive invariant of the scanner.
THEOREM Invariant == Spec => []IInv
<1>1. Init => IInv
  BY TypeInit DEF Init, IInv, RecordedChain, CursorsRecorded, CursorsSet, NoneForgotten, Recorded
<1>2. IInv /\ [Next]_vars => IInv'
  BY TypeStep, UnitStep, ChainStep, SetStep, KnownStep DEF IInv
<1>3. QED
  BY <1>1, <1>2, PTL DEF Spec

\* Whatever the node does and whenever the process dies, the recorded blocks
\* form a chain without gaps.
THEOREM RecordedChainAlways == Spec => []RecordedChain
<1>1. IInv => RecordedChain
  BY DEF IInv
<1> QED
  BY <1>1, Invariant, PTL

\* No store has scanned past what the network recorded, through rewinds.
THEOREM CursorsFollow == Spec => []CursorsRecorded
<1>1. IInv => CursorsRecorded
  BY DEF IInv
<1> QED
  BY <1>1, Invariant, PTL

\* A payment in a recorded block that its store has scanned is in the store,
\* through stale blocks, failing keys, rewinds and crashes.
THEOREM NoPaymentForgotten == Spec => []NoneForgotten
<1>1. IInv => NoneForgotten
  BY DEF IInv
<1> QED
  BY <1>1, Invariant, PTL

-----------------------------------------------------------------------------

\* Every set of natural numbers that isn't empty has a least one.
LEMMA LeastNat ==
    ASSUME NEW T, T \subseteq Nat, T # {}
    PROVE  \E x \in T : \A y \in T : x <= y
<1>1. PICK x \in T : \A y \in T : <<y, x>> \notin OpToRel(<, Nat)
  BY WFMin, NatLessThanWellFounded, Zenon
<1>2. \A y \in T : ~(y < x)
  BY <1>1, Zenon DEF OpToRel
<1> QED
  BY <1>2, SMT

\* A recorded block is on the chain of every block recorded above it.
LEMMA RecordedIsChain ==
    ASSUME TypeOK, RecordedChain, NEW h \in Recorded, NEW k \in Recorded, h <= k
    PROVE  Chain[scanned[k]][h] = scanned[h]
<1> USE HeightAssumption
<1> DEFINE Off == {i \in Recorded : h <= i /\ Chain[scanned[i]][h] # scanned[h]}
<1>1. \A i \in Recorded : /\ i \in Height /\ i \in Nat
                          /\ scanned[i] \in Block /\ Depth[scanned[i]] = i
  BY DEF Recorded, TypeOK, RecordedChain, Height
<1>2. SUFFICES ASSUME Off # {} PROVE FALSE
  OBVIOUS
<1>3. PICK i \in Off : \A j \in Off : i <= j
  BY <1>1, <1>2, LeastNat
<1>4. i # h
  BY <1>1, <1>3, ChainAssumption
<1>5. i - 1 \in Recorded /\ h <= i - 1 /\ i - 1 \in Height
  BY <1>1, <1>3, <1>4 DEF RecordedChain, Height
<1>6. Chain[scanned[i - 1]][h] = scanned[h]
  BY <1>1, <1>3, <1>5
<1>7. scanned[i - 1] = Chain[scanned[i]][i - 1]
  BY <1>1, <1>3, <1>5 DEF RecordedChain, Parent, Height
<1>8. Chain[Chain[scanned[i]][i - 1]][h] = Chain[scanned[i]][h]
  <2>1. /\ scanned[i] \in Block /\ i - 1 <= Depth[scanned[i]]
        /\ h \in Height /\ i - 1 \in Height /\ h <= i - 1
    BY <1>1, <1>3, <1>5
  <2> QED
    BY <2>1, ChainAssumption
<1> QED
  BY <1>3, <1>6, <1>7, <1>8

\* While the node has the highest recorded block it has them all.
LEMMA AgreesBelow ==
    ASSUME TypeOK, RecordedChain, NodeAgrees, NEW h \in Recorded
    PROVE  OnChain(node, scanned[h])
<1> USE HeightAssumption
<1> DEFINE Above == {MaxHeight - i : i \in Recorded}
<1>1. \A i \in Recorded : /\ i \in Height /\ i \in Nat
                          /\ scanned[i] \in Block /\ Depth[scanned[i]] = i
  BY DEF Recorded, TypeOK, RecordedChain, Height
<1>2. Above \subseteq Nat /\ Above # {}
  BY <1>1 DEF Height
<1>3. PICK a \in Above : \A c \in Above : a <= c
  BY <1>2, LeastNat
<1>4. PICK top \in Recorded : a = MaxHeight - top
  OBVIOUS
<1>5. \A i \in Recorded : i <= top
  BY <1>1, <1>3, <1>4
<1>6. Chain[node][top] = scanned[top]
  BY <1>1, <1>5 DEF NodeAgrees, IsHighWater, NodeAt
<1>7. Chain[scanned[top]][h] = scanned[h]
  BY <1>5, RecordedIsChain
<1>8. node \in Block /\ top <= Depth[node]
  BY <1>1, <1>6, ChainAssumption DEF TypeOK, Height
<1>9. Chain[Chain[node][top]][h] = Chain[node][h]
  BY <1>1, <1>5, <1>8, ChainAssumption
<1> QED
  BY <1>1, <1>6, <1>7, <1>9 DEF OnChain

-----------------------------------------------------------------------------

\* Where the node may go from n includes n, and shrinks with every move.
LEMMA AfterShrinks ==
    ASSUME NEW n \in Block, NEW m \in Switch(n)
    PROVE  /\ n \in After(n) /\ m \in Block /\ m \in After(m)
           /\ After(m) \subseteq After(n)
<1>1. m \in Block
  BY DEF Switch
<1>2. n \in After(n) /\ m \in After(m)
  BY <1>1 DEF After
<1>3. ASSUME NEW c \in After(m), NEW S \in SUBSET Block,
             n \in S, \A s \in S : Switch(s) \subseteq S
      PROVE  c \in S
  BY <1>3 DEF After
<1>4. After(m) \subseteq Block
  BY DEF After
<1> QED
  BY <1>1, <1>2, <1>3, <1>4 DEF After

\* The node won't have block b any more; it has b or won't have it any more.
Gone(b) == \A n \in After(node) : ~OnChain(n, b)
Seen(b) == OnChain(node, b) \/ Gone(b)

\* What the store recorded, and what the scanner is about to record, the
\* node has or left for good.
BlocksSeen ==
    /\ \A h \in Recorded : Seen(scanned[h])
    /\ held # None => Seen(held)
    /\ (unit.kind = "rewind" /\ unit.ancestor # None) => Seen(unit.ancestor)

LEMMA GoneStays ==
    ASSUME TypeOK, NEW b, Gone(b), [Next]_vars PROVE Gone(b)'
<1>1. CASE NodeMoves
  BY <1>1, AfterShrinks DEF NodeMoves, Gone, TypeOK
<1>2. CASE UNCHANGED node
  BY <1>2 DEF Gone
<1> QED
  BY <1>1, <1>2
     DEF Next, ChainTier, vars, round, BeginRound, Crash, UnitFails, Detect, DetectFails,
         OpenJob, RestartForBranch, CheckBranch, ExtendBranch, Collect, LocateCandidate,
         CandidateFails, AskAncestor, FinishJob, Seed, FetchBlock, CommitBlock,
         AskKeyImages, ApplyLocation, ApplyProof, CheckVanished, RecheckVoid, VoidAges, StartLookup,
         RecordPool, payments

LEMMA SeenStays ==
    ASSUME TypeOK, NeverReturns, NEW b \in Block, Seen(b), [Next]_vars PROVE Seen(b)'
<1>1. CASE NodeMoves
  <2>1. node \in Block /\ node' \in Switch(node)
    BY <1>1 DEF NodeMoves, TypeOK
  <2>2. CASE OnChain(node, b) /\ ~OnChain(node', b)
    BY <2>1, <2>2 DEF NeverReturns, Seen, Gone
  <2> QED
    BY <2>2, GoneStays DEF Seen, OnChain
<1>2. CASE UNCHANGED node
  BY <1>2 DEF Seen, Gone, OnChain
<1> QED
  BY <1>1, <1>2
     DEF Next, ChainTier, vars, round, BeginRound, Crash, UnitFails, Detect, DetectFails,
         OpenJob, RestartForBranch, CheckBranch, ExtendBranch, Collect, LocateCandidate,
         CandidateFails, AskAncestor, FinishJob, Seed, FetchBlock, CommitBlock,
         AskKeyImages, ApplyLocation, ApplyProof, CheckVanished, RecheckVoid, VoidAges, StartLookup,
         RecordPool, payments

LEMMA NodeHasAnswers ==
    ASSUME TypeOK, NEW h \in Height, NodeAt(h) # None
    PROVE  Seen(NodeAt(h))
BY NodeAnswers DEF Seen, OnChain, NodeAt

LEMMA RecordedBlocks ==
    ASSUME TypeOK, RecordedChain, NEW h \in Recorded
    PROVE  h \in Height /\ scanned[h] \in Block /\ Depth[scanned[h]] = h
BY DEF TypeOK, RecordedChain, Recorded

\* The blocks a rewind leaves are those below the fork, or the ancestor alone.
LEMMA FinishKeeps ==
    ASSUME TypeOK, UnitOK, FinishJob
    PROVE  /\ \A t \in Tenant : cursor'[t] # None => cursor[t] # None /\ cursor'[t] <= cursor[t]
           /\ \/ /\ \A h \in Recorded' : h \in Recorded /\ h < job.fork /\ scanned'[h] = scanned[h]
                 /\ \A h \in Recorded' : IsLowest(h) => IsLowest(h)'
              \/ /\ unit.ancestor \in Block
                 /\ \A h \in Recorded' : IsLowest(h)' /\ scanned'[h] = unit.ancestor
<1> USE HeightAssumption
<1> DEFINE kept == [h \in Height |-> IF h >= job.fork THEN None ELSE scanned[h]]
           empty == \A h \in Height : kept[h] = None
           top == job.fork - 1
<1>1. /\ job.fork \in 0..MaxHeight + 1
      /\ unit.ancestor \in Block \cup {None}
      /\ unit.ancestor # None => top \in Height
  BY DEF FinishJob, TypeOK, UnitOK, Job, Unit
<1>2. /\ scanned' = IF empty /\ unit.ancestor # None
                    THEN [kept EXCEPT ![top] = unit.ancestor] ELSE kept
      /\ cursor' = Clamped(top, unit.ancestor)
  BY DEF FinishJob
<1>3. \A t \in Tenant : cursor'[t] # None => cursor[t] # None /\ cursor'[t] <= cursor[t]
  BY <1>1, <1>2 DEF Clamped, TypeOK, Height
<1>4. CASE empty /\ unit.ancestor # None
  <2>1. Recorded' = {top} /\ scanned'[top] = unit.ancestor
    BY <1>1, <1>2, <1>4 DEF Recorded, Height
  <2> QED
    BY <1>1, <1>3, <1>4, <2>1 DEF IsLowest, Height
<1>5. CASE ~(empty /\ unit.ancestor # None)
  <2>1. scanned' = kept
    BY <1>2, <1>5
  <2>2. \A h \in Height : /\ kept[h] # None <=> h < job.fork /\ scanned[h] # None
                          /\ h < job.fork => kept[h] = scanned[h]
    BY <1>1 DEF Height
  <2>3. Recorded' = {h \in Recorded : h < job.fork}
    BY <2>1, <2>2 DEF Recorded
  <2>4. \A h \in Recorded' : scanned'[h] = scanned[h]
    BY <2>3, <2>1, <2>2 DEF Recorded
  <2>5. \A h \in Recorded' : IsLowest(h) => IsLowest(h)'
    BY <2>3 DEF IsLowest
  <2> QED
    BY <1>3, <2>3, <2>4, <2>5
<1> QED
  BY <1>4, <1>5

\* The first run records the lowest block.
LEMMA SeedRecords ==
    ASSUME TypeOK, Seed
    PROVE  \A h \in Recorded' : /\ h \in Height /\ IsLowest(h)'
                                /\ NodeAt(h) # None /\ scanned'[h] = NodeAt(h)
<1> DEFINE low == IF TipHeight = 0 THEN 0 ELSE TipHeight - 1
<1>1. low \in Height
  BY DepthIsHeight, HeightAssumption DEF Seed, BlocksUnit, TipHeight, TypeOK, Height
<1>2. Recorded' = {low} /\ scanned'[low] = NodeAt(low) /\ NodeAt(low) # None
  BY <1>1 DEF Seed, Recorded, TypeOK
<1> QED
  BY <1>1, <1>2, HeightAssumption DEF IsLowest, Height

\* A commit records the block it has, on top of the others, or none.
LEMMA CommitAdds ==
    ASSUME TypeOK, NEW S \in SUBSET Tenant, CommitBlock(S)
    PROVE  /\ held \in Block /\ Depth[held] \in Height
           /\ ~Extends(held) => UNCHANGED <<scanned, cursor, row>>
           /\ Extends(held) => /\ row' = RowsAfter(held, S)
                               /\ cursor' = Advanced(held, S) /\ S \subseteq AtParent(held)
           /\ \A h \in Recorded' : \/ h \in Recorded /\ scanned'[h] = scanned[h]
                                   \/ /\ Extends(held) /\ h = Depth[held] /\ scanned'[h] = held
                                      /\ \A k \in Recorded : k < h
           /\ Extends(held) /\ Depth[held] \in Recorded' => scanned'[Depth[held]] = held
           /\ \A h \in Recorded : IsLowest(h) => IsLowest(h)'
<1> USE HeightAssumption
<1> DEFINE d == Depth[held]
<1>1. held \in Block /\ d \in Height
  BY DepthIsHeight DEF CommitBlock, TypeOK
<1>2. CASE ~Extends(held)
  BY <1>1, <1>2 DEF CommitBlock, chainStore, payments, Recorded, IsLowest
<1>3. CASE Extends(held)
  <2>1. /\ row' = RowsAfter(held, S) /\ cursor' = Advanced(held, S)
        /\ S \subseteq AtParent(held)
        /\ scanned[d] \in {None, held}
        /\ \/ scanned' = scanned
           \/ scanned' = [scanned EXCEPT ![d] = held] /\ \A k \in Recorded : k < d
    BY <1>1, <1>3 DEF CommitBlock, Extends, IsHighWater, Recorded, Height
  <2>2. /\ \A h \in Recorded' : \/ h \in Recorded /\ scanned'[h] = scanned[h]
                                \/ h = d /\ scanned'[h] = held /\ \A k \in Recorded : k < h
        /\ d \in Recorded' => scanned'[d] = held
        /\ Recorded \subseteq Recorded'
    BY <1>1, <2>1, HeightAssumption DEF Recorded, TypeOK
  <2>3. \A h \in Recorded : IsLowest(h) => IsLowest(h)'
    BY <1>1, <2>2 DEF IsLowest, Recorded, Height
  <2> QED
    BY <1>1, <1>3, <2>1, <2>2, <2>3
<1> QED
  BY <1>2, <1>3

LEMMA SeenStep ==
    ASSUME TypeOK, UnitOK, RecordedChain, NeverReturns, BlocksSeen, [Next]_vars
    PROVE  BlocksSeen'
<1> USE DEF BlocksSeen
<1>1. CASE /\ UNCHANGED scanned /\ held' \in {held, None}
           /\ unit'.kind = "rewind" => unit' = unit
  <2>1. \A b \in Block : Seen(b) => Seen(b)'
    BY SeenStays
  <2>2. \A h \in Recorded : scanned[h] \in Block
    BY RecordedBlocks
  <2>3. Recorded' = Recorded
    BY <1>1 DEF Recorded
  <2>4. /\ held # None => held \in Block
        /\ (unit.kind = "rewind" /\ unit.ancestor # None) => unit.ancestor \in Block
    BY DEF TypeOK, Unit
  <2> QED
    BY <1>1, <2>1, <2>2, <2>3, <2>4 DEF Seen, Gone
<1>2. CASE NodeMoves \/ BeginRound \/ Crash \/ UnitFails \/ UNCHANGED vars
  <2>1. BeginRound => held' \in {held, None}
    BY DEF BeginRound, Carried
  <2> QED
    BY <1>1, <1>2, <2>1
       DEF NodeMoves, BeginRound, Crash, UnitFails, Idle, vars, round, chainStore, payments
<1>3. CASE ChainTier /\ ~FinishJob /\ ~AskAncestor
  BY <1>1, <1>3
     DEF ChainTier, Detect, DetectFails, OpenJob, RestartForBranch, CheckBranch,
         ExtendBranch, Collect, LocateCandidate, CandidateFails, Idle, chainStore, payments
<1>4. CASE AskKeyImages \/ ApplyLocation \/ ApplyProof
  BY <1>1, <1>4 DEF AskKeyImages, ApplyLocation, ApplyProof, Idle, chainStore, payments
<1>5. CASE \E x \in Tx : CheckVanished(x) \/ RecheckVoid(x) \/ VoidAges(x) \/ RecordPool(x)
  BY <1>1, <1>5
     DEF CheckVanished, RecheckVoid, VoidAges, StartLookup, RecordPool, round, chainStore,
         payments
<1>6. CASE AskAncestor
  <2>1. /\ unit' = [kind |-> "rewind",
                    ancestor |-> IF job.fork = 0 THEN None ELSE NodeAt(job.fork - 1)]
        /\ UNCHANGED <<node, scanned, held>>
    BY <1>6 DEF AskAncestor, chainStore, payments
  <2>2. job.fork \in 0..MaxHeight + 1
    BY <1>6 DEF AskAncestor, TypeOK, UnitOK, Job
  <2>3. unit'.ancestor # None => Seen(unit'.ancestor)
    BY <2>1, <2>2, NodeHasAnswers, HeightAssumption DEF Height
  <2> QED
    BY <2>1, <2>3 DEF Recorded, Seen, Gone
<1>7. CASE FinishJob
  <2>1. \A h \in Recorded' : \/ h \in Recorded /\ scanned'[h] = scanned[h]
                             \/ unit.ancestor \in Block /\ scanned'[h] = unit.ancestor
    BY <1>7, FinishKeeps
  <2>2. /\ unit.kind = "rewind" /\ unit'.kind # "rewind"
        /\ held' = None /\ UNCHANGED node
    BY <1>7 DEF FinishJob, Idle
  <2>3. \A h \in Recorded' : Seen(scanned'[h])
    BY <2>1, <2>2, HeightAssumption
  <2> QED
    BY <2>2, <2>3 DEF Seen, Gone
<1>8. CASE Seed
  <2>1. \A h \in Recorded' : Seen(scanned'[h])
    BY <1>8, SeedRecords, NodeHasAnswers
  <2> QED
    BY <1>8, <2>1 DEF Seed, Seen, Gone, round
<1>9. CASE \E h \in Height : FetchBlock(h)
  <2>1. PICK h \in Height : FetchBlock(h)
    BY <1>9
  <2>2. Seen(held')
    BY <2>1, NodeHasAnswers DEF FetchBlock
  <2> QED
    BY <2>1, <2>2 DEF FetchBlock, Recorded, Seen, Gone
<1>10. CASE \E S \in SUBSET Tenant : CommitBlock(S)
  <2>1. PICK S \in SUBSET Tenant : CommitBlock(S)
    BY <1>10
  <2>2. \A h \in Recorded' : Seen(scanned'[h])
    BY <2>1, CommitAdds, HeightAssumption
  <2> QED
    BY <2>1, <2>2 DEF CommitBlock, Seen, Gone
<1> QED
  BY <1>2, <1>3, <1>4, <1>5, <1>6, <1>7, <1>8, <1>9, <1>10 DEF Next

-----------------------------------------------------------------------------

\* What the running unit was answered about a payment is what the recorded
\* blocks say of it, but for blocks the node left for good.
AnswersSeen ==
    /\ unit.kind = "located" =>
          \A h \in Recorded : (unit.tx \in Holds[scanned[h]] <=> unit.at = h) \/ Gone(scanned[h])
    /\ unit.kind = "judged" /\ ~unit.spent =>
          \A h \in Recorded : unit.tx \notin Holds[scanned[h]] \/ Gone(scanned[h])

LEMMA BlockHasIt ==
    ASSUME TypeOK, RecordedChain, NEW h \in Recorded, OnChain(node, scanned[h]),
           NEW x \in Tx, x \in Holds[scanned[h]]
    PROVE  MinedIn(node, x) /\ MinedAt(node, x) = h
<1>1. /\ h \in Height /\ node \in Block
      /\ Chain[node][h] = scanned[h] /\ Chain[node][h] # None /\ x \in Holds[Chain[node][h]]
  BY RecordedBlocks, HeightAssumption DEF OnChain, TypeOK
<1>2. \A k \in Height : Chain[node][k] # None /\ x \in Holds[Chain[node][k]] => k = h
  BY <1>1, ContentAssumption
<1> QED
  BY <1>1, <1>2 DEF MinedIn, MinedAt

LEMMA MinedAtHolds ==
    ASSUME NEW x, MinedIn(node, x)
    PROVE  /\ MinedAt(node, x) \in Height
           /\ x \in Holds[Chain[node][MinedAt(node, x)]]
BY DEF MinedIn, MinedAt

\* The node's answer and the recorded block agree where the node has it.
LEMMA LocationsAgree ==
    ASSUME TypeOK, RecordedChain, BlocksSeen, NEW x \in Tx, NEW at \in Locations(x),
           NEW h \in Recorded
    PROVE  (x \in Holds[scanned[h]] <=> at = h) \/ Gone(scanned[h])
<1> SUFFICES ASSUME OnChain(node, scanned[h]) PROVE x \in Holds[scanned[h]] <=> at = h
  BY DEF BlocksSeen, Seen
<1>1. h \in Height /\ Chain[node][h] = scanned[h]
  BY RecordedBlocks DEF OnChain
<1>2. x \in Holds[scanned[h]] => at = h
  BY BlockHasIt DEF Locations
<1>3. ASSUME at = h PROVE x \in Holds[scanned[h]]
  <2>1. MinedIn(node, x) /\ at = MinedAt(node, x)
    BY <1>1, <1>3, ScanAssumption DEF Locations
  <2> QED
    BY <1>1, <1>3, <2>1, MinedAtHolds
<1> QED
  BY <1>2, <1>3

LEMMA AnswersStep ==
    ASSUME TypeOK, UnitOK, RecordedChain, BlocksSeen, AnswersSeen, [Next]_vars
    PROVE  AnswersSeen'
<1> USE DEF AnswersSeen
<1>1. CASE unit'.kind \notin {"located", "judged"}
  BY <1>1
<1>2. CASE unit' = unit /\ scanned' = scanned
  <2>1. \A b : Gone(b) => Gone(b)'
    BY GoneStays
  <2> QED
    BY <1>2, <2>1 DEF Recorded, Gone
<1>3. ASSUME UNCHANGED <<node, scanned>>,
             NEW why, NEW x \in Tx, NEW at \in Locations(x),
             unit' = [kind |-> "located", why |-> why, tx |-> x, at |-> at]
      PROVE  AnswersSeen'
  BY <1>3, LocationsAgree DEF Recorded, Gone
<1>4. CASE NodeMoves \/ BeginRound \/ Crash \/ UnitFails \/ UNCHANGED vars
  BY <1>1, <1>2, <1>4
     DEF NodeMoves, BeginRound, Crash, UnitFails, Idle, vars, round, chainStore, payments
<1>5. CASE ChainTier /\ ~LocateCandidate
  BY <1>1, <1>5
     DEF ChainTier, Detect, DetectFails, OpenJob, RestartForBranch, CheckBranch,
         ExtendBranch, Collect, CandidateFails, AskAncestor, FinishJob, Idle
<1>6. CASE LocateCandidate
  BY <1>3, <1>6 DEF LocateCandidate, TypeOK, chainStore, payments
<1>7. CASE ApplyLocation \/ ApplyProof
  BY <1>1, <1>7 DEF ApplyLocation, ApplyProof, Idle
<1>8. CASE AskKeyImages
  <2>1. /\ unit.tx \in Tx /\ UNCHANGED <<node, scanned>>
        /\ unit' = [kind |-> "judged", why |-> unit.why, tx |-> unit.tx,
                    spent |-> SpentIn(node, unit.tx), by |-> node]
    BY <1>8 DEF AskKeyImages, TypeOK, Unit, chainStore, payments
  <2>2. ASSUME NEW h \in Recorded, unit.tx \in Holds[scanned[h]], ~Gone(scanned[h])
        PROVE  SpentIn(node, unit.tx)
    BY <2>1, <2>2, BlockHasIt DEF BlocksSeen, Seen, SpentIn
  <2> QED
    BY <2>1, <2>2 DEF Recorded, Gone
<1>9. CASE \E x \in Tx : CheckVanished(x) \/ RecheckVoid(x) \/ VoidAges(x)
  BY <1>2, <1>3, <1>9
     DEF CheckVanished, RecheckVoid, VoidAges, StartLookup, round, chainStore, payments
<1>10. CASE \E x \in Tx : RecordPool(x)
  BY <1>2, <1>10 DEF RecordPool, round, chainStore, payments
<1>11. CASE Seed \/ (\E h \in Height : FetchBlock(h)) \/ \E S \in SUBSET Tenant : CommitBlock(S)
  BY <1>1, <1>11 DEF Seed, FetchBlock, CommitBlock, BlocksUnit, Idle, round
<1> QED
  BY <1>4, <1>5, <1>6, <1>7, <1>8, <1>9, <1>10, <1>11 DEF Next

\* A payment counted from a recorded block that doesn't hold it: the node left
\* that block for good.
CountedSeen ==
    \A x \in Tx : \A h \in Recorded :
        (/\ Valid(x) /\ row[x].height = h /\ ~IsLowest(h) /\ x \notin Holds[scanned[h]])
        => Gone(scanned[h])

\* A row after a step: as it was, without a height, or as the unit's answer says.
LEMMA RowsMove ==
    ASSUME TypeOK, [Next]_vars, ~\E S \in SUBSET Tenant : CommitBlock(S), NEW x \in Tx
    PROVE  \/ row'[x] = row[x]
           \/ row[x] = None /\ row'[x] = [height |-> None, voided |-> FALSE]
           \/ row'[x] = [height |-> None, voided |-> TRUE]
           \/ /\ CandidateFails
              /\ row[x] # None /\ ~row[x].voided /\ row'[x] = [row[x] EXCEPT !.height = None]
           \/ /\ ApplyLocation /\ unit.tx = x /\ unit.at \in Height
              /\ row'[x] = [height |-> unit.at, voided |-> FALSE]
           \/ /\ ApplyLocation /\ unit.tx = x /\ unit.at \notin Height
              /\ row[x] # None /\ ~row[x].voided /\ row'[x] = [row[x] EXCEPT !.height = None]
           \/ /\ ApplyProof /\ unit.tx = x /\ ~unit.spent
              /\ row'[x] \in {[height |-> None, voided |-> FALSE], WithHeight(row[x], None)}
<1>1. CASE UNCHANGED row
  BY <1>1
<1>2. CASE NodeMoves \/ BeginRound \/ Crash \/ UnitFails \/ AskKeyImages \/ UNCHANGED vars
  BY <1>1, <1>2 DEF NodeMoves, BeginRound, Crash, UnitFails, AskKeyImages, vars, payments
<1>3. CASE ChainTier /\ ~CandidateFails
  BY <1>1, <1>3
     DEF ChainTier, Detect, DetectFails, OpenJob, RestartForBranch, CheckBranch,
         ExtendBranch, Collect, LocateCandidate, FinishJob, AskAncestor, payments
<1>4. CASE CandidateFails
  <2>1. PICK y \in Tx : row' = row \/ row' = [row EXCEPT ![y] = WithHeight(@, None)]
    BY <1>4 DEF CandidateFails, TypeOK, Unit
  <2>2. row'[x] = row[x] \/ row'[x] = WithHeight(row[x], None)
    BY <2>1 DEF TypeOK
  <2> QED
    BY <1>4, <2>2 DEF WithHeight
<1>5. CASE ApplyLocation
  <2>1. \/ row' = row
        \/ unit.at \notin Height /\ row' = [row EXCEPT ![unit.tx] = WithHeight(@, None)]
        \/ unit.at \in Height /\ row' = [row EXCEPT ![unit.tx] = [height |-> unit.at, voided |-> FALSE]]
    BY <1>5 DEF ApplyLocation
  <2>2. CASE x = unit.tx
    BY <1>5, <2>1, <2>2 DEF WithHeight, TypeOK
  <2>3. CASE x # unit.tx
    BY <2>1, <2>3 DEF TypeOK
  <2> QED
    BY <2>2, <2>3
<1>6. CASE ApplyProof
  <2>1. \/ row' = row
        \/ row' = [row EXCEPT ![unit.tx] = [height |-> None, voided |-> TRUE]]
        \/ ~unit.spent /\ row' = [row EXCEPT ![unit.tx] = [height |-> None, voided |-> FALSE]]
        \/ ~unit.spent /\ row' = [row EXCEPT ![unit.tx] = WithHeight(@, None)]
    BY <1>6 DEF ApplyProof
  <2>2. CASE x = unit.tx
    BY <1>6, <2>1, <2>2 DEF TypeOK
  <2>3. CASE x # unit.tx
    BY <2>1, <2>3 DEF TypeOK
  <2> QED
    BY <2>2, <2>3
<1>7. CASE \E y \in Tx : CheckVanished(y) \/ RecheckVoid(y) \/ VoidAges(y) \/ RecordPool(y)
  BY <1>1, <1>7 DEF CheckVanished, RecheckVoid, VoidAges, StartLookup, RecordPool, TypeOK, payments
<1>8. CASE Seed \/ \E h \in Height : FetchBlock(h)
  BY <1>1, <1>8 DEF Seed, FetchBlock, payments
<1> QED
  BY <1>2, <1>3, <1>4, <1>5, <1>6, <1>7, <1>8 DEF Next

\* What a commit leaves counted at the block's height is in the block, and
\* what isn't in it stays as it was or loses that height.
LEMMA CommitCounts ==
    ASSUME TypeOK, NEW S \in SUBSET Tenant, CommitBlock(S), Extends(held), NEW x \in Tx
    PROVE  /\ Valid(x)' /\ row'[x].height = Depth[held] => x \in Holds[held]
           /\ Valid(x)' /\ row'[x].height \notin {None, Depth[held]} => row'[x] = row[x]
           /\ Valid(x)' /\ x \in Holds[held] /\ Owner[x] \in S => row'[x].height = Depth[held]
           /\ Valid(x)' /\ ~(x \in Holds[held] /\ Owner[x] \in S) =>
                 \/ row'[x] = row[x]
                 \/ Valid(x) /\ row[x].height = Depth[held] /\ x \notin Holds[held]
<1> DEFINE d == Depth[held]
           r == IF x \in ClaimAt(d) /\ x \notin Holds[held] THEN WithHeight(row[x], None) ELSE row[x]
<1>1. d \in Height /\ d # None
  BY DepthIsHeight, HeightAssumption DEF CommitBlock, TypeOK
<1>2. row'[x] = IF x \in Holds[held] /\ Owner[x] \in S
                THEN IF r = None THEN [height |-> d, voided |-> FALSE] ELSE WithHeight(r, d)
                ELSE r
  BY CommitAdds DEF RowsAfter
<1>3. row[x] \in RowType
  BY DEF TypeOK, RowType
<1>4. r = row[x] \/ (/\ Valid(x) /\ row[x].height = d /\ x \notin Holds[held]
                     /\ r = [height |-> None, voided |-> FALSE])
  BY <1>3 DEF ClaimAt, WithHeight, Valid, RowType
<1>5. x \notin Holds[held] /\ Valid(x) /\ row[x].height = d => r = [height |-> None, voided |-> FALSE]
  BY <1>3 DEF ClaimAt, WithHeight, Valid, RowType
<1>6. CASE x \in Holds[held] /\ Owner[x] \in S
  BY <1>1, <1>2, <1>3, <1>4, <1>6 DEF WithHeight, Valid, RowType
<1>7. CASE ~(x \in Holds[held] /\ Owner[x] \in S)
  BY <1>1, <1>2, <1>3, <1>4, <1>5, <1>7 DEF Valid
<1> QED
  BY <1>6, <1>7

LEMMA CountedStep ==
    ASSUME TypeOK, UnitOK, RecordedChain, AnswersSeen, CountedSeen, [Next]_vars
    PROVE  CountedSeen'
<1> USE HeightAssumption
<1> SUFFICES ASSUME NEW x \in Tx, NEW h \in Recorded',
                    Valid(x)', row'[x].height = h, ~IsLowest(h)', x \notin Holds[scanned'[h]]
             PROVE  Gone(scanned[h])'
  BY DEF CountedSeen
<1>1. h \in Height /\ h # None
  BY DEF Recorded
<1>2. \A b : Gone(b) => Gone(b)'
  BY GoneStays
<1>3. ASSUME h \in Recorded, scanned'[h] = scanned[h], IsLowest(h) => IsLowest(h)', row'[x] = row[x]
      PROVE  Gone(scanned[h])'
  <2>1. Valid(x) /\ row[x].height = h /\ ~IsLowest(h) /\ x \notin Holds[scanned[h]]
    BY <1>3 DEF Valid
  <2>2. Gone(scanned[h])
    BY <1>3, <2>1 DEF CountedSeen
  <2> QED
    BY <1>2, <1>3, <2>2 DEF Gone
<1>4. CASE UNCHANGED scanned
  <2>1. h \in Recorded /\ scanned'[h] = scanned[h] /\ (IsLowest(h) => IsLowest(h)')
    BY <1>4 DEF Recorded, IsLowest
  <2>2. CASE \E S \in SUBSET Tenant : CommitBlock(S)
    <3>1. PICK S \in SUBSET Tenant : CommitBlock(S)
      BY <2>2
    <3>2. CASE ~Extends(held)
      BY <1>3, <2>1, <3>1, <3>2, CommitAdds
    <3>3. CASE Extends(held)
      <4>1. h # Depth[held]
        BY <3>1, <3>3, CommitAdds, CommitCounts
      <4> QED
        BY <1>1, <1>3, <2>1, <3>1, <3>3, <4>1, CommitCounts
    <3> QED
      BY <3>2, <3>3
  <2>3. CASE ~\E S \in SUBSET Tenant : CommitBlock(S)
    <3>1. \/ row'[x] = row[x]
          \/ /\ ApplyLocation /\ unit.tx = x /\ unit.at = h
      <4>1. row[x] \in RowType
        BY DEF TypeOK, RowType
      <4>2. row[x] # None => [row[x] EXCEPT !.height = None].height = None
        BY <4>1 DEF RowType
      <4>3. WithHeight(row[x], None).height = None \/ WithHeight(row[x], None) = row[x]
        BY <4>1 DEF WithHeight, RowType
      <4>4. \A v : [height |-> None, voided |-> v].height = None
        OBVIOUS
      <4>5. \/ row'[x] = row[x] \/ row'[x].height = None
            \/ ApplyLocation /\ unit.tx = x /\ row'[x] = [height |-> unit.at, voided |-> FALSE]
        BY <2>3, <4>2, <4>3, <4>4, RowsMove
      <4> QED
        BY <1>1, <4>5
    <3>2. CASE ApplyLocation /\ unit.tx = x /\ unit.at = h
      <4>1. unit.kind = "located"
        BY <3>2 DEF ApplyLocation
      <4>2. Gone(scanned[h])
        BY <1>4, <2>1, <3>2, <4>1 DEF AnswersSeen
      <4> QED
        BY <1>2, <1>4, <4>2 DEF Gone
    <3> QED
      BY <1>3, <2>1, <3>1, <3>2
  <2> QED
    BY <2>2, <2>3
<1>5. CASE FinishJob
  <2>1. h \in Recorded /\ scanned'[h] = scanned[h] /\ (IsLowest(h) => IsLowest(h)')
    BY <1>5, FinishKeeps
  <2> QED
    BY <1>3, <1>5, <2>1 DEF FinishJob, payments
<1>6. CASE Seed
  BY <1>6, SeedRecords
<1>7. CASE \E S \in SUBSET Tenant : CommitBlock(S)
  <2>1. PICK S \in SUBSET Tenant : CommitBlock(S)
    BY <1>7
  <2>2. CASE ~Extends(held)
    BY <1>4, <2>1, <2>2, CommitAdds
  <2>3. CASE Extends(held)
    <3>1. h # Depth[held]
      BY <2>1, <2>3, CommitAdds, CommitCounts
    <3>2. h \in Recorded /\ scanned'[h] = scanned[h] /\ (IsLowest(h) => IsLowest(h)')
      BY <2>1, <3>1, CommitAdds
    <3> QED
      BY <1>1, <1>3, <2>1, <2>3, <3>1, <3>2, CommitCounts
  <2> QED
    BY <2>2, <2>3
<1>8. CASE ChainTier /\ ~FinishJob
  BY <1>4, <1>8
     DEF ChainTier, Detect, DetectFails, OpenJob, RestartForBranch, CheckBranch,
         ExtendBranch, Collect, LocateCandidate, CandidateFails, AskAncestor, chainStore, payments
<1>9. CASE NodeMoves \/ BeginRound \/ Crash \/ UnitFails \/ UNCHANGED vars
  BY <1>4, <1>9 DEF NodeMoves, BeginRound, Crash, UnitFails, vars, chainStore, payments
<1>10. CASE AskKeyImages \/ ApplyLocation \/ ApplyProof
  BY <1>4, <1>10 DEF AskKeyImages, ApplyLocation, ApplyProof, chainStore, payments
<1>11. CASE \E y \in Tx : CheckVanished(y) \/ RecheckVoid(y) \/ VoidAges(y) \/ RecordPool(y)
  BY <1>4, <1>11
     DEF CheckVanished, RecheckVoid, VoidAges, StartLookup, RecordPool, chainStore, payments
<1>12. CASE \E k \in Height : FetchBlock(k)
  BY <1>4, <1>12 DEF FetchBlock
<1> QED
  BY <1>5, <1>6, <1>7, <1>8, <1>9, <1>10, <1>11, <1>12 DEF Next

\* What HeightIsRecorded rests on.
CountInv == IInv /\ BlocksSeen /\ AnswersSeen /\ CountedSeen

LEMMA CountStarts == ASSUME Init PROVE CountInv
<1>1. IInv
  BY TypeInit DEF Init, IInv, RecordedChain, CursorsRecorded, CursorsSet, NoneForgotten, Recorded
<1> QED
  BY <1>1 DEF Init, CountInv, BlocksSeen, AnswersSeen, CountedSeen, Recorded, Idle

LEMMA CountStep ==
    ASSUME NeverReturns, CountInv, [Next]_vars PROVE CountInv'
BY TypeStep, UnitStep, ChainStep, SetStep, KnownStep, SeenStep, AnswersStep, CountedStep
   DEF CountInv, IInv

\* If the node never returns to a block it left, no confirmation is counted
\* from a recorded block that doesn't hold the payment.
THEOREM CountedFromItsBlock ==
    ASSUME NeverReturns PROVE Spec => []HeightIsRecorded
<1>1. Init => CountInv
  BY CountStarts
<1>2. CountInv /\ [Next]_vars => CountInv'
  BY CountStep
<1>3. CountInv => HeightIsRecorded
  <2> SUFFICES ASSUME CountInv, NodeAgrees, NEW x \in Tx, NEW h \in Recorded,
                      Valid(x), row[x].height = h, ~IsLowest(h), x \notin Holds[scanned[h]]
               PROVE  FALSE
    BY DEF HeightIsRecorded
  <2>1. Gone(scanned[h])
    BY DEF CountInv, CountedSeen
  <2>2. OnChain(node, scanned[h])
    BY AgreesBelow DEF CountInv, IInv
  <2>3. node \in After(node)
    BY DEF After, CountInv, IInv, TypeOK
  <2> QED
    BY <2>1, <2>2, <2>3 DEF Gone
<1> QED
  BY <1>1, <1>2, <1>3, PTL DEF Spec

-----------------------------------------------------------------------------

\* A payment counted from elsewhere than the recorded block that holds it: the
\* node left the block for good, or the open job is about to drop it.
MissedSeen ==
    \A x \in Tx : \A h \in Recorded :
        ScannedAt(x, h) /\ Valid(x) /\ row[x].height # h
        => Gone(scanned[h]) \/ (job # None /\ job.fork <= h)

\* A job is deepened or finished, never dropped.
LEMMA JobStays ==
    ASSUME TypeOK, [Next]_vars, ~FinishJob, job # None
    PROVE  job' # None /\ job'.fork <= job.fork
<1> USE ScanAssumption
<1>1. job \in Job /\ job.fork \in Int
  BY DEF TypeOK, Job
<1>2. CASE UNCHANGED job
  BY <1>1, <1>2
<1>3. CASE OpenJob
  <2>1. unit.fork \in 0..MaxHeight + 1
    BY <1>3 DEF OpenJob, TypeOK, Unit
  <2>2. \A S \in SUBSET Tx : NewJob(unit.fork, S) \in Job /\ NewJob(unit.fork, S).fork = unit.fork
    BY <2>1 DEF NewJob, Job
  <2>3. Rows \cup job.candidates \in SUBSET Tx
    BY <1>1 DEF Rows, Job
  <2> QED
    BY <1>1, <1>2, <1>3, <2>1, <2>2, <2>3 DEF OpenJob
<1>4. CASE RestartForBranch
  <2>1. NewJob(job.fork, Rows \cup job.candidates) \in Job
    BY <1>1 DEF NewJob, Rows, Job
  <2> QED
    BY <1>1, <1>4, <2>1 DEF RestartForBranch, NewJob
<1>5. CASE Collect
  <2>1. \A p \in {"collect_unconfirmed", "process"} :
           [job EXCEPT !.phase = p] \in Job /\ [job EXCEPT !.phase = p].fork = job.fork
    BY <1>1 DEF Job
  <2>2. \/ job' = [job EXCEPT !.phase = "collect_unconfirmed"]
        \/ job' = [job EXCEPT !.phase = "process"]
    BY <1>5, Zenon DEF Collect
  <2>3. job' \in Job /\ job'.fork = job.fork
    BY <2>1, <2>2, Zenon
  <2> QED
    BY <1>1, <2>3
<1> QED
  BY <1>2, <1>3, <1>4, <1>5
     DEF Next, ChainTier, vars, jobStore, NodeMoves, BeginRound, Crash, UnitFails, Detect,
         DetectFails, CheckBranch, ExtendBranch, LocateCandidate, CandidateFails,
         AskAncestor, Seed, FetchBlock, CommitBlock, AskKeyImages, ApplyLocation,
         ApplyProof, CheckVanished, RecheckVoid, VoidAges, StartLookup, RecordPool, payments

LEMMA CommitMisses ==
    ASSUME TypeOK, UnitOK, RecordedChain, CursorsRecorded, MissedSeen,
           NEW S \in SUBSET Tenant, CommitBlock(S), Extends(held),
           NEW x \in Tx, NEW h \in Recorded', ScannedAt(x, h)', Valid(x)', row'[x].height # h
    PROVE  h \in Recorded /\ scanned'[h] = scanned[h] /\ Gone(scanned[h])
<1> USE HeightAssumption
<1> DEFINE d == Depth[held]
           t == Owner[x]
<1>1. /\ held \in Block /\ d \in Height /\ h \in Height /\ t \in Tenant
      /\ cursor' = Advanced(held, S) /\ S \subseteq AtParent(held)
  BY CommitAdds, ScanAssumption DEF Recorded
<1>2. /\ x \in Holds[scanned'[h]] /\ ~IsLowest(h)'
      /\ cursor'[t] # None /\ h <= cursor'[t]
  BY DEF ScannedAt
<1>3. h = d => x \in Holds[held]
  BY <1>2, CommitAdds
<1>4. t \in S => cursor[t] # None /\ cursor[t] + 1 = d /\ cursor'[t] = d
  BY <1>1 DEF Advanced, AtParent
<1>5. t \notin S => cursor'[t] = cursor[t]
  BY <1>1 DEF Advanced
<1>6. cursor[t] # None => \E m \in Recorded : cursor[t] <= m
  BY <1>1 DEF CursorsRecorded
<1>7. cursor[t] \in Height \cup {None} /\ \A m \in Recorded : m \in Height
  BY <1>1 DEF TypeOK, Recorded
<1>8. x \in Holds[held] => (t \notin S \/ h # d)
  BY CommitCounts
<1>9. h \in Recorded /\ scanned'[h] = scanned[h] /\ ~IsLowest(h)
  <2>1. (h \in Recorded /\ scanned'[h] = scanned[h]) \/ (h = d /\ \A k \in Recorded : k < h)
    BY CommitAdds
  <2>2. ~(h = d /\ \A k \in Recorded : k < h)
    BY <1>1, <1>2, <1>3, <1>5, <1>6, <1>7, <1>8 DEF Height
  <2> QED
    BY <1>2, <2>1, <2>2, CommitAdds
<1>10. cursor[t] # None /\ h <= cursor[t]
  BY <1>1, <1>2, <1>3, <1>4, <1>5, <1>7, <1>8 DEF Height
<1>11. ScannedAt(x, h)
  BY <1>2, <1>9, <1>10 DEF ScannedAt
<1>12. ~(x \in Holds[held] /\ t \in S)
  <2> SUFFICES ASSUME x \in Holds[held], t \in S PROVE FALSE
    OBVIOUS
  <2>1. h < d /\ d - 1 \in Height /\ h <= d - 1
    BY <1>1, <1>4, <1>7, <1>10 DEF Height
  <2>2. d - 1 \in Recorded
    BY <1>4, <1>6, <1>7, <1>9, <2>1 DEF RecordedChain, Height
  <2>3. Chain[held][d - 1] = scanned[d - 1]
    BY <1>1, <2>1, <2>2, ParentIsBelow DEF Extends, Parent, Recorded, Height
  <2>4. Chain[scanned[d - 1]][h] = scanned[h]
    BY <1>9, <2>1, <2>2, RecordedIsChain
  <2>5. d - 1 <= Depth[held]
    BY <1>1 DEF Height
  <2>6. Chain[held][h] = scanned[h]
    BY <1>1, <2>1, <2>3, <2>4, <2>5, ChainAssumption
  <2>7. Chain[held][d] = held
    BY <1>1, ChainAssumption
  <2>8. x \in Holds[Chain[held][h]] /\ Chain[held][h] # None /\ Chain[held][d] # None
    BY <1>1, <1>2, <1>9, <2>6, <2>7, RecordedBlocks
  <2>9. h = d
    BY <1>1, <2>7, <2>8, ContentAssumption
  <2> QED
    BY <1>1, <2>1, <2>9 DEF Height
<1>13. Valid(x) /\ row[x].height # h
  <2>1. row'[x] = row[x] \/ (Valid(x) /\ row[x].height = d /\ x \notin Holds[held])
    BY <1>12, CommitCounts
  <2> QED
    BY <1>3, <2>1 DEF Valid
<1>14. job = None
  BY DEF CommitBlock, BlocksUnit
<1> QED
  BY <1>9, <1>11, <1>13, <1>14 DEF MissedSeen

LEMMA MissedStep ==
    ASSUME TypeOK, UnitOK, RecordedChain, CursorsRecorded, CursorsSet, NoneForgotten,
           AnswersSeen, MissedSeen, [Next]_vars, ~ForgetsFound
    PROVE  MissedSeen'
<1> USE HeightAssumption
<1> SUFFICES ASSUME NEW x \in Tx, NEW h \in Recorded',
                    ScannedAt(x, h)', Valid(x)', row'[x].height # h
             PROVE  Gone(scanned[h])' \/ (job' # None /\ job'.fork <= h)
  BY DEF MissedSeen
<1> DEFINE t == Owner[x]
<1>1. h \in Height /\ h # None /\ t \in Tenant
  BY ScanAssumption DEF Recorded
<1>2. \A b : Gone(b) => Gone(b)'
  BY GoneStays
<1>3. ASSUME Gone(scanned[h]), scanned'[h] = scanned[h] PROVE Gone(scanned[h])'
  BY <1>2, <1>3 DEF Gone
<1>4. job \in Job \cup {None} /\ job' \in Job \cup {None}
  BY TypeStep DEF TypeOK
<1>5. ASSUME ~FinishJob, job # None, job.fork <= h PROVE job' # None /\ job'.fork <= h
  <2>1. job' # None /\ job'.fork <= job.fork
    BY <1>5, JobStays
  <2> QED
    BY <1>1, <1>4, <1>5, <2>1 DEF Job, Height
<1>6. ASSUME ~FinishJob, h \in Recorded, scanned'[h] = scanned[h], ScannedAt(x, h),
             Valid(x), row[x].height # h
      PROVE  Gone(scanned[h])' \/ (job' # None /\ job'.fork <= h)
  BY <1>3, <1>5, <1>6 DEF MissedSeen
<1>7. CASE /\ h \in Recorded /\ scanned'[h] = scanned[h] /\ ScannedAt(x, h)
           /\ ~FinishJob /\ ~\E S \in SUBSET Tenant : CommitBlock(S)
  <2>1. row[x] # None /\ row[x] \in RowType /\ x \in Holds[scanned[h]]
    BY <1>7 DEF NoneForgotten, ScannedAt, TypeOK, RowType
  <2>2. CASE row'[x] = row[x]
    BY <1>6, <1>7, <2>2 DEF Valid
  <2>3. CASE row'[x] = [height |-> None, voided |-> TRUE]
    BY <2>3 DEF Valid
  <2>4. CASE CandidateFails /\ ~row[x].voided /\ row'[x] = [row[x] EXCEPT !.height = None]
    <3>1. Valid(x) /\ row'[x].height = None
      BY <2>1, <2>4 DEF Valid, RowType
    <3>2. CASE row[x].height # h
      BY <1>6, <1>7, <3>1, <3>2
    <3>3. CASE row[x].height = h
      <4>1. ~(h < job.fork)
        BY <1>1, <2>4, <3>1, <3>3 DEF ForgetsFound
      <4>2. job # None
        BY <2>4 DEF CandidateFails, UnitOK
      <4>3. job.fork <= h
        BY <1>1, <1>4, <4>1, <4>2 DEF Job, Height
      <4> QED
        BY <1>5, <1>7, <4>2, <4>3
    <3> QED
      BY <3>2, <3>3
  <2>5. CASE ApplyLocation /\ unit.tx = x /\ unit.at # h
    <3>1. Gone(scanned[h])
      BY <1>7, <2>1, <2>5 DEF ApplyLocation, AnswersSeen
    <3> QED
      BY <1>3, <1>7, <3>1
  <2>6. CASE ApplyProof /\ unit.tx = x /\ ~unit.spent
    <3>1. Gone(scanned[h])
      BY <1>7, <2>1, <2>6 DEF ApplyProof, AnswersSeen
    <3> QED
      BY <1>3, <1>7, <3>1
  <2>7. \A k : [height |-> k, voided |-> FALSE].height = k
    OBVIOUS
  <2> QED
    BY <1>1, <1>7, <2>1, <2>2, <2>3, <2>4, <2>5, <2>6, <2>7, RowsMove
<1>8. CASE UNCHANGED chainStore /\ ~FinishJob /\ ~\E S \in SUBSET Tenant : CommitBlock(S)
  <2>1. h \in Recorded /\ scanned'[h] = scanned[h] /\ ScannedAt(x, h)
    BY <1>8 DEF chainStore, payments, ScannedAt, Recorded, IsLowest
  <2> QED
    BY <1>7, <1>8, <2>1
<1>9. CASE FinishJob
  <2>1. ~IsLowest(h)' /\ x \in Holds[scanned'[h]] /\ cursor'[t] # None /\ h <= cursor'[t]
    BY DEF ScannedAt
  <2>2. /\ h \in Recorded /\ h < job.fork /\ scanned'[h] = scanned[h]
        /\ IsLowest(h) => IsLowest(h)'
        /\ cursor[t] # None /\ cursor'[t] <= cursor[t]
    BY <1>1, <1>9, <2>1, FinishKeeps
  <2>3. cursor[t] \in Height /\ cursor'[t] \in Height
    BY <1>1, <2>1, <2>2, TypeStep DEF TypeOK
  <2>4. ScannedAt(x, h)
    BY <1>1, <2>1, <2>2, <2>3 DEF ScannedAt, Height
  <2>5. Valid(x) /\ row[x].height # h /\ job # None
    BY <1>9 DEF FinishJob, Valid, payments
  <2>6. ~(job.fork <= h)
    BY <1>1, <1>4, <2>2, <2>5 DEF Job, Height
  <2>7. Gone(scanned[h])
    BY <2>2, <2>4, <2>5, <2>6 DEF MissedSeen
  <2> QED
    BY <1>3, <2>2, <2>7
<1>10. CASE Seed
  BY <1>10, SeedRecords DEF ScannedAt
<1>11. ASSUME NEW k \in Height, FetchBlock(k)
       PROVE  Gone(scanned[h])' \/ (job' # None /\ job'.fork <= h)
  <2>1. PICK top \in Recorded : IsHighWater(top) /\ cursor' = Repaired(top)
    BY <1>11 DEF FetchBlock
  <2>2. Recorded' = Recorded /\ scanned' = scanned /\ row' = row /\ job' = job
    BY <1>11 DEF FetchBlock, Recorded, jobStore, payments
  <2>3. ~IsLowest(h) /\ x \in Holds[scanned[h]]
    BY <2>2 DEF IsLowest, ScannedAt
  <2>4. cursor[t] # None
    BY <1>1, <2>2, <2>3 DEF CursorsSet
  <2>5. cursor'[t] <= cursor[t] /\ cursor'[t] \in Int /\ cursor[t] \in Int
    BY <1>1, <2>1, <2>4 DEF Repaired, TypeOK, Height, Recorded
  <2>6. ScannedAt(x, h)
    BY <1>1, <2>2, <2>3, <2>4, <2>5 DEF ScannedAt, Height
  <2>7. Valid(x) /\ row[x].height # h
    BY <2>2 DEF Valid
  <2>8. Gone(scanned[h]) \/ (job # None /\ job.fork <= h)
    BY <2>2, <2>6, <2>7 DEF MissedSeen
  <2> QED
    BY <1>3, <2>2, <2>8
<1>12. ASSUME NEW S \in SUBSET Tenant, CommitBlock(S)
       PROVE  Gone(scanned[h])' \/ (job' # None /\ job'.fork <= h)
  <2>1. CASE ~Extends(held)
    <3>1. h \in Recorded /\ scanned'[h] = scanned[h] /\ row' = row /\ ScannedAt(x, h)
      BY <1>12, <2>1 DEF CommitBlock, chainStore, payments, ScannedAt, Recorded, IsLowest
    <3>2. Gone(scanned[h]) \/ (job # None /\ job.fork <= h)
      BY <3>1 DEF MissedSeen, Valid
    <3>3. job' = job
      BY <1>12 DEF CommitBlock, jobStore
    <3> QED
      BY <1>3, <3>1, <3>2, <3>3
  <2>2. CASE Extends(held)
    BY <1>3, <1>12, <2>2, CommitMisses
  <2> QED
    BY <2>1, <2>2
<1>13. CASE ~\E S \in SUBSET Tenant : CommitBlock(S)
  <2>1. CASE NodeMoves \/ BeginRound \/ Crash \/ UnitFails \/ UNCHANGED vars
    BY <1>8, <1>9, <1>13, <2>1 DEF NodeMoves, BeginRound, Crash, UnitFails, vars
  <2>2. CASE ChainTier /\ ~FinishJob
    BY <1>8, <1>13, <2>2
       DEF ChainTier, Detect, DetectFails, OpenJob, RestartForBranch, CheckBranch,
           ExtendBranch, Collect, LocateCandidate, CandidateFails, AskAncestor
  <2>3. CASE AskKeyImages \/ ApplyLocation \/ ApplyProof
    BY <1>8, <1>9, <1>13, <2>3 DEF AskKeyImages, ApplyLocation, ApplyProof
  <2>4. CASE \E y \in Tx : CheckVanished(y) \/ RecheckVoid(y) \/ VoidAges(y) \/ RecordPool(y)
    BY <1>8, <1>9, <1>13, <2>4 DEF CheckVanished, RecheckVoid, VoidAges, StartLookup, RecordPool
  <2> QED
    BY <1>9, <1>10, <1>11, <1>13, <2>1, <2>2, <2>3, <2>4 DEF Next, ChainTier
<1> QED
  BY <1>12, <1>13

\* If the node never returns to a block it left, and no candidate is given up on
\* that was found below the job's fork meanwhile, no payment in a recorded
\* block that its store has scanned is counted from anywhere else.
THEOREM NonePassedOver ==
    ASSUME NeverReturns PROVE Spec /\ [][~ForgetsFound]_vars => []NoMissedPayment
<1> DEFINE MInv == CountInv /\ MissedSeen
<1>1. Init => MInv
  BY CountStarts DEF Init, MissedSeen, Recorded
<1>2. MInv /\ [Next]_vars /\ [~ForgetsFound]_vars => MInv'
  <2>1. CASE UNCHANGED vars
    BY <2>1
       DEF CountInv, IInv, TypeOK, UnitOK, RecordedChain, CursorsRecorded, CursorsSet, NoneForgotten,
           BlocksSeen, AnswersSeen, CountedSeen, MissedSeen, vars, round, chainStore, payments, jobStore,
           Recorded, Seen, Gone, Valid, IsLowest, ScannedAt
  <2>2. CASE ~ForgetsFound
    BY <2>2, CountStep, MissedStep DEF CountInv, IInv
  <2> QED
    BY <2>1, <2>2
<1>3. MInv => NoMissedPayment
  <2> SUFFICES ASSUME MInv PROVE NoMissedPayment
    OBVIOUS
  <2>1. NoneForgotten
    BY DEF CountInv, IInv
  <2>2. ASSUME job = None, NodeAgrees, NEW x \in Tx, NEW h \in Recorded, ScannedAt(x, h),
               ~row[x].voided, row[x].height # h
        PROVE  FALSE
    <3>1. Valid(x)
      BY <2>1, <2>2 DEF NoneForgotten, Valid
    <3>2. Gone(scanned[h])
      BY <2>2, <3>1 DEF MissedSeen
    <3>3. OnChain(node, scanned[h])
      BY <2>2, AgreesBelow DEF CountInv, IInv
    <3>4. node \in After(node)
      BY DEF After, CountInv, IInv, TypeOK
    <3> QED
      BY <3>2, <3>3, <3>4 DEF Gone
  <2> QED
    BY <2>1, <2>2 DEF NoMissedPayment
<1> QED
  BY <1>1, <1>2, <1>3, PTL DEF Spec

=============================================================================
