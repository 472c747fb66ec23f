# A formal model of monokulo's payment engine

Monokulo is a self-hosted, watch-only Monero payment gateway. Its engine
(`crates/engine`) follows the chain of one Monero node per network, finds the
outputs that pay its stores' orders, and decides where each payment stands;
`crates/monokulo` follows the engine's order events and tells the merchants. These
modules model what decides what a merchant is told, and the way it takes to get
there: the scanner's tiers, the pool's two paths, the store's transactions they
run, the rules an order's status is decided by, the scheduler of the tiers, the
event log, its reader, and the webhook deliveries. TLC checks them on small
instances; TLAPS proves the theorems of the eight `*Proofs` modules for every
value of the constants, among them every safety property a passing run checks.

Paths below without a prefix are under `crates/engine/src/`; those that begin with
`monokulo/` are under `crates/monokulo/src/`.

## The system

### Components

| Component | State it keeps | Operations | Modelled in |
|---|---|---|---|
| Monero node (`engine-daemon`) | a chain that grows, is replaced and shrinks | tip, hash of a height, where a transaction is, whether key images are spent | `BlockTree` (external) |
| Chain tier (`work/chain.rs`) | the open job and its work, the remembered branch; `detected`, `rewound` in a round | detect, open or deepen a job, collect, re-examine, rewind | `NetworkScan` |
| Blocks tier (`work/blocks.rs`) | recorded blocks, the stores' cursors, blocks held in memory | seed, repair cursors, fetch, commit, carry | `NetworkScan` |
| Mempool tier and fast path (`work/mempool.rs`, `work/reservations.rs`) | what was scanned with which window, reservations, the rotation and the pages of stores | look at the pool, take a transaction, scan, record, forget | `MempoolScan` |
| Settlement tier (`work/settlement.rs`) | the positions `SettlementTip` and `NodeUnsynchronized` | observe the tip, vanished-payment check, recompute what is owed or due | `Settlement`, `NetworkScan` |
| Upkeep tier (`work/upkeep.rs`) | positions | recheck voids, prune | `NetworkScan` (recheck), `OrderFeed` (events) |
| Payments (`scanner.rs`, `store/mod.rs`) | `order_payments`: height, void | record, move, void, restore | `NetworkScan`, `Settlement` |
| Output-key conflicts (`store/conflicts.rs`) | `superseded_by` | settle at each recompute | `Conflicts` |
| Orders (`store/mod.rs`) | status, received, deadline, when it is due, flags; `pending_payment_recomputes` | create, recompute, cancel | `Settlement` |
| Status rules (`status.rs`, `plan_status`) | none | derive, hold, schedule | `OrderStatus` |
| Scheduler (`work/scheduler.rs`) | slot, shares, outcomes of a round | request, complete | `Scheduler` |
| Order event log and its stream (`store/order_events.rs`, `http/order_events.rs`) | the events, from the oldest kept | append, resume, read a batch, prune | `OrderFeed` |
| monokulo's subscriber (`monokulo/webhooks/subscriber.rs`) | its position | hear an event or a loss, queue deliveries | `OrderFeed` |
| monokulo's webhook deliveries (`monokulo/webhooks/delivery.rs`, `monokulo/db/webhooks.rs`) | the deliveries, the worker's batch | pick, send, record, give up, send again, delete | `Deliveries` |
| Admin API (`http/admin.rs`) | none of its own | `cancel_order`, `lookup_payment`; registration and reads | the first two, in `Settlement` |
| Proof of work (`proof/`, `store/proof.rs`, `engine-pow`) | proven headers, a ceiling | check, attest, proven views | only its hold on a settlement, in `OrderStatus`, and on a conflict, in `Conflicts` |
| monokulo: push notices, orders, relay; accounts, settings, pages; bell; push relay; custody; libraries; UI; tools | | | not modelled (below) |

### How they interact

Everything the tiers share is in one SQLite store; a transaction is atomic and
durable. In a round (`run_round_at`) the scheduler gives each tier, in priority
order, units that run one at a time: chain, blocks, mempool, settlement, upkeep.
A unit asks the node and writes the store; the node can change its branch between
the question and the write, and between two questions. The fast path and the
admin API write the same orders beside the rounds; the fast path and the mempool
tier also share, in memory, what they have scanned. Payment changes leave an
obligation to recompute their order (triggers of migration 0017), blocks and time
make scheduled orders due, and a recompute appends to the event log. monokulo reads
the log as a stream, from a position it keeps in its own database, and queues
each event as a delivery for each webhook of the store, in the transaction that
moves the position. A worker sends the deliveries in batches.

### What is hard about it

- **Stale answers.** A fetched block, a named height, a common ancestor's hash, a
  transaction's place and its key images are each used after the node may have
  left the branch they were true on. A window of orders, a list of the pool and a
  batch of deliveries are each used after what they were read from has changed.
- **Reorganisations of reorganisations.** The chain is replaced while a replaced
  chain is being reconciled, maybe back to the first branch, maybe shorter.
- **Crashes and lost writes.** What a round, a pass or a worker holds in memory is
  lost at any step; the job, the cursors, the obligations, the position and the
  deliveries are not. A database replaced by its backup gives numbers out again.
- **Obligations.** A status is only ever corrected by a recompute somebody owes or
  scheduled; one obligation lost is an order wrong for ever. A transaction
  remembered as scanned is not looked at again while it stays in the pool.
- **Announcements cannot be recalled.** `paid` makes a shop ship, `expired` makes
  it cancel; an event that is passed over, or told out of order, is as wrong.

The hazards, each at its line and with the properties that cover it, are in
`PROJECT.json`.

## The modules

### BlockTree: the node

A constant tree of blocks, the transactions each block holds (`Holds`) and those
the inputs of which another of its transactions spends (`Spends`). A block stands
for its hash. It is not code of the repository: it is what the engine takes from
`get_block_hash`, `get_block_outline`, `locate_transaction` and
`is_key_image_spent`.

### NetworkScan: the scanner of one network

| Variable | Code |
|---|---|
| `node`, `moves` | the node's chain (external), and how often it changed |
| `tip`, `detected`, `rewound`, `held` | `Round`, `ChainRound`, the blocks' cache |
| `unit` | the await the running unit stands at: what the node has answered so far |
| `scanned`, `cursor` | `scanned_blocks`, `tenants.scanned_through_height` |
| `row` | `order_payments`: `block_height`, `voided_at_utc` |
| `aged` | the voids older than the 48 hours voids are rechecked for (`scanner.rs:832`, `work/upkeep.rs:178`) |
| `job`, `work`, `attempts`, `branch` | `reorg_jobs`, `reorg_work`, the `ReorgBranch*` positions |

A unit that asks the node and then writes is several actions, one for each answer
and one for the write, and `NodeMoves`, `Crash` and `UnitFails` may come between
any two of them. Detection and the job's units are `Detect` to `FinishJob`; a
payment's lookup (`StartLookup`, `AskKeyImages`, `ApplyLocation`, `ApplyProof`) is
shared by the job, the vanished-payment check and the void recheck, which differ
in `why`. A void may grow too old for the recheck at any time between two units (`VoidAges`); from
then on only the job of another reorganisation looks at it again. `CommitBlock(S)` is the one transaction of `blocks::commit`, for the
stores `S` whose keys worked. `BeginRound` may come whenever no unit runs and the
tiers' units in any order the scheduler could give: the scheduler's budget is
over-approximated here and modelled by `Scheduler`.

Properties:

- `RecordedChain`, `CursorsRecorded`: no gap, no block above one that isn't its
  parent, no cursor above what is recorded, through stale fetches and rewinds.
- `NoMissedPayment`: a payment in a block its store has scanned is in the store
  (`NoneForgotten`), and counted from there, but for the case of the third thing found below.
- `HeightIsRecorded`: nothing is counted from a recorded block that doesn't hold it.
- `EventuallyConverged`: when the node's chain stays as it is, the store comes to
  say what the chain says, and stays so, payments that were voided or given up on on the way
  included. It leaves out voids that aged: a false one that was not found within the 48 hours
  (the node answered wrongly, or not at all, for that long) stays, which the comment of
  `DOUBLE_SPEND_RECHECK_WINDOW_SECS` accepts.

### OrderStatus: the rules

`derive_status`, `covering`, `order_confirmations` and `plan_status` as operators on
a function from row ids to views `[amount, conf, zero]`. The sort and scan of
`covering` becomes "a payment is covering if what comes before it falls short". A sum
saturates at `MaxPiconero`. `MCOrderStatus` lets up to three payments appear, be mined,
be thrown out while the tip and the time change (`place`, `top`, `time`; its names differ
from `Settlement`'s so that `SettlementProofs` can use the theorems about both), and compares
with definitions that order nothing: `StatusByDepth`, `ConfirmationsByDepth`, `LaterPaymentHarmless`, and
`ScheduleCovers`: until the time and the height an order is scheduled for, no
recompute would write another status.

### Settlement: the orders of one network

An action is one transaction of the store that changes an order's payments or what its
status is decided from, or the reading of a tip or a time that a later transaction goes by.
The rounds, the fast path and the admin API judge one order beside each other, each by what it
read before:

| Variable | Code |
|---|---|
| `roundNow`, `roundTip` | the time a round takes (`Round.now`) before it asks for its tip; `last_tip` after it |
| `fast` | a fast pass: the tip it loaded once (`work/mempool.rs:498`), when, and the payments whose transactions it has still to scan |
| `lookup` | a `lookup_payment` that took its time (`http/admin.rs:1354`) and recorded what it found, then read its height (1396), and has yet to recompute (1399) |
| `lowest` | auxiliary: the lowest height the node had since an order's deadline passed |

`FastTold` loads the tip, and one `FastRecord` per payment found records and recomputes with it, by the time
its scan began (`scanned_at`), while rounds read newer tips and record more blocks. `LookUp`, `LookUpAsks` and
`LookUpRecomputes` are the three steps of a lookup; `LookUpEnds` is one that fails on the way.
The chain is left out: the scanner's transactions may come in
any order and with any height the node may have named, which includes everything
`NetworkScan` does. `Recompute` is `recompute_order_status` whole: facts, plan, the row,
the schedule, the obligation. `pending` is `pending_payment_recomputes`, filled by
the triggers (`LeaveObligation`), by a shorter tip and by a rewind. `ahead` is
auxiliary: it marks an order recomputed at a height above the one the settlement
tier recorded.

Properties:

- `StaleIsScheduled`: a status that isn't what the payments, deadline and tip make it is
  owed a recompute or due for one. One case is exempted, which `ahead` marks: an order
  recomputed by a lookup (`http/admin.rs:1396`), or by a fast pass that holds a tip since taken back
  (`work/mempool.rs:498`), at a height above the one the settlement tier recorded last is not
  scheduled again when the chain loses that block, since `observe_settlement_tip` compares with the
  tip it recorded itself.
- `VoidedIsFlagged`: the double-spend flag covers every voided payment.
- `AnnouncedSafely`: settled only outside a reorganisation and with every counted payment in a
  recorded block or in none; expired only past the deadline, on a node that was last seen
  synchronized, when everything recorded has been scanned and, besides, every block the node had
  when the deadline passed and has kept (`lowest`). The last part exempts the fast path openly: it
  may expire an order by a tip from before the deadline (finding 4).
- `EventuallyRight`: after the last surprise every order comes to show what it should, for good.

### Scheduler: a round

`Request` and `Complete` are `Scheduler::request` and `complete`; a slot is a pass and
a tier. `EveryTierRuns`, `StartsInTime`, `PriorityKept`, `NoTimeWasted` and `RoundEnds`
say what the tiers rely on.

### MempoolScan: the pool's two paths

The round's mempool tier and the fast pass, as two paths `p` whose steps interleave:
each asks for the pool (`at` = `asked`), uses what it was told later
(`RoundSelect`, `FastSelect`), takes a transaction with reservations for the stores that
are due (`Take`), and records what a scan finds (`Complete`). They share
`MempoolState`: the window each store was last scanned with (`scanned`), the
reservations (`inFlight`), the round's rotation (`queue`), where each transaction's
page of stores begins (`after`) and the windows the fast pass loaded last (`cache`). A
window is the set of a store's orders in scope, and its generation is its contents.
The interesting orders are all there: the pool as one path was told it, used by
`Retain` after the other has gone on; a cached window scanned after a new order came;
a pass dropped (`Abandon`) before, or just after, the write it was waiting for; keys or
writes that fail with the reservation kept till the end of the transaction; a body the
node never gives (`Withheld`); a restart.

Properties:

- `OneOwner`: a transaction is scanned for a store by one path at a time, and
  reserved by none that isn't scanning it.
- `DoneIsRecorded`: what is remembered as scanned is in the store: nothing else
  would look at it again.
- `EventuallySeen`: a payment that stays in the pool, of an order that stays in scope,
  is recorded in the end without any fast pass. It depends on the rotation of the
  pool and on each transaction having its own page of stores: with one page for all,
  or with an undelivered body that keeps its place, it fails.

### Conflicts: payments that share an output key

The payments of one order by row id, with their key, height, void and whether their block
is proven; `RecomputeOf` is `settle_output_key_conflicts` within a recompute, and the
other actions are the transactions that change a payment. `Void` is judged on a row that
was read before, so that the key may be shared by then. Payments without a key conflict
with nothing and are left out.

Properties:

- `KeyCountsOnce`: a key's money is counted at most once, and, after a recompute, once
  if any payment of the key stands.
- `CreditFollowsBlocks`: the earliest in a block is credited and supersedes the others;
  while none is in a block, nothing is superseded and the order can't settle.
- `SupersededIsBacked`: also between recomputes, what is superseded stands behind a
  payment of its key that stands itself. No two are superseded for each other.

### EventNotices and OrderFeed: the order events

`EventNotices` is the abstract promise: an event that was made waits until it is queued,
once, or reported as lost, or undone with the change it announced when the database is
replaced by a backup. `OrderFeed` is the detailed specification: the engine's log, with
`AppendEvent`, `Prune`, `BackUp` and `Restore`; the stream, which compares the reader's
position with the log once, when it is opened (`Open`), and then reads batches; the
line, with what was sent and not heard; and monokulo's subscriber, which queues an event
and moves its position in one transaction (`HearEvent`), or hears of a loss
(`HearLost`). A stream may end on either side at any step (`EndStream`, `Disconnect`).
`log` is the sequence of all events this database had, so that a seq is a place; an
event's id is a number never given out twice, also by a restored copy.

- `NoSilentLoss`: what the log has up to the position is queued or reported.
- `KeepsPromise` (`Promise!Spec`): the feed implements `EventNotices`, with what
  nobody was told of as `waiting`.
- `EventuallyTold`: an event that stays in the log is queued or reported in the end, also
  behind one that can't be read.

Three assumptions are named. `PrunedUnread` says whether upkeep may prune what an open
stream has still to read: it may in the code, and then `NoSilentLoss` fails (finding 2);
the other run takes FALSE. Nothing else needs it: the types and `KeepsPromise` are proved without it. Events' times are in the order of their seqs, so that what is
pruned is a prefix. A backup is restored when the position can tell it: a position
without an id (after a loss, or an event that can't be read) within the restored copy
looks like one of the copy's own.

### Deliveries: the webhooks

`rows` is `webhook_deliveries`, `line` the due ones by when they fell due. `Pick` is
`due_deliveries`: the oldest waiting delivery of each webhook and order, if it is due, at
most `PerStore` of a store and `BatchSize` in all. What it read (`batch`, `sending`) is
used while the table changes: `Queue`, `SendAgain`, `RetryFailed`, `DeleteHook`,
`Configure` may come at any step of a batch. `Finish` is the endpoint's answer with
`record_delivery_attempt`, whose write may fail; `Crash` loses the batch. Times are left out but
for their order: a waiting delivery may fall due at any time (`Due`). A batch is begun with
in any order, of which the code's is one. A secret that can't be read is a `Skip` that may
happen to any delivery.

- `OneInFlight`: no two events of one order are sent to one webhook at once.
- `NoOvertaking`: an event is sent only when every earlier one of its order was settled
  once.
- `DeliveredWasAccepted`: what is shown as delivered was accepted by its own endpoint,
  though the outcome is written by an id whose row may be gone: ids are never reused.
- `EventuallySettled`: every delivery is delivered, given up on or deleted in the end.

Not stated: that a request to send again is honoured. A request made while the delivery is
being sent is undone by that attempt's record (`monokulo/db/webhooks.rs:561`).

### What composes what

`NetworkScan` EXTENDS `BlockTree`; `Settlement` EXTENDS `OrderStatus`, so that its
recomputes are the checked rules; `OrderFeed` instantiates `EventNotices`, which it
implements. `Settlement` takes any order of the scanner's transactions, of which
`NetworkScan`'s is one, and `Scheduler` justifies the fairness of the modules that have
tiers. `OrderFeed`'s events are those `Settlement`'s recomputes append, and
`Deliveries`' `Queue` is its `HearEvent`; these are separate modules because together they
would be too large to check, and their interfaces are single transactions.

## The runs

| Run | Module | Checks | Instance | States |
|---|---|---|---|---|
| `NetworkScan` | `MCNetworkScan` | `TypeOK`, `RecordedChain`, `CursorsRecorded`, `NoMissedPayment`, `HeightIsRecorded` | 7 blocks, of which 2 branches are used, 2 stores with a payment each (one re-mined, one double-spent on the other branch), 2 moves, 2 faults, 2 attempts a candidate | 1.4M |
| `NetworkScanEnds` | | `HeightIsRecorded`, `EventuallyConverged` | 3 branches, 1 payment in the first two and double-spent on the third, 3 moves, 1 fault, 1 attempt a candidate, voids that age | 176k |
| `NetworkScanReturn` | | `HeightIsRecorded` (fails) | the node may come back to a branch | |
| `OrderStatus` | `MCOrderStatus` | `StatusByDepth`, `ConfirmationsByDepth`, `LaterPaymentHarmless`, `ScheduleCovers` | 3 payments of 1 or 2 for an order of 1 or 3, every hold, every later height and time | 25k |
| `Settlement` | `MCSettlement` | `TypeOK`, `StaleIsScheduled`, `VoidedIsFlagged`, `AnnouncedSafely` | 1 order, 2 payments, the node at height 1 at first, 2 surprises | 553k |
| `SettlementEnds` | | `StaleIsScheduled`, `EventuallyRight` | 1 order, 1 payment, the node at height 1 or 2 at first, 2 surprises | 136k |
| `Scheduler` | `MCScheduler` | `TypeOK` and all of its properties | 4 tiers, shares 1, 3, 2, 0 of 6, units of at most 3 | 6k |
| `MempoolScan` | `MCMempoolScan` | `TypeOK`, `OneOwner`, `DoneIsRecorded`, `EventuallySeen` | 2 stores, 3 orders, 3 transactions (one withheld), pages of 1, 2 surprises | 316k |
| `Conflicts` | `MCConflicts` | `TypeOK`, `KeyCountsOnce`, `CreditFollowsBlocks`, `SupersededIsBacked` | 3 payments, 2 keys, 2 heights, proof of work checked | 10k |
| `OrderFeed` | `MCOrderFeed` | `TypeOK`, `NoSilentLoss`, `KeepsPromise`, `EventuallyTold` | 4 events, one of which can't be read, batches of 2 | 29k |
| `OrderFeedPruned` | | `NoSilentLoss` (fails) | 3 events, pruned behind an open stream's back | |
| `Deliveries` | `MCDeliveries` | `TypeOK`, `OneInFlight`, `DeliveredWasAccepted`, `NoOvertaking`, `EventuallySettled` | 2 stores with a webhook and an order each, 2 events, 3 surprises, 1 or 2 attempts | 190k |

### The bounds, and why they are enough

- **Blocks** (`Block`, `MaxHeight`): branches of one or two blocks over a common ancestor:
  the fork can be at the high-water mark or below it, deepened by one, above every
  recorded block, and the replacing branch shorter, as long or longer.
- **`Switches`, `MaxMoves`**: the changes of tip the node may make. `OnceSwitches` lets a
  branch be left once, `RivalSwitches` lets the second branch be left for a third,
  `AllSwitches` lets the node come back. Without coming back every safety property
  holds; with it `HeightIsRecorded` fails, which is a finding and a run of its own.
- **`MoveDuring`**: all kinds of units, in every run.
- **`MaxFaults`**, **`MaxAttempts`**: failed calls and crashes, anywhere. Two faults with two attempts in
  `NetworkScan`, so that a candidate is tried again and given up on after that; one with one attempt in
  `NetworkScanEnds`, where the first failure gives up, so that `EventuallyConverged` is checked
  of given-up candidates too. The code's limit is `MAX_CANDIDATE_ATTEMPTS`: what follows does not
  depend on the number.
- **`MaxSurprises`**: in `Settlement` a surprise is a change of tip, a crash, a job, a void, a
  lookup, a fast pass that loads its tip, or a node out of synchronization; in `MempoolScan` an arrival or departure, a new or
  closed order, a failure, a dropped pass, a restart; in `Deliveries` a crash, a lost write, a
  deletion, a changed setting, a request. Two (three) are enough for one to interrupt what the other
  began, and for every mutant of the code to show.
- **`Ageing`** (NetworkScan): the payments whose voids may age. None in `NetworkScan`: ageing only takes the
  recheck away, so that no state is reached with it that isn't without it. In `NetworkScanEnds` any.
- **`Start`** (Settlement): the height the node has at first. 1 with two payments: both surprises can then be
  the rise and fall of the tip, or a fast pass's old tip and the rise. 1 or 2 with one payment, so that a tip
  can also be read at 2, be taken back, and a further surprise come.
- **`MaxTip`, `MaxNow`** (Settlement): a payment may be unmined, a block short of the two
  confirmations required, and deep enough; the deadline passes once.
- **`MaxUnit`, `MaxOpening`** (Scheduler): a unit may take longer than any tier's share or half
  of the round, and the opening longer than the whole round.
- **`TxsPerRound`, `TenantsPerTx`** (MempoolScan): 1, so that every round has more
  transactions and stores than it may take; `FastScans` and `FastTxs` 2, so that the fast pass
  takes one or two.
- **`MaxPayments`** (Conflicts): three, so that a winner can be replaced by another and that one
  by a third. Heights 1 and 2 give every order of two blocks and ties within one.
- **`MaxEvents`, `Batch`** (OrderFeed): four events and batches of two, so that a batch can be
  sent and another be left, and a restore can give two seqs out again.
- **`MaxEvents`** (Deliveries): two events, of one order or of two, or tests; a third makes the
  instance twenty times as large. `PerStore` and `BatchSize` are 2, which leaves nothing out of a batch
  here: that a delivery is not starved by those limits rests on the line's order and isn't
  checked. The theorems about `Deliveries` hold for all of them.

Deadlock is checked in every run but `Deliveries`, where everything may be settled once the
bounded events are over.

### Fairness

Every property of the kind "in the end" has its bound on what goes wrong
(`MaxMoves`, `MaxFaults`, `MaxSurprises`, `MaxEvents`): the code promises nothing while the node
keeps changing its chain or the shop keeps asking for more.

- `NetworkScan.Fairness`: a unit that began ends (its calls have deadlines), rounds follow each
  other (`loops.rs`), and each round gives every tier a unit: the last is `EveryTierRuns`,
  proved of the scheduler. It is strong fairness where a tier's turn comes once a round, so
  that the action is enabled again and again and not all the time. A void is rechecked fairly only
  until it has aged, and nothing is assumed about when it does.
- `Settlement.Fairness` says the same of the settlement tier, and that a node that is asked
  again is in the end synchronized. `FastTold`, `FastRecord`, the lookup's steps, `CancelOrder` and the scanner's
  other writes are never assumed to happen: a fast pass may keep a tip for ever, or write by it at
  any time.
- `MempoolScan.FairSpec`: the round's steps go on, a fast pass that began ends, and a store waits
  out its delay. No fast pass is assumed to begin. Weak fairness is enough.
- `OrderFeed.FairSpec`: the subscriber opens the stream again and notices when it ended. Reading a
  batch and handling what was heard are strongly fair: streams may be cut off again and
  again, but not always before the first batch is read.
- `Deliveries.FairSpec`: time passes (`Due`), and the worker's loop picks, starts and finishes.
- `Scheduler.FairSpec`: a unit is requested and ends.

## What the runs found

1. **A height the node names may never be checked** (`NetworkScanReturn`,
   `scanner.rs:535`). The vanished-payment check records the height the node gives, "the
   same write the block scan would have made". If the node answers from another branch
   at a height the scan has already passed and comes back to the recorded branch before
   the next detection, no fork is ever seen and no commit looks at that height
   again: the payment counts confirmations from a block that doesn't hold it.
   `lookup_payment` (`http/admin.rs:1376`) has the same gap.
2. **An event may be pruned between the answer that nothing was lost and the first batch**
   (`OrderFeedPruned`, `http/order_events.rs:123`). Whether the log still has every event after
   the reader's position is asked once, when the stream opens; each batch then takes what is
   left. An event pruned in between is passed over without an `events_lost`. It takes an
   event old enough to be pruned that the reader has still to read.

3. **A payment that is given up on may lose a height that was right** (`ForgetsFound`,
   `work/chain.rs:323`). No run reaches it: the attempt to prove `NoMissedPayment` did, and TLC
   confirmed it on an instance of five blocks. A voided payment is collected as a candidate
   while it has no height; the recheck of voids then restores it in a block below the job's
   fork, and the node fails whenever the job asks about it. Giving up takes a confirmed
   candidate out of its block because "its height is from the discarded chain"; this height is
   of a block that stays. The payment counts no confirmations until the vanished-payment
   check finds it again. That what a job gave up on comes back in this way is part of
   `EventuallyConverged`, in the run of which candidates are given up on (`GivesUp`).
4. **The fast path may expire an order by a tip from before its deadline** (`work/mempool.rs:498`,
   `586`-`600`). A fast pass loads `last_tip` once, waits for its scans, and recomputes the orders it
   pays by that tip and by the time each scan began. Meanwhile a round may have read a newer tip and
   the deadline may have passed: a partly paid order is then expired although a block the node had at the
   deadline, which may hold the rest, isn't scanned yet, where a round would hold the expiry
   (`scan_row_behind`). TLC shows it when the exemption `fast' = fast` is taken out of
   `AnnouncedSafely`: `FastTold` at tip 1, the node at 2, the deadline, `FastRecord`. The comment on the hold
   says that an order mustn't become expired while its row is behind (`store/mod.rs:800`-`806`); here it
   isn't behind the tip the pass goes by. It is a matter of a pass's seconds around the deadline, and a
   payment found in that block makes the order paid all the same (`EventuallyRight`), after the shop was told
   that it expired. A lookup cannot do it: it reads its height (`http/admin.rs:1396`) after it took its time.

The passing runs exempt all but the third: `OnceSwitches` and `RivalSwitches` the first,
`PrunedUnread = FALSE` the second, `fast' = fast` in `AnnouncedSafely` the fourth; the third takes two branches
above the payment's block, which their trees don't have. That a payment mined between the node's two answers
(`work/chain.rs:431`) is voided by its own key images is no violation of a property here:
the recheck brings it back, which `EventuallyConverged` includes.

## The proofs

TLAPS checks the following, with the assumptions named in the modules (`HeightAssumption`, `ChainAssumption`,
`ContentAssumption`, `ScanAssumption`, `HistoryAssumption`, `SettlementAssumption`,
`SchedulerAssumption`, `MempoolAssumption`, `ConflictsAssumption`, `FeedAssumption`,
`DeliveriesAssumption`). No bound is used but as a natural number, or as a finite set of payments.
That a price is at least 1 is what the creation of an order checks
(`http/orders.rs:53`). An induction over a set, a sequence or the naturals is made by the
least number or the smallest set without what is claimed (`LeastNat`, `SmallestSet`): the
naturals are well-founded, and the library's induction theorems can't be instantiated here.

- `NetworkScanProofs`. `TypeCorrect`: types, with `UnitOK` (a unit that waits to write has
  a row to write, and a job if it is of the job). `RecordedChainAlways`, `CursorsFollow` and
  `NoPaymentForgotten` follow from one inductive invariant. The recorded heights form an
  interval, each block the child of the one below. A commit adds at most the
  block above the highest one, and only if it extends it; a rewind cuts at the fork, and
  may leave the ancestor alone as the new interval; cursors are clamped by the same
  transaction. That the ancestor's hash may be of a branch the node has left doesn't
  matter to it: the ancestor is recorded only when nothing else is. For `NoneForgotten` the
  invariant also needs `CursorsSet` (a store without a cursor while blocks are held is one
  no commit is for), that no row is ever deleted (`RowsStay`), and that a cursor moves up
  only by the block the commit scanned (`CommitRecords`).
  `CountedFromItsBlock` (`HeightIsRecorded`) and `NonePassedOver` (`NoMissedPayment`) are about
  what happens between two answers, and need to say of each block whether the node still has it.
  `NeverReturns`, the hypothesis, is finding 1 put the other way: the tips the node may move to
  never bring back a block it left. It is a condition on `Switches` alone, which the
  instances without `Return` meet (`OnceIsForGood` in `MCNetworkScan`, evaluated by TLC). Then
  each block that is recorded, held or about to be recorded is the node's or gone for good
  (`BlocksSeen`); what the node told the running unit of a payment is what the recorded blocks say,
  but for those that are gone (`AnswersSeen`); and a payment counted from a block that doesn't
  hold it means that the block is gone (`CountedSeen`), so that while the node has all recorded blocks
  there is none. A payment that is passed over means the same, or that the open job is about to
  drop the block (`MissedSeen`). `NonePassedOver` excludes steps that are `ForgetsFound`, the third
  thing found, by its second hypothesis: without it the theorem is false.
- `OrderStatusProofs`. The sums of `OrderStatus` are folds over sets, chosen an element at a
  time; `SumUnique` and `SumExists` show that a sum is the one function that adds an element to the sum
  of the rest, by the smallest set for which it isn't, and `SumWith` that it doesn't matter which
  element. From there `CoveringByDepth` (what covers a price is what is deep enough, in whatever
  order it is listed), and the three theorems about the status, the confirmations and a later payment
  (`StatusFollowsDepth`, `ConfirmationsFollowDepth`, `LaterPaymentsAreHarmless`). `PlanStays` is how long
  a plan lasts: payments that only deepen, a time and a height before those it is scheduled for, and
  any holds, give the same status. `ScheduleIsEnough` (`ScheduleCovers`) is its first use.
- `SettlementProofs`. `Invariant` is the first inductive one: `Shape`, the part of the type that the
  steps need; `VoidedIsFlagged`, which needs it for the
  updates of an order's record to mean what they say; and `TipsFollowTimes`: whoever holds a time after an
  order's deadline with a tip that was read later (a round, a lookup) holds a tip no lower than
  `lowest`. `FlagsFollowVoids` follows.
  `AnnouncementsAreSafe` (`Spec => AnnouncedSafely`) is an action property: each action that
  recomputes is reduced to lemmas on `Plan` (`PlanSettles`, `PlanExpires`: what a plan that
  settles or expires implies of its facts), and an expiry by a round or a lookup has then scanned up
  to a tip that is no lower than `lowest`, by `TipsFollowTimes`. `RecomputesAreKept` is the second one, for `TypesHold` and
  `StaleOrdersAreScheduled`: an order that isn't owed a recompute has the status that any recompute
  from some height `b` on would give it before it is due (`Kept`, by `PlanStays`); `b` is 0 if none of its
  payments is in a block, and otherwise a height the settlement tier has reached or `ahead` marks. That is
  stronger than `StaleIsScheduled`, which compares with the tip as it is: the invariant has to
  survive tips that rise, and a shorter one leaves the orders it touches owed.
- `SchedulerProofs`. `NoTierStarves`, `LeftoverInOrder`, `BudgetIsUsed` and `SchedulerTypes`, for
  any number of tiers and any shares. None but the last is inductive: a slot that was passed
  must be known to be behind (`Behind`: its tier ran in the first pass; in the second it has
  no more work unless the budget is used up), and a tier that closed must be known to have run.
  `EveryTierStartsInTime` needs what `MostBefore` is (a recursive function, so that it exists is a
  lemma: `AccumulatesAll`) and `Timely`: in the first pass the slot's tier began in time, and
  the clock is past its share by one unit at most.
- `MempoolScanProofs`. `ScansDontMeet` and `RememberedIsRecorded`. The invariant adds
  `Holding` to the two properties: a path that scans nothing has no store open or kept, and none is
  both. One lemma covers the many steps that touch no reservation and at most forget. For
  `MempoolTypes` (`TypeOK`: no transaction is twice in the rotation) come lemmas on sequences
  (`OnlyIs`, `ConcatIs`, `FirstIs`, `SortedIs`), and that the fast pass asks for the pool only with a
  store to scan for, as its limit divides by their number (`Places`).
- `ConflictsProofs`. `MoneyCountsOnce`, `BlocksDecide`, `WinnersStand` and the
  types. The invariants are inductive together. They rest on lemmas that at most one payment of a key
  is credited, that one is if any is in a block, and that exactly one is shown otherwise: the
  earliest of some payments exists because the naturals are well-founded.
- `OrderFeedProofs`. `FeedTypes` and `FeedKeepsPromise` (the refinement: initial states, then each
  action to a step of `EventNotices` or a stutter) hold whatever upkeep prunes. They rest on
  `Typed`: besides the types, that nothing is on the line without a stream, and that a loss to be
  heard and the bounds of the backup are within their logs. An event passed over in silence stays `waiting` in
  `EventNotices`, which promises nothing of when. That none is passed over is
  `FeedLosesNothingSilently`, and only this one assumes `~PrunedUnread`, in its ASSUME; the code doesn't
  guarantee it (finding 2). Its invariant says that everything up to the position is told
  (`Placed`), or that the position's event is of another life of the log and the log will show so when
  the stream opens (`Strange`); and, while a stream is open, that what was sent and not heard follows the
  position, or the loss to be heard first, without a gap (`OnTheWay`).
- `DeliveriesProofs`. `OneIsSent`, `NoneOvertakes` and `ShownWasAccepted`. What the worker read is
  tied to the table: a delivery in the batch is a copy of the row with its id, if there still
  is one (`Copies`); the batch has one of each webhook and order (`OnePerOrder`); and whatever
  waits before one not begun with was settled once and brought back (`Before`). Nothing is
  needed of the line; `DeliveryTypes` (`TypeOK`) says of it that a due delivery is waiting, at one
  place (`InLine`).

Only model-checked: the liveness properties (`EventuallyConverged`, `EventuallyRight`, `RoundEnds`,
`EventuallySeen`, `EventuallyTold`, `EventuallySettled`), which are out of the prover's reach as ENABLED
is. Where a helper was a library operator the provers know nothing of (`SelectSeq`), or had to be
reasoned about element by element, it is a recursive function (`Only`, `Without`,
`MostBefore`).

## What the models leave out

- `NetworkScan`: candidates in more than one page (a page of re-examined candidates is
  one, the branch checked before each); backoff and `attempted`; the budget's cuts; the idle
  stores' jumps and disabled stores; partial-block checkpoints; pruning; attestation and
  superseded payments; `lookup_payment`. The two key-image and location answers of several
  nodes are one node's. `detect`'s own lookups are taken at one instant, the tip's hash at
  the round's start. The held blocks are one block.
- `Settlement`: the chain; pages and rotation; proof of work and conflicts as facts (their
  rules are in `OrderStatus` and `Conflicts`); what an order shows of its confirmations, which
  nothing reads back; the event log; a total that doesn't fit the column (the write fails);
  several scan rows of one store; a change of `confirmations_required`; more than one lookup or fast pass
  at a time (the code has one fast pass per network); several orders paid by one transaction, which the
  code recomputes together.
- `Scheduler`: the counters as `ran`; a clock that goes backwards (`request` takes the
  maximum); completions of another unit, which `run_round_at` cannot send; the
  arithmetic of `share_of`.
- `MempoolScan`: wallets and their registration with the custody (a change of wallet while a
  scan is under way is a hazard without a property); the cache of bodies; batches of keys; the
  delays' lengths.
- `Conflicts`: other orders; heights that change because the chain does (any height may come).
- `OrderFeed`: what an event says; the keep-alives and the stream's quota; the relay's own reader,
  which keeps no position.
- `Deliveries`: bodies, signatures and addresses; which events a webhook wants; the times
  between attempts; creating and editing webhooks.

### Not modelled

The modules translate a small part of the repository's roughly 247,000 lines, and the share that can be
translated usefully is small. Most of them are the web application (accounts, stores, settings,
domains, integrations and their pages), user interface, templates and rendering, cryptography and
key custody, transports (RPC, ZMQ, Tor, DNS, HTTP), conversions and parsing, tools, test nodes and
tests. They are one request and one write each, or I/O, or pure computation over data no small
set stands for, and carry no part of a payment's life. Of what does carry one, these are left:

- proof of work (`proof/`, `store/proof.rs`): its checking is arithmetic over headers; only what it
  holds back is modelled;
- push notices (`monokulo/push/`): a table and a worker much like the webhooks', without their
  order;
- monokulo's creation of orders, once per idempotency key;
- the page of obligations and due orders (`work/settlement.rs:380`), checkpoints within a block, and
  the idle stores' jumps: refinements of steps that the modules take whole.

`PROJECT.json` has the list of components, with a reason for each.

## Checking it

    tlc -workers 2 -config Settlement.cfg MCSettlement
    tlapm SettlementProofs.tla

Every run ends within a few minutes, and every proof module within ten.
