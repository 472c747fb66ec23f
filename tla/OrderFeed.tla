----------------------------- MODULE OrderFeed -----------------------------
(***************************************************************************)
(* The engine's order-event log (crates/engine/src/store/order_events.rs), *)
(* the stream it is served as (crates/engine/src/http/order_events.rs) and *)
(* monokulo's reading of it (crates/monokulo/src/webhooks/subscriber.rs,   *)
(* queue_order_event in crates/monokulo/src/db/webhooks.rs).               *)
(*                                                                         *)
(* The log is the sequence of every event this database ever had: an       *)
(* event's seq is its place.  An event's id is a number that is never      *)
(* given out twice, 0 where a position has none.                           *)
(***************************************************************************)
EXTENDS Integers, Sequences, Functions

CONSTANTS
    Unreadable,     \* the events monokulo can't read
    Batch,          \* the most events read at once (BATCH)
    MaxEvents,      \* bound: how many events are committed
    PrunedUnread    \* assumption: may upkeep prune what an open stream has
                    \* still to read?

ASSUME FeedAssumption ==
    /\ Unreadable \subseteq Nat /\ Batch \in Nat \ {0}
    /\ MaxEvents \in Nat /\ PrunedUnread \in BOOLEAN

VARIABLES
    \* The engine's database.
    made,           \* how many event ids were given out, in any copy of it
    log,            \* the events, pruned ones included (order_events, sqlite_sequence)
    oldest,         \* the seq of the oldest event kept, or of the next one
    backup,         \* a copy of the database: how long its log is, its oldest
    \* The stream, in the engine's memory, and what it has sent.
    stream,         \* the seq read up to (Reader.after), or Closed
    notice,         \* an events_lost not heard yet: the seq it resumes after, or Closed
    unheard,        \* the events sent and not heard yet
    \* monokulo's database, and whether it has a stream open.
    after, afterId, \* the position (order_event_position)
    queue,          \* the events with deliveries, in the order they were queued in
    open,
    \* What monokulo's log says was lost.
    reported

engine == <<made, log, oldest, backup>>
line == <<stream, notice, unheard>>
reader == <<after, afterId, queue, open, reported>>
vars == <<engine, line, reader>>

Closed == -1
latest == Len(log)
Kept == oldest..latest

Init ==
    /\ made = 0 /\ log = <<>> /\ oldest = 1 /\ backup = [latest |-> 0, oldest |-> 1]
    /\ stream = Closed /\ notice = Closed /\ unheard = {}
    /\ after = 0 /\ afterId = 0 /\ queue = <<>> /\ open = FALSE /\ reported = {}

-----------------------------------------------------------------------------
(* The engine's log. *)

\* In the transaction of the change it announces.
AppendEvent ==
    /\ made < MaxEvents
    /\ made' = made + 1 /\ log' = Append(log, made + 1)
    /\ UNCHANGED <<oldest, backup, line, reader>>

\* monokulo's position is of an earlier life of the database.
Foreign == afterId # 0 /\ afterId \notin Range(log)

\* Upkeep prunes the events made before a time.  Their times are taken to be
\* in the order of their seqs, and a reader to be back before the events that
\* follow a restored backup are old enough to be pruned.
Prune(n) ==
    /\ n \in oldest + 1 .. latest + 1
    /\ PrunedUnread \/ stream = Closed \/ n <= stream + 1
    /\ ~Foreign
    /\ oldest' = n
    /\ UNCHANGED <<made, log, backup, line, reader>>

BackUp ==
    /\ backup' = [latest |-> latest, oldest |-> oldest]
    /\ backup' # backup
    /\ UNCHANGED <<made, log, oldest, line, reader>>

\* The engine is stopped and its database replaced by the backup.  A position
\* without an id can't be told from one of the copy's (0051_*.sql): a restore
\* is taken to come when the position names an event, or is within the copy.
Restore ==
    /\ ~open
    /\ afterId # 0 \/ after <= backup.latest
    /\ backup.latest < latest
    /\ log' = SubSeq(log, 1, backup.latest) /\ oldest' = backup.oldest
    /\ UNCHANGED <<made, backup, line, reader>>

-----------------------------------------------------------------------------
(* The stream. *)

\* The log's event at the position isn't the one that was read there.
\* Mutant: the position's id is never looked at.
AnotherEventsUnseen == FALSE
AnotherEvents == afterId # 0 /\ after \in Kept /\ log[after] # afterId

\* Mutant: a gap of one event isn't noticed.
EventsLostLate == after > latest \/ AnotherEvents \/ after + 2 < oldest
EventsLost == after > latest \/ AnotherEvents \/ after + 1 < oldest

\* The subscriber opens the stream at its position; the engine compares the
\* position with what it holds.
Open ==
    /\ ~open /\ open' = TRUE
    /\ stream' = (IF EventsLost THEN oldest - 1 ELSE after)
    /\ notice' = (IF EventsLost THEN oldest - 1 ELSE Closed)
    /\ UNCHANGED <<engine, unheard, after, afterId, queue, reported>>

\* The next events after the stream's, pruned ones passed over.
NextBatch ==
    LET from == IF oldest > stream THEN oldest ELSE stream + 1
    IN  {i \in from..latest : i < from + Batch}

ReadBatch ==
    /\ stream # Closed /\ NextBatch # {}
    /\ unheard' = unheard \cup {[seq |-> i, event |-> log[i]] : i \in NextBatch}
    /\ stream' \in NextBatch /\ \A i \in NextBatch : i <= stream'
    /\ UNCHANGED <<engine, notice, reader>>

\* The engine stops, or can't read its log.
EndStream == stream # Closed /\ stream' = Closed /\ UNCHANGED <<engine, notice, unheard, reader>>

-----------------------------------------------------------------------------
(* monokulo. *)

\* The events up to it are reported, those that were queued before aside.
HearLost ==
    /\ open /\ notice # Closed
    /\ after' = notice /\ afterId' = 0
    /\ reported' = reported \cup {log[i] : i \in 1..notice}
    /\ notice' = Closed
    /\ UNCHANGED <<engine, stream, unheard, queue, open>>

\* Mutant: the deliveries' unique (webhook_id, event_id) is missing.
QueuedAgain(e) == Append(queue, e)
Queued(e) == IF e \in Range(queue) THEN queue ELSE Append(queue, e)

\* The position and the deliveries change in one transaction; an event at or
\* before the position changes nothing.
HearEvent ==
    /\ open /\ notice = Closed
    /\ \E m \in unheard :
        /\ \A other \in unheard : m.seq <= other.seq
        /\ unheard' = unheard \ {m}
        /\ IF m.seq <= after THEN UNCHANGED <<after, afterId, queue, reported>>
           ELSE /\ after' = m.seq
                /\ IF m.event \in Unreadable
                   THEN afterId' = 0 /\ reported' = reported \cup {m.event} /\ UNCHANGED queue
                   ELSE afterId' = m.event /\ queue' = Queued(m.event) /\ UNCHANGED reported
    /\ UNCHANGED <<engine, stream, notice, open>>

\* Mutant: a new stream is read behind what was left of the old one.
Carried == unheard
LeftOver == {}

\* The stream ended, failed or went quiet, a write failed, or monokulo stops:
\* what it hadn't handled is lost.
Disconnect ==
    /\ open /\ open' = FALSE
    /\ stream' = Closed /\ notice' = Closed /\ unheard' = LeftOver
    /\ UNCHANGED <<engine, after, afterId, queue, reported>>

-----------------------------------------------------------------------------

Next ==
    \/ AppendEvent \/ BackUp \/ Restore
    \/ \E n \in 1..MaxEvents + 1 : Prune(n)
    \/ Open \/ ReadBatch \/ EndStream
    \/ HearLost \/ HearEvent \/ Disconnect

Spec == Init /\ [][Next]_vars

\* The subscriber opens the stream again whenever it ended, and a stream that
\* ended is noticed; now and then one stays open long enough for a batch to
\* be read and for an event to be handled.
FairSpec ==
    /\ Spec
    /\ WF_vars(Open) /\ WF_vars(stream = Closed /\ Disconnect)
    /\ SF_vars(ReadBatch) /\ SF_vars(HearLost) /\ SF_vars(HearEvent)

-----------------------------------------------------------------------------

TypeOK ==
    /\ made \in Nat /\ log \in Seq(1..made) /\ oldest \in 1 .. latest + 1
    /\ backup \in [latest : Nat, oldest : Nat \ {0}]
    /\ stream \in Nat \cup {Closed} /\ notice \in Nat \cup {Closed}
    /\ unheard \subseteq [seq : 1..latest, event : 1..made]
    /\ after \in Nat /\ afterId \in 0..made /\ queue \in Seq(1..made)
    /\ open \in BOOLEAN /\ reported \subseteq 1..made

\* No event is passed over in silence: what the log has up to a position that
\* is of this log is queued, or was reported as lost (ResumePoint, handle).
NoSilentLoss ==
    open /\ notice = Closed =>
        \A i \in 1..after : i <= latest /\ (log[i] \in Range(queue) \/ log[i] \in reported)

\* What nobody was told of: the log's events that are neither.
Waiting == {e \in Range(log) : e \notin Range(queue) /\ e \notin reported}

Promise == INSTANCE EventNotices WITH waiting <- Waiting

\* Every event is queued at most once, reported or still waiting, and stops
\* waiting only by being queued, reported or undone with its change
\* (queue_order_event: "a restart never queues an event twice nor skips one").
KeepsPromise == Promise!Spec

\* Every event that stays in the log is queued or reported in the end, whatever
\* was pruned, restored or cut off on the way (run_subscriber).
EventuallyTold == \A e \in 1..MaxEvents : (e \in Waiting) ~> (e \notin Waiting)
=============================================================================
