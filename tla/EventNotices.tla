---------------------------- MODULE EventNotices ----------------------------
(***************************************************************************)
(* What the order events promise a shop: every event the engine commits    *)
(* is queued for delivery, once, or reported as lost to whoever reads the  *)
(* logs.  None is passed over in silence.                                  *)
(*                                                                         *)
(* An event is named by a number that is never given out twice.            *)
(***************************************************************************)
EXTENDS Naturals, Sequences, Functions

VARIABLES
    made,       \* how many events were committed
    waiting,    \* those nobody was told of yet
    queue,      \* the deliveries, in the order they were queued in
    reported    \* those that were reported as lost

vars == <<made, waiting, queue, reported>>

Init == made = 0 /\ waiting = {} /\ queue = <<>> /\ reported = {}

\* A change of an order is committed with its event.
Make ==
    /\ made' = made + 1
    /\ waiting' = waiting \cup {made + 1}
    /\ UNCHANGED <<queue, reported>>

\* Late if it was reported as lost before.
Queue(e) ==
    /\ e \in 1..made /\ e \notin Range(queue)
    /\ queue' = Append(queue, e)
    /\ waiting' = waiting \ {e}
    /\ UNCHANGED <<made, reported>>

Report(lost) ==
    /\ reported' = reported \cup lost
    /\ waiting' = waiting \ lost
    /\ UNCHANGED <<made, queue>>

\* The engine's database is replaced by a backup of itself: the changes
\* committed since are undone, and their events with them.
Undo(undone) ==
    /\ undone \subseteq waiting
    /\ waiting' = waiting \ undone
    /\ UNCHANGED <<made, queue, reported>>

Next ==
    \/ Make
    \/ \E e \in 1..made : Queue(e)
    \/ \E s \in SUBSET (1..made) : Report(s) \/ Undo(s)

Spec == Init /\ [][Next]_vars
=============================================================================
