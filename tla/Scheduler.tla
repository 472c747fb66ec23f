------------------------------ MODULE Scheduler ------------------------------
(***************************************************************************)
(* The order in which the tiers of a network's scanner work in a round     *)
(* (crates/engine/src/work/scheduler.rs and run_round_at in work/mod.rs).  *)
(* Each tier has two slots in a round: slots 1..N are the first pass,      *)
(* in which a tier may use its share, and N+1..2N the second, in which it  *)
(* may use what is left.                                                   *)
(***************************************************************************)
EXTENDS Integers

CONSTANTS
    N,              \* the tiers, 1 the first in priority
    Share,          \* Share[t], of the round's budget
    Budget,         \* the length of a round
    MaxUnit,        \* bound: how long one unit takes (a node call has a deadline)
    MaxOpening,     \* bound: how long the round's opening calls take
    None

Tiers == 1..N
Slots == 1..2 * N
Ended == 2 * N + 1

ASSUME SchedulerAssumption ==
    /\ N \in Nat \ {0}
    /\ Share \in [Tiers -> Nat] /\ Budget \in Nat
    /\ MaxUnit \in Nat \ {0} /\ MaxOpening \in Nat
    /\ None \notin Int

VARIABLES
    clock,          \* elapsed since the round began
    opened,         \* (auxiliary) when its opening calls had ended
    slot,           \* pass and index
    until,          \* when the slot's time is over (None: not entered yet)
    pending,        \* a unit was issued and isn't completed
    ran,            \* the tiers that ran a unit (steps > 0)
    backlogged      \* the tiers that stopped with work left, or didn't run

vars == <<clock, opened, slot, until, pending, ran, backlogged>>

TypeOK ==
    /\ clock \in Nat /\ opened \in 0..MaxOpening
    /\ slot \in 1..Ended
    /\ until \in 0..Budget \cup {None}
    /\ pending \in BOOLEAN
    /\ ran \subseteq Tiers /\ backlogged \subseteq Tiers

-----------------------------------------------------------------------------

TierOf(s) == IF s <= N THEN s ELSE s - N

\* When the time of slot s is over, if it is entered at time c.  Mutants: the
\* second pass has shares too; the first has none; a share may go beyond the
\* round.
UntilShared(s, c) == IF c + Share[TierOf(s)] < Budget THEN c + Share[TierOf(s)] ELSE Budget
UntilUnshared(s, c) == Budget
UntilBeyond(s, c) == IF s <= N THEN c + Share[TierOf(s)] ELSE Budget
Entered(s, c) ==
    IF s <= N /\ c + Share[TierOf(s)] < Budget THEN c + Share[TierOf(s)] ELSE Budget

UntilOf(s, c) == IF s = slot /\ until # None THEN until ELSE Entered(s, c)

\* A tier with work left runs while its time isn't over, and once even if it
\* is.  Mutants: not even once; whether it has work or not.
RunsInTime(s, c) == TierOf(s) \in backlogged /\ c < UntilOf(s, c)
RunsIdle(s, c) == TierOf(s) \notin ran \/ c < UntilOf(s, c)
Runs(s, c) ==
    /\ TierOf(s) \in backlogged
    /\ TierOf(s) \notin ran \/ c < UntilOf(s, c)

\* A Scheduler is made (Scheduler::new) when the round's opening calls end.
Init ==
    /\ clock \in 0..MaxOpening /\ opened = clock
    /\ slot = 1 /\ until = None /\ pending = FALSE
    /\ ran = {} /\ backlogged = Tiers

NewRound ==
    /\ slot = Ended
    /\ clock' \in 0..MaxOpening /\ opened' = clock'
    /\ slot' = 1 /\ until' = None /\ pending' = FALSE
    /\ ran' = {} /\ backlogged' = Tiers

\* Scheduler::request goes on to the next slot that runs, and issues a unit.
Request ==
    /\ ~pending /\ slot # Ended
    /\ \/ \E s \in slot..2 * N :
             /\ Runs(s, clock)
             /\ \A r \in slot..s - 1 : ~Runs(r, clock)
             /\ slot' = s /\ until' = UntilOf(s, clock) /\ pending' = TRUE
       \/ /\ \A s \in slot..2 * N : ~Runs(s, clock)
          /\ slot' = Ended /\ until' = None /\ pending' = FALSE
    /\ UNCHANGED <<clock, opened, ran, backlogged>>

\* The unit ends after some time: it advanced, or the tier is idle, blocked
\* or failed and closed for this round.
Complete(time, advanced) ==
    /\ pending
    /\ advanced => time > 0
    /\ clock' = clock + time
    /\ pending' = FALSE
    /\ ran' = ran \cup {TierOf(slot)}
    /\ backlogged' = IF advanced THEN backlogged ELSE backlogged \ {TierOf(slot)}
    /\ UNCHANGED <<opened, slot, until>>

Next ==
    \/ NewRound \/ Request
    \/ \E time \in 0..MaxUnit : \E advanced \in BOOLEAN : Complete(time, advanced)

Spec == Init /\ [][Next]_vars

\* Every unit ends: its calls have deadlines.
FairSpec ==
    /\ Spec
    /\ WF_vars(Request)
    /\ WF_vars(\E time \in 0..MaxUnit : \E advanced \in BOOLEAN : Complete(time, advanced))

-----------------------------------------------------------------------------
(* Properties. *)

\* Every kind of work advances every round: a round ends only after every tier
\* ran a unit, however late its turn came.
EveryTierRuns == slot = Ended => ran = Tiers

\* The second pass is in priority order: a tier gets time that is left only
\* when every tier before it has no more to do.
PriorityKept ==
    slot > N /\ slot # Ended /\ pending =>
        \A t \in Tiers : t < TierOf(slot) => t \notin backlogged

\* A round doesn't end early: when a tier still has work, the round took its
\* whole budget (Scheduler::request's second pass).
NoTimeWasted == slot = Ended /\ backlogged # {} => clock >= Budget

\* What the tiers before t may take: their shares, and one unit over each.
MostBefore[t \in Tiers] == IF t = 1 THEN 0 ELSE MostBefore[t - 1] + Share[t - 1] + MaxUnit

\* No tier is kept from its first unit longer than the tiers before it may
\* take (the note of ScanTuning::shares).
StartsInTime ==
    \A t \in Tiers : t \notin ran /\ slot <= t => clock <= opened + MostBefore[t]

\* Every round ends, however much work the tiers have.
RoundEnds == []<>(slot = Ended)
=============================================================================
