----------------------------- MODULE MCScheduler -----------------------------
(***************************************************************************)
(* An instance of Scheduler: four tiers, the second with the largest share *)
(* and the last with none.                                                 *)
(***************************************************************************)
EXTENDS Scheduler

MCShare == <<1, 3, 2, 0>>
=============================================================================
