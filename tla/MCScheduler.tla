---------------------------- MODULE MCScheduler ----------------------------
(***************************************************************************)
(* Scheduler with three workers and five jobs: the cursor wraps, two       *)
(* workers get two jobs, so a queue is seen empty, with one job and with   *)
(* two, and the third worker is seen idle while the others are busy.       *)
(***************************************************************************)
EXTENDS Scheduler

=============================================================================
