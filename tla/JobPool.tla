------------------------------ MODULE JobPool ------------------------------
(***************************************************************************)
(* What qs::scheduler promises its caller, with no queue, no lock and no   *)
(* thread: a set of submitted jobs is executed, each once, in any order    *)
(* and any number at a time; wait_all_finish returns only when nothing is  *)
(* left to do; the destructor returns only when nothing is executing, and  *)
(* drops the jobs that have not started.                                   *)
(*                                                                         *)
(* Scheduler.tla is shown to implement this module, and Engine.tla uses it *)
(* in place of the threads and queues.                                     *)
(***************************************************************************)
CONSTANT Job

VARIABLES
  queued,     \* jobs submitted and not started
  running,    \* jobs some worker thread is executing
  done,       \* jobs whose operator() has returned
  caller      \* what the one thread that owns the scheduler is doing

vars == <<queued, running, done, caller>>

Caller == {"free", "waiting", "closing", "closed"}

Init ==
  /\ queued = {}
  /\ running = {}
  /\ done = {}
  /\ caller = "free"

\* scheduler::submit_job of a job that was never submitted before.
Submit(j) ==
  /\ caller = "free"
  /\ j \notin queued \cup running \cup done
  /\ queued' = queued \cup {j}
  /\ UNCHANGED <<running, done, caller>>

\* A worker takes a job. It may still do so while the destructor is closing
\* the queues one after the other.
Start(j) ==
  /\ caller # "closed"
  /\ j \in queued
  /\ queued' = queued \ {j}
  /\ running' = running \cup {j}
  /\ UNCHANGED <<done, caller>>

Finish(j) ==
  /\ j \in running
  /\ running' = running \ {j}
  /\ done' = done \cup {j}
  /\ UNCHANGED <<queued, caller>>

\* scheduler::wait_all_finish is called, and returns.
Wait ==
  /\ caller = "free"
  /\ caller' = "waiting"
  /\ UNCHANGED <<queued, running, done>>

Return ==
  /\ caller = "waiting"
  /\ queued \cup running = {}
  /\ caller' = "free"
  /\ UNCHANGED <<queued, running, done>>

\* scheduler::~scheduler is called, and returns.
Close ==
  /\ caller = "free"
  /\ caller' = "closing"
  /\ UNCHANGED <<queued, running, done>>

Closed ==
  /\ caller = "closing"
  /\ running = {}
  /\ caller' = "closed"
  /\ UNCHANGED <<queued, running, done>>

Next ==
  \/ \E j \in Job : Submit(j) \/ Start(j) \/ Finish(j)
  \/ Wait
  \/ Return
  \/ Close
  \/ Closed

Spec == Init /\ [][Next]_vars

=============================================================================
