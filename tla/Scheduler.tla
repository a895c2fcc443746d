----------------------------- MODULE Scheduler -----------------------------
(***************************************************************************)
(* qs::scheduler: a fixed set of worker threads, one qs::concurrent_queue  *)
(* of jobs for each, and the one thread (the client) that submits jobs,    *)
(* waits for all of them and destroys the scheduler. Two threads use a     *)
(* queue: its worker and the client.                                       *)
(*                                                                         *)
(* One step is one critical section of a queue's mutex, or one access      *)
(* outside it. A thread inside pthread_cond_wait is "asleep"; a signal     *)
(* moves a sleeper back to the test of its while loop, and so may a        *)
(* spurious wake-up. Of the two threads of a queue the sender of a signal  *)
(* is awake, so the other is the only one the signal can wake.             *)
(***************************************************************************)
EXTENDS Integers, Sequences

CONSTANTS
  NWorkers,   \* threads_count of the constructor
  MaxJobs     \* bound: jobs the client submits in a behaviour

ASSUME SchedulerAssumption ==
  /\ NWorkers \in Nat \ {0}
  /\ MaxJobs \in Nat

VARIABLES
  queue,            \* queue[w]: worker w's jobs, head first
  closed,           \* closed[w]: the flag of w's queue
  pc,               \* pc[w]: where worker::start of w is
  job,              \* job[w]: the job w's last peek returned, or NoJob
  client,           \* which call of the scheduler the client is in
  at,               \* the worker that call has reached
  current_worker,   \* round-robin cursor of submit_job
  submitted,        \* number of jobs submitted; they are 0 .. submitted - 1
  ran               \* jobs whose operator() has returned

threads == <<pc, job>>
calls == <<client, at, current_worker, submitted>>
vars == <<queue, closed, pc, job, client, at, current_worker, submitted, ran>>

Worker == 0 .. NWorkers - 1
Job == 0 .. MaxJobs - 1
NoJob == -1

Elements(s) == {s[i] : i \in DOMAIN s}

----------------------------------------------------------------------------
Init ==
  /\ queue = [w \in Worker |-> <<>>]
  /\ closed = [w \in Worker |-> FALSE]
  /\ pc = [w \in Worker |-> "peek"]
  /\ job = [w \in Worker |-> NoJob]
  /\ client = "idle"
  /\ at = 0
  /\ current_worker = 0
  /\ submitted = 0
  /\ ran = {}

----------------------------------------------------------------------------
(* The worker thread: the loop of worker::start.                           *)

\* concurrent_queue::peek on an empty open queue: pthread_cond_wait.
PeekSleep(w) ==
  /\ pc[w] = "peek"
  /\ queue[w] = <<>>
  /\ ~closed[w]
  /\ pc' = [pc EXCEPT ![w] = "asleep"]
  /\ UNCHANGED <<queue, closed, job, calls, ran>>

\* Slip: the queue hands out the job added last.
PeekLast(w) ==
  /\ pc[w] = "peek"
  /\ queue[w] # <<>> \/ closed[w]
  /\ job' = [job EXCEPT ![w] = IF queue[w] = <<>> THEN NoJob
                               ELSE queue[w][Len(queue[w])]]
  /\ pc' = [pc EXCEPT ![w] = "check"]
  /\ UNCHANGED <<queue, closed, calls, ran>>

\* concurrent_queue::peek returns the head, or null when closed and empty.
Peek(w) ==
  /\ pc[w] = "peek"
  /\ queue[w] # <<>> \/ closed[w]
  /\ job' = [job EXCEPT ![w] = IF queue[w] = <<>> THEN NoJob ELSE Head(queue[w])]
  /\ pc' = [pc EXCEPT ![w] = "check"]
  /\ UNCHANGED <<queue, closed, calls, ran>>

\* Slip: the job is taken off the queue before it runs, as most pools do.
CheckAndRemove(w) ==
  /\ pc[w] = "check"
  /\ pc' = [pc EXCEPT ![w] = IF closed[w] THEN "stopped" ELSE "run"]
  /\ queue' = [queue EXCEPT ![w] = IF closed[w] THEN @ ELSE Tail(@)]
  /\ UNCHANGED <<closed, job, calls, ran>>

\* is_closed, read without the lock: leave the loop, run the job, or, with no
\* job, go round again.
CheckClosed(w) ==
  /\ pc[w] = "check"
  /\ pc' = [pc EXCEPT ![w] = IF closed[w] THEN "stopped"
                             ELSE IF job[w] = NoJob THEN "peek" ELSE "run"]
  /\ UNCHANGED <<queue, closed, job, calls, ran>>

\* (**job)() returns, and the job is deleted.
RunJob(w) ==
  /\ pc[w] = "run"
  /\ ran' = ran \cup {job[w]}
  /\ pc' = [pc EXCEPT ![w] = "dequeue"]
  /\ UNCHANGED <<queue, closed, job, calls>>

\* Slips: the job stays on the queue; the signal is left out, as an enqueue
\* that finds the queue non-empty leaves it out.
DequeueNothing(w) ==
  /\ pc[w] = "dequeue"
  /\ pc' = [pc EXCEPT ![w] = "peek"]
  /\ UNCHANGED <<queue, closed, job, calls, ran>>

DequeueSilently(w) ==
  /\ pc[w] = "dequeue"
  /\ queue[w] # <<>>
  /\ queue' = [queue EXCEPT ![w] = Tail(@)]
  /\ pc' = [pc EXCEPT ![w] = "peek"]
  /\ UNCHANGED <<closed, job, calls, ran>>

\* concurrent_queue::dequeue removes the head, whichever job that is, and
\* signals under the lock: the client may be asleep in wait_empty.
Dequeue(w) ==
  /\ pc[w] = "dequeue"
  /\ queue[w] # <<>>
  /\ queue' = [queue EXCEPT ![w] = Tail(@)]
  /\ client' = IF client = "asleep" /\ at = w THEN "waiting" ELSE client
  /\ pc' = [pc EXCEPT ![w] = "peek"]
  /\ UNCHANGED <<closed, job, at, current_worker, submitted, ran>>

\* pthread_cond_wait returns with no signal.
SpuriousWorker(w) ==
  /\ pc[w] = "asleep"
  /\ pc' = [pc EXCEPT ![w] = "peek"]
  /\ UNCHANGED <<queue, closed, job, calls, ran>>

WorkerStep(w) ==
  PeekSleep(w) \/ Peek(w) \/ CheckClosed(w) \/ RunJob(w) \/ Dequeue(w)

----------------------------------------------------------------------------
(* The client thread.                                                      *)

\* A signal of w's condition variable sent by the client.
Signalled(w) == [pc EXCEPT ![w] = IF @ = "asleep" THEN "peek" ELSE @]

\* Slips: the cursor is not wrapped; the new job goes to the front; the test
\* for previously_empty is inverted.
SubmitNoWrap ==
  /\ client = "idle"
  /\ submitted < MaxJobs
  /\ queue' = [queue EXCEPT ![current_worker % NWorkers] = Append(@, submitted)]
  /\ client' = "signal"
  /\ at' = current_worker % NWorkers
  /\ current_worker' = current_worker + 1
  /\ submitted' = submitted + 1
  /\ UNCHANGED <<closed, threads, ran>>

SubmitInFront ==
  /\ client = "idle"
  /\ submitted < MaxJobs
  /\ queue' = [queue EXCEPT ![current_worker] = <<submitted>> \o @]
  /\ client' = IF queue[current_worker] = <<>> THEN "signal" ELSE "idle"
  /\ at' = current_worker
  /\ current_worker' = (current_worker + 1) % NWorkers
  /\ submitted' = submitted + 1
  /\ UNCHANGED <<closed, threads, ran>>

SubmitSignalInverted ==
  /\ client = "idle"
  /\ submitted < MaxJobs
  /\ queue' = [queue EXCEPT ![current_worker] = Append(@, submitted)]
  /\ client' = IF queue[current_worker] = <<>> THEN "idle" ELSE "signal"
  /\ at' = current_worker
  /\ current_worker' = (current_worker + 1) % NWorkers
  /\ submitted' = submitted + 1
  /\ UNCHANGED <<closed, threads, ran>>

\* submit_job: concurrent_queue::enqueue up to its unlock. The signal is sent
\* after the unlock, and only when the queue was empty.
SubmitJob ==
  /\ client = "idle"
  /\ submitted < MaxJobs
  /\ queue' = [queue EXCEPT ![current_worker] = Append(@, submitted)]
  /\ client' = IF queue[current_worker] = <<>> THEN "signal" ELSE "idle"
  /\ at' = current_worker
  /\ current_worker' = (current_worker + 1) % NWorkers
  /\ submitted' = submitted + 1
  /\ UNCHANGED <<closed, threads, ran>>

\* The pthread_cond_signal of enqueue.
SignalWorker ==
  /\ client = "signal"
  /\ pc' = Signalled(at)
  /\ client' = "idle"
  /\ UNCHANGED <<queue, closed, job, at, current_worker, submitted, ran>>

\* wait_all_finish visits the workers in order; wait_empty at each.
WaitAllFinish ==
  /\ client = "idle"
  /\ client' = "waiting"
  /\ at' = 0
  /\ UNCHANGED <<queue, closed, threads, current_worker, submitted, ran>>

WaitSleep ==
  /\ client = "waiting"
  /\ queue[at] # <<>>
  /\ client' = "asleep"
  /\ UNCHANGED <<queue, closed, threads, at, current_worker, submitted, ran>>

WaitNext ==
  /\ client = "waiting"
  /\ queue[at] = <<>>
  /\ at < NWorkers - 1
  /\ at' = at + 1
  /\ UNCHANGED <<queue, closed, threads, client, current_worker, submitted, ran>>

WaitReturn ==
  /\ client = "waiting"
  /\ queue[at] = <<>>
  /\ at = NWorkers - 1
  /\ client' = "idle"
  /\ UNCHANGED <<queue, closed, threads, at, current_worker, submitted, ran>>

SpuriousClient ==
  /\ client = "asleep"
  /\ client' = "waiting"
  /\ UNCHANGED <<queue, closed, threads, at, current_worker, submitted, ran>>

\* ~scheduler: close every queue, then join every thread.
Destroy ==
  /\ client = "idle"
  /\ client' = "stopping"
  /\ at' = 0
  /\ UNCHANGED <<queue, closed, threads, current_worker, submitted, ran>>

\* Slip: close() sets the flag and wakes nobody.
StopSilently ==
  /\ client = "stopping"
  /\ closed' = [closed EXCEPT ![at] = TRUE]
  /\ client' = IF at = NWorkers - 1 THEN "joining" ELSE "stopping"
  /\ at' = IF at = NWorkers - 1 THEN 0 ELSE at + 1
  /\ UNCHANGED <<queue, threads, current_worker, submitted, ran>>

Stop ==
  /\ client = "stopping"
  /\ closed' = [closed EXCEPT ![at] = TRUE]
  /\ pc' = Signalled(at)
  /\ client' = IF at = NWorkers - 1 THEN "joining" ELSE "stopping"
  /\ at' = IF at = NWorkers - 1 THEN 0 ELSE at + 1
  /\ UNCHANGED <<queue, job, current_worker, submitted, ran>>

\* Slip: the threads are detached, not joined.
JoinDetached ==
  /\ client = "joining"
  /\ client' = IF at = NWorkers - 1 THEN "destroyed" ELSE "joining"
  /\ at' = IF at = NWorkers - 1 THEN at ELSE at + 1
  /\ UNCHANGED <<queue, closed, threads, current_worker, submitted, ran>>

Join ==
  /\ client = "joining"
  /\ pc[at] = "stopped"
  /\ client' = IF at = NWorkers - 1 THEN "destroyed" ELSE "joining"
  /\ at' = IF at = NWorkers - 1 THEN at ELSE at + 1
  /\ UNCHANGED <<queue, closed, threads, current_worker, submitted, ran>>

\* What the client does inside a call it has begun.
ClientStep ==
  SignalWorker \/ WaitSleep \/ WaitNext \/ WaitReturn \/ Stop \/ Join

\* The scheduler is gone: nothing more happens, and that is no deadlock.
Terminated ==
  /\ client = "destroyed"
  /\ UNCHANGED vars

Next ==
  \/ \E w \in Worker : WorkerStep(w) \/ SpuriousWorker(w)
  \/ SubmitJob
  \/ WaitAllFinish
  \/ Destroy
  \/ ClientStep
  \/ SpuriousClient
  \/ Terminated

\* The operating system runs every thread that can run, and a job returns.
\* Nothing obliges the client to begin a call, nor a spurious wake-up to come.
Fairness ==
  /\ \A w \in Worker : WF_vars(WorkerStep(w))
  /\ WF_vars(ClientStep)

Spec == Init /\ [][Next]_vars /\ Fairness

----------------------------------------------------------------------------
(* Properties.                                                             *)

PC == {"peek", "asleep", "check", "run", "dequeue", "stopped"}
Client == {"idle", "signal", "waiting", "asleep", "stopping", "joining",
           "destroyed"}

\* The variables have their types; in particular the round-robin cursor always
\* names a worker.
TypeOK ==
  /\ queue \in [Worker -> Seq(Job)]
  /\ closed \in [Worker -> BOOLEAN]
  /\ pc \in [Worker -> PC]
  /\ job \in [Worker -> Job \cup {NoJob}]
  /\ client \in Client
  /\ at \in Worker
  /\ current_worker \in Worker
  /\ submitted \in 0 .. MaxJobs
  /\ ran \subseteq Job

\* No wake-up is lost: a worker asleep although it has a job or must stop is
\* about to be signalled, and the client is asleep in wait_empty only while the
\* queue has a job. (enqueue signals after its unlock and only when the queue
\* was empty, nothing is ever broadcast, and one condition variable serves
\* both waits.)
NoLostWakeup ==
  /\ \A w \in Worker :
       pc[w] = "asleep" /\ (queue[w] # <<>> \/ closed[w])
         => client = "signal" /\ at = w
  /\ client = "asleep" => queue[at] # <<>>

\* The pointer peek returned, used after the lock is released, is still the
\* head of the queue while the job runs and when dequeue removes the head.
JobIsHead ==
  \A w \in Worker :
    pc[w] \in {"run", "dequeue"} => queue[w] # <<>> /\ job[w] = Head(queue[w])

\* A job is run once, by one worker, and is deleted once: the job stays on the
\* queue while it runs and after it has been deleted.
RunOnce ==
  \A w \in Worker :
    pc[w] = "run" =>
      /\ job[w] \notin ran
      /\ \A v \in Worker \ {w} : pc[v] = "run" => job[v] # job[w]

\* The jobs of one worker run in the order they were submitted.
InOrder ==
  [][\A i, j \in Job : i < j /\ i % NWorkers = j % NWorkers /\ j \in ran'
       => i \in ran']_vars

\* wait_all_finish visits one queue after another and takes no lock over all
\* of them; still, when it returns every job submitted so far has run.
WaitBarrier ==
  [][client = "waiting" /\ client' = "idle" => ran = 0 .. submitted - 1]_vars

\* wait_all_finish returns.
WaitReturns == client \in {"waiting", "asleep"} ~> client = "idle"

\* The destructor returns, whatever the workers are doing when it begins.
DestructorReturns == client \in {"stopping", "joining"} ~> client = "destroyed"

\* A submitted job is run, unless the scheduler is destroyed first.
JobsRun ==
  \A j \in Job :
    j < submitted ~> j \in ran \/ client \in {"stopping", "joining", "destroyed"}

----------------------------------------------------------------------------
(* Refinement: what the client can tell of a scheduler is JobPool.         *)

Running == {job[w] : w \in {v \in Worker : pc[v] = "run"}}
OnQueue == UNION {Elements(queue[w]) : w \in Worker}
Queued == OnQueue \ (Running \cup ran)
CallerState ==
  CASE client \in {"idle", "signal"} -> "free"
    [] client \in {"waiting", "asleep"} -> "waiting"
    [] client \in {"stopping", "joining"} -> "closing"
    [] client = "destroyed" -> "closed"

Pool == INSTANCE JobPool
          WITH queued <- Queued, running <- Running, done <- ran,
               caller <- CallerState

\* Threads and queues implement the pool of jobs the rest of the program sees.
ImplementsPool == Pool!Spec

=============================================================================
