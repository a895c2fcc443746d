-------------------------- MODULE SchedulerProofs --------------------------
(***************************************************************************)
(* Proofs about Scheduler for every number of workers and of jobs.         *)
(***************************************************************************)
EXTENDS Scheduler, TLAPS

USE SchedulerAssumption

----------------------------------------------------------------------------
(* Types.                                                                  *)

\* The type invariant is not inductive by itself: what RunJob adds to ran is a
\* job, and not NoJob, because CheckClosed has looked.
RunsAJob == \A w \in Worker : pc[w] \in {"run", "dequeue"} => job[w] # NoJob

TypeInv == TypeOK /\ RunsAJob

LEMMA TypeInit == Init => TypeInv
  BY DEF Init, TypeInv, TypeOK, RunsAJob, Worker, PC, Client, NoJob

LEMMA NextWorkerInRange ==
  ASSUME NEW i \in Worker PROVE (i + 1) % NWorkers \in Worker
  BY DEF Worker

LEMMA TypeNext == TypeInv /\ [Next]_vars => TypeInv'
<1> SUFFICES ASSUME TypeInv, [Next]_vars PROVE TypeInv'
  OBVIOUS
<1> USE DEF TypeInv, TypeOK, RunsAJob, PC, Client
<1>1. ASSUME NEW w \in Worker, PeekSleep(w) PROVE TypeInv'
  BY <1>1 DEF PeekSleep, calls
<1>2. ASSUME NEW w \in Worker, Peek(w) PROVE TypeInv'
  <2>1. queue[w] # <<>> => Head(queue[w]) \in Job
    OBVIOUS
  <2> QED
    BY <1>2, <2>1 DEF Peek, calls
<1>3. ASSUME NEW w \in Worker, CheckClosed(w) PROVE TypeInv'
  BY <1>3 DEF CheckClosed, calls
<1>4. ASSUME NEW w \in Worker, RunJob(w) PROVE TypeInv'
  BY <1>4 DEF RunJob, calls
<1>5. ASSUME NEW w \in Worker, Dequeue(w) PROVE TypeInv'
  <2>1. queue' \in [Worker -> Seq(Job)]
    BY <1>5 DEF Dequeue
  <2> QED
    BY <1>5, <2>1 DEF Dequeue
<1>6. ASSUME NEW w \in Worker, SpuriousWorker(w) PROVE TypeInv'
  BY <1>6 DEF SpuriousWorker, calls
<1>7. CASE SubmitJob
  <2>1. submitted \in Job
    BY <1>7 DEF SubmitJob, Job
  <2>2. queue' \in [Worker -> Seq(Job)]
    BY <1>7, <2>1 DEF SubmitJob
  <2>3. current_worker' \in Worker
    BY <1>7, NextWorkerInRange DEF SubmitJob
  <2>4. submitted' \in 0 .. MaxJobs
    BY <1>7 DEF SubmitJob
  <2> QED
    BY <1>7, <2>2, <2>3, <2>4 DEF SubmitJob, threads
<1>8. CASE SignalWorker
  BY <1>8 DEF SignalWorker, Signalled
<1>9. CASE WaitAllFinish
  BY <1>9 DEF WaitAllFinish, threads, Worker
<1>10. CASE WaitSleep \/ WaitReturn \/ SpuriousClient
  BY <1>10 DEF WaitSleep, WaitReturn, SpuriousClient, threads
<1>11. CASE WaitNext
  <2>1. at' \in Worker
    BY <1>11 DEF WaitNext, Worker
  <2> QED
    BY <1>11, <2>1 DEF WaitNext, threads
<1>12. CASE Destroy
  BY <1>12 DEF Destroy, threads, Worker
<1>13. CASE Stop
  BY <1>13 DEF Stop, Signalled, Worker
<1>14. CASE Join
  BY <1>14 DEF Join, threads, Worker
<1>15. CASE UNCHANGED vars
  BY <1>15 DEF vars
<1> QED
  BY <1>1, <1>2, <1>3, <1>4, <1>5, <1>6, <1>7, <1>8, <1>9, <1>10, <1>11, <1>12,
     <1>13, <1>14, <1>15
  DEF Next, WorkerStep, ClientStep, Terminated

LEMMA TypeInvCorrect == Spec => []TypeInv
  BY TypeInit, TypeNext, PTL DEF Spec

\* Every variable keeps its type; the round-robin cursor names a worker however
\* many jobs are submitted, and no worker calls a null job.
THEOREM TypeCorrect == Spec => []TypeOK
<1>1. TypeInv => TypeOK
  BY DEF TypeInv
<1> QED
  BY <1>1, TypeInvCorrect, PTL

----------------------------------------------------------------------------
(* No wake-up is lost.                                                     *)

LEMMA WakeupNext ==
  TypeOK /\ NoLostWakeup /\ [Next]_vars => NoLostWakeup'
<1> SUFFICES ASSUME TypeOK, NoLostWakeup, [Next]_vars PROVE NoLostWakeup'
  OBVIOUS
<1> USE DEF TypeOK, NoLostWakeup
<1>1. ASSUME NEW w \in Worker, PeekSleep(w) PROVE NoLostWakeup'
  BY <1>1 DEF PeekSleep, calls
<1>2. ASSUME NEW w \in Worker, Peek(w) PROVE NoLostWakeup'
  BY <1>2 DEF Peek, calls
<1>3. ASSUME NEW w \in Worker, CheckClosed(w) PROVE NoLostWakeup'
  BY <1>3 DEF CheckClosed, calls
<1>4. ASSUME NEW w \in Worker, RunJob(w) PROVE NoLostWakeup'
  BY <1>4 DEF RunJob, calls
<1>5. ASSUME NEW w \in Worker, Dequeue(w) PROVE NoLostWakeup'
  BY <1>5 DEF Dequeue
<1>6. ASSUME NEW w \in Worker, SpuriousWorker(w) PROVE NoLostWakeup'
  BY <1>6 DEF SpuriousWorker, calls
<1>7. CASE SubmitJob
  BY <1>7 DEF SubmitJob, threads
<1>8. CASE SignalWorker
  BY <1>8 DEF SignalWorker, Signalled
<1>9. CASE WaitAllFinish \/ WaitSleep \/ WaitNext \/ WaitReturn \/ SpuriousClient
  BY <1>9 DEF WaitAllFinish, WaitSleep, WaitNext, WaitReturn, SpuriousClient, threads
<1>10. CASE Destroy \/ Join
  BY <1>10 DEF Destroy, Join, threads
<1>11. CASE Stop
  BY <1>11 DEF Stop, Signalled
<1>12. CASE UNCHANGED vars
  BY <1>12 DEF vars
<1> QED
  BY <1>1, <1>2, <1>3, <1>4, <1>5, <1>6, <1>7, <1>8, <1>9, <1>10, <1>11, <1>12
  DEF Next, WorkerStep, ClientStep, Terminated

\* A worker with a job or an order to stop, and a client whose wait is over, is
\* awake or is about to be signalled, whatever the order of the threads' steps.
THEOREM NoLostWakeupHolds == Spec => []NoLostWakeup
<1>1. Init => NoLostWakeup
  BY DEF Init, NoLostWakeup, Worker
<1> QED
  BY <1>1, TypeCorrect, WakeupNext, PTL DEF Spec

----------------------------------------------------------------------------
(* The job in hand is the head of the queue.                               *)

\* JobIsHead from the moment peek returns the job.
HeadInv ==
  \A w \in Worker :
    pc[w] \in {"check", "run", "dequeue"} /\ job[w] # NoJob
      => queue[w] # <<>> /\ job[w] = Head(queue[w])

LEMMA HeadNext == TypeInv /\ HeadInv /\ [Next]_vars => HeadInv'
<1> SUFFICES ASSUME TypeInv, HeadInv, [Next]_vars PROVE HeadInv'
  OBVIOUS
<1> USE DEF TypeInv, TypeOK, RunsAJob, HeadInv
<1>1. ASSUME NEW w \in Worker, PeekSleep(w) \/ SpuriousWorker(w) PROVE HeadInv'
  BY <1>1 DEF PeekSleep, SpuriousWorker, calls
<1>2. ASSUME NEW w \in Worker, Peek(w) PROVE HeadInv'
  BY <1>2 DEF Peek, calls
<1>3. ASSUME NEW w \in Worker, CheckClosed(w) PROVE HeadInv'
  BY <1>3 DEF CheckClosed, calls
<1>4. ASSUME NEW w \in Worker, RunJob(w) PROVE HeadInv'
  BY <1>4 DEF RunJob, calls
<1>5. ASSUME NEW w \in Worker, Dequeue(w) PROVE HeadInv'
  BY <1>5 DEF Dequeue
<1>6. CASE SubmitJob
  <2>1. submitted \in Job
    BY <1>6 DEF SubmitJob, Job
  <2>2. \A w \in Worker :
          queue[w] # <<>> => queue'[w] # <<>> /\ Head(queue'[w]) = Head(queue[w])
    BY <1>6, <2>1 DEF SubmitJob
  <2> QED
    BY <1>6, <2>2 DEF SubmitJob, threads
<1>7. CASE SignalWorker \/ Stop
  BY <1>7 DEF SignalWorker, Stop, Signalled
<1>8. CASE WaitAllFinish \/ WaitSleep \/ WaitNext \/ WaitReturn \/ SpuriousClient
  BY <1>8 DEF WaitAllFinish, WaitSleep, WaitNext, WaitReturn, SpuriousClient, threads
<1>9. CASE Destroy \/ Join
  BY <1>9 DEF Destroy, Join, threads
<1>10. CASE UNCHANGED vars
  BY <1>10 DEF vars
<1> QED
  BY <1>1, <1>2, <1>3, <1>4, <1>5, <1>6, <1>7, <1>8, <1>9, <1>10
  DEF Next, WorkerStep, ClientStep, Terminated

LEMMA HeadInvCorrect == Spec => []HeadInv
<1>1. Init => HeadInv
  BY DEF Init, HeadInv, Worker
<1> QED
  BY <1>1, TypeInvCorrect, HeadNext, PTL DEF Spec

\* What a worker runs, deletes and takes off its queue is one and the same job,
\* although it holds no lock in between.
THEOREM JobIsHeadHolds == Spec => []JobIsHead
<1>1. TypeInv /\ HeadInv => JobIsHead
  BY DEF TypeInv, RunsAJob, HeadInv, JobIsHead
<1> QED
  BY <1>1, TypeInvCorrect, HeadInvCorrect, PTL

----------------------------------------------------------------------------
(* Where each submitted job is.                                            *)

Place(w) == 1 .. Len(queue[w])

\* No job from the future.
OnlySubmitted ==
  /\ \A w \in Worker : \A i \in Place(w) : queue[w][i] < submitted
  /\ \A j \in ran : j < submitted

\* No job is lost: it has run, or it is on a queue.
NoneLost ==
  \A j \in Job : j < submitted =>
    j \in ran \/ \E w \in Worker : \E i \in Place(w) : queue[w][i] = j

\* No job is in two places.
OnePlace ==
  \A v, w \in Worker : \A i \in Place(v), k \in Place(w) :
    queue[v][i] = queue[w][k] => v = w /\ i = k

LEMMA SamePlace ==
  ASSUME OnePlace, NEW u \in Worker, NEW v \in Worker,
         NEW m \in Place(u), NEW n \in Place(v), queue[u][m] = queue[v][n]
  PROVE  u = v /\ m = n
BY DEF OnePlace

\* The only job on a queue that has run is the head its worker must still remove.
RanIsHead ==
  \A w \in Worker : \A i \in Place(w) :
    queue[w][i] \in ran <=> i = 1 /\ pc[w] = "dequeue"

Ledger == OnlySubmitted /\ NoneLost /\ OnePlace /\ RanIsHead

\* A step that changes no queue, no number, no job done and no worker's being
\* at "dequeue" keeps the ledger.
LEMMA LedgerKept ==
  ASSUME TypeInv, Ledger,
         UNCHANGED <<queue, submitted, ran>>,
         \A w \in Worker : pc'[w] = "dequeue" <=> pc[w] = "dequeue"
  PROVE  Ledger'
BY DEF Ledger, OnlySubmitted, NoneLost, OnePlace, RanIsHead, Place

LEMMA LedgerRunJob ==
  ASSUME TypeInv, HeadInv, Ledger, NEW w \in Worker, RunJob(w)
  PROVE  Ledger'
<1> USE DEF Place
<1>1. /\ UNCHANGED <<queue, submitted>>
      /\ ran' = ran \cup {job[w]}
      /\ pc' = [pc EXCEPT ![w] = "dequeue"]
      /\ pc[w] = "run"
  BY DEF RunJob, calls
<1>2. job[w] = queue[w][1] /\ 1 \in Place(w)
  BY <1>1 DEF TypeInv, TypeOK, RunsAJob, HeadInv
<1>3. OnlySubmitted'
  BY <1>1, <1>2 DEF Ledger, OnlySubmitted
<1>4. NoneLost'
  BY <1>1 DEF Ledger, NoneLost
<1>5. OnePlace'
  BY <1>1 DEF Ledger, OnePlace
<1>6. RanIsHead'
  <2> SUFFICES ASSUME NEW v \in Worker, NEW i \in Place(v)
               PROVE  queue[v][i] \in ran' <=> i = 1 /\ pc'[v] = "dequeue"
    BY <1>1 DEF RanIsHead
  <2>1. queue[v][i] \in ran <=> i = 1 /\ pc[v] = "dequeue"
    BY DEF Ledger, RanIsHead
  <2>2. queue[v][i] = job[w] <=> v = w /\ i = 1
    BY <1>2 DEF Ledger, OnePlace
  <2> QED
    BY <1>1, <2>1, <2>2 DEF TypeInv, TypeOK
<1> QED
  BY <1>3, <1>4, <1>5, <1>6 DEF Ledger

\* dequeue moves every job of the queue up by one place.
LEMMA DequeueShifts ==
  ASSUME TypeInv, NEW w \in Worker, Dequeue(w)
  PROVE  /\ Len(queue'[w]) = Len(queue[w]) - 1
         /\ \A i \in Place(w)' : queue'[w][i] = queue[w][i + 1] /\ i + 1 \in Place(w)
         /\ \A i \in Place(w) : i # 1 => i - 1 \in Place(w)'
                                        /\ queue'[w][i - 1] = queue[w][i]
<1> USE DEF Place, TypeInv, TypeOK
<1>1. queue' = [queue EXCEPT ![w] = Tail(queue[w])] /\ queue[w] # <<>>
  BY DEF Dequeue
<1>2. /\ Len(queue'[w]) = Len(queue[w]) - 1
      /\ \A i \in Place(w)' : queue'[w][i] = queue[w][i + 1] /\ i + 1 \in Place(w)
  BY <1>1
<1>3. ASSUME NEW i \in Place(w), i # 1
      PROVE  i - 1 \in Place(w)' /\ queue'[w][i - 1] = queue[w][i]
  BY <1>1, <1>2, <1>3
<1> QED
  BY <1>2, <1>3

LEMMA LedgerDequeue ==
  ASSUME TypeInv, Ledger, NEW w \in Worker, Dequeue(w)
  PROVE  Ledger'
<1> USE DEF Place, TypeInv, TypeOK
<1>1. /\ UNCHANGED <<submitted, ran>>
      /\ queue' = [queue EXCEPT ![w] = Tail(queue[w])]
      /\ pc' = [pc EXCEPT ![w] = "peek"]
      /\ pc[w] = "dequeue" /\ queue[w] # <<>>
  BY DEF Dequeue
<1>2. /\ Len(queue'[w]) = Len(queue[w]) - 1
      /\ \A i \in Place(w)' : queue'[w][i] = queue[w][i + 1] /\ i + 1 \in Place(w)
  BY DequeueShifts
<1>3. \A v \in Worker \ {w} : queue'[v] = queue[v] /\ pc'[v] = pc[v]
  BY <1>1
<1>4. OnlySubmitted'
  BY <1>1, <1>2, <1>3 DEF Ledger, OnlySubmitted
<1>5. NoneLost'
  <2> SUFFICES ASSUME NEW j \in Job, j < submitted, j \notin ran
               PROVE  \E v \in Worker : \E i \in Place(v)' : queue'[v][i] = j
    BY <1>1 DEF NoneLost
  <2>1. PICK v \in Worker : \E i \in Place(v) : queue[v][i] = j
    BY DEF Ledger, NoneLost
  <2>2. PICK i \in Place(v) : queue[v][i] = j
    BY <2>1
  <2>3. CASE v # w
    BY <1>3, <2>2, <2>3
  <2>4. CASE v = w
    <3>1. i # 1
      BY <1>1, <2>2, <2>4 DEF Ledger, RanIsHead
    <3>2. i - 1 \in Place(w)' /\ queue'[w][i - 1] = j
      BY <1>2, <2>2, <2>4, <3>1
    <3> QED
      BY <3>2
  <2> QED
    BY <2>3, <2>4
<1>6. OnePlace'
  <2> SUFFICES ASSUME NEW u \in Worker, NEW v \in Worker,
                      NEW i \in Place(u)', NEW k \in Place(v)',
                      queue'[u][i] = queue'[v][k]
               PROVE  u = v /\ i = k
    BY DEF OnePlace
  <2> DEFINE Old(x, n) == IF x = w THEN n + 1 ELSE n
  <2>1. PICK m \in Place(u) : m = Old(u, i) /\ queue'[u][i] = queue[u][m]
    BY <1>2, <1>3
  <2>2. PICK n \in Place(v) : n = Old(v, k) /\ queue'[v][k] = queue[v][n]
    BY <1>2, <1>3
  <2>3. u = v /\ m = n
    <3>1. queue[u][m] = queue[v][n]
      BY <2>1, <2>2
    <3>2. OnePlace
      BY DEF Ledger
    <3> HIDE DEF Place, TypeInv, TypeOK, Old
    <3> QED
      BY <3>1, <3>2, SamePlace
  <2> QED
    BY <2>1, <2>2, <2>3
<1>7. RanIsHead'
  <2> SUFFICES ASSUME NEW v \in Worker, NEW i \in Place(v)'
               PROVE  queue'[v][i] \in ran <=> i = 1 /\ pc'[v] = "dequeue"
    BY <1>1 DEF RanIsHead
  <2>1. CASE v # w
    BY <1>3, <2>1 DEF Ledger, RanIsHead
  <2>2. CASE v = w
    BY <1>1, <1>2, <2>2 DEF Ledger, RanIsHead
  <2> QED
    BY <2>1, <2>2
<1> QED
  BY <1>4, <1>5, <1>6, <1>7 DEF Ledger

LEMMA LedgerSubmit ==
  ASSUME TypeInv, HeadInv, Ledger, SubmitJob
  PROVE  Ledger'
<1> USE DEF Place, TypeInv, TypeOK
<1> DEFINE w == current_worker
           last == Len(queue[w]) + 1
<1>1. /\ UNCHANGED <<ran, pc>>
      /\ submitted' = submitted + 1
      /\ queue' = [queue EXCEPT ![w] = Append(queue[w], submitted)]
      /\ submitted \in Job
  BY DEF SubmitJob, threads, Job
<1>2. /\ Len(queue'[w]) = last
      /\ queue'[w][last] = submitted
      /\ \A i \in Place(w) : queue'[w][i] = queue[w][i]
  BY <1>1
<1>3. \A v \in Worker \ {w} : queue'[v] = queue[v]
  BY <1>1
<1>4. \A v \in Worker : \A i \in Place(v)' :
        \/ i \in Place(v) /\ queue'[v][i] = queue[v][i]
        \/ v = w /\ i = last /\ queue'[v][i] = submitted
  BY <1>2, <1>3
<1>5. \A v \in Worker : \A i \in Place(v) : queue[v][i] \in Job
  OBVIOUS
<1>6. OnlySubmitted'
  BY <1>1, <1>4, <1>5 DEF Ledger, OnlySubmitted, Job
<1>7. NoneLost'
  <2> SUFFICES ASSUME NEW j \in Job, j < submitted', j \notin ran
               PROVE  \E v \in Worker : \E i \in Place(v)' : queue'[v][i] = j
    BY <1>1 DEF NoneLost
  <2>1. CASE j = submitted
    BY <1>2, <2>1
  <2>2. CASE j < submitted
    <3>1. PICK v \in Worker : \E i \in Place(v) : queue[v][i] = j
      BY <2>2 DEF Ledger, NoneLost
    <3>2. PICK i \in Place(v) : queue[v][i] = j
      BY <3>1
    <3>3. i \in Place(v)' /\ queue'[v][i] = j
      BY <1>2, <1>3, <3>2
    <3> QED
      BY <3>3
  <2> QED
    BY <1>1, <2>1, <2>2 DEF Job
<1>8. OnePlace'
  <2> SUFFICES ASSUME NEW u \in Worker, NEW v \in Worker,
                      NEW i \in Place(u)', NEW k \in Place(v)',
                      queue'[u][i] = queue'[v][k]
               PROVE  u = v /\ i = k
    BY DEF OnePlace
  <2>1. CASE /\ i \in Place(u) /\ queue'[u][i] = queue[u][i]
             /\ k \in Place(v) /\ queue'[v][k] = queue[v][k]
    <3>1. queue[u][i] = queue[v][k]
      BY <2>1
    <3>2. OnePlace
      BY DEF Ledger
    <3> HIDE DEF Place, TypeInv, TypeOK
    <3> QED
      BY <2>1, <3>1, <3>2, SamePlace
  <2>2. CASE /\ u = w /\ i = last /\ queue'[u][i] = submitted
             /\ v = w /\ k = last
    BY <2>2
  <2>3. \A x \in Worker : \A n \in Place(x) : queue[x][n] # submitted
    BY <1>5 DEF Ledger, OnlySubmitted, Job
  <2> QED
    BY <1>4, <2>1, <2>2, <2>3
<1>9. RanIsHead'
  <2> SUFFICES ASSUME NEW v \in Worker, NEW i \in Place(v)'
               PROVE  queue'[v][i] \in ran <=> i = 1 /\ pc[v] = "dequeue"
    BY <1>1 DEF RanIsHead
  <2>1. CASE i \in Place(v) /\ queue'[v][i] = queue[v][i]
    BY <2>1 DEF Ledger, RanIsHead
  <2>2. CASE v = w /\ i = last /\ queue'[v][i] = submitted
    <3>1. submitted \notin ran
      BY <1>1 DEF Ledger, OnlySubmitted, Job
    <3>2. pc[w] = "dequeue" => queue[w] # <<>>
      BY DEF RunsAJob, HeadInv
    <3>3. queue[w] # <<>> => last # 1
      OBVIOUS
    <3> QED
      BY <2>2, <3>1, <3>2, <3>3
  <2> QED
    BY <1>4, <2>1, <2>2
<1> QED
  BY <1>6, <1>7, <1>8, <1>9 DEF Ledger

LEMMA LedgerNext == TypeInv /\ HeadInv /\ Ledger /\ [Next]_vars => Ledger'
<1> SUFFICES ASSUME TypeInv, HeadInv, Ledger, [Next]_vars PROVE Ledger'
  OBVIOUS
<1> USE DEF TypeInv, TypeOK
<1>1. ASSUME NEW w \in Worker,
             PeekSleep(w) \/ Peek(w) \/ CheckClosed(w) \/ SpuriousWorker(w)
      PROVE  Ledger'
  BY <1>1, LedgerKept DEF PeekSleep, Peek, CheckClosed, SpuriousWorker, calls
<1>2. ASSUME NEW w \in Worker, RunJob(w) PROVE Ledger'
  BY <1>2, LedgerRunJob
<1>3. ASSUME NEW w \in Worker, Dequeue(w) PROVE Ledger'
  BY <1>3, LedgerDequeue
<1>4. CASE SubmitJob
  BY <1>4, LedgerSubmit
<1>5. CASE SignalWorker \/ Stop
  BY <1>5, LedgerKept DEF SignalWorker, Stop, Signalled
<1>6. CASE WaitAllFinish \/ WaitSleep \/ WaitNext \/ WaitReturn \/ SpuriousClient
  BY <1>6, LedgerKept
  DEF WaitAllFinish, WaitSleep, WaitNext, WaitReturn, SpuriousClient, threads
<1>7. CASE Destroy \/ Join
  BY <1>7, LedgerKept DEF Destroy, Join, threads
<1>8. CASE UNCHANGED vars
  BY <1>8, LedgerKept DEF vars
<1> QED
  BY <1>1, <1>2, <1>3, <1>4, <1>5, <1>6, <1>7, <1>8
  DEF Next, WorkerStep, ClientStep, Terminated

LEMMA LedgerCorrect == Spec => []Ledger
<1>1. Init => Ledger
  BY DEF Init, Ledger, OnlySubmitted, NoneLost, OnePlace, RanIsHead, Place, Job
<1> QED
  BY <1>1, TypeInvCorrect, HeadInvCorrect, LedgerNext, PTL DEF Spec

\* No job runs twice or on two workers, however long it stays on its queue after
\* it has run.
THEOREM RunOnceHolds == Spec => []RunOnce
<1>1. TypeInv /\ HeadInv /\ Ledger => RunOnce
  <2> SUFFICES ASSUME TypeInv, HeadInv, Ledger, NEW w \in Worker, pc[w] = "run"
               PROVE  /\ job[w] \notin ran
                      /\ \A v \in Worker \ {w} : pc[v] = "run" => job[v] # job[w]
    BY DEF RunOnce
  <2>1. \A v \in Worker : pc[v] = "run" => 1 \in Place(v) /\ job[v] = queue[v][1]
    BY DEF TypeInv, TypeOK, RunsAJob, HeadInv, Place
  <2> QED
    BY <2>1 DEF Ledger, OnePlace, RanIsHead
<1> QED
  BY <1>1, TypeInvCorrect, HeadInvCorrect, LedgerCorrect, PTL

----------------------------------------------------------------------------
(* Round robin and the order of one worker's jobs.                         *)

LEMMA DivisionIsUnique ==
  ASSUME NEW n \in Nat \ {0}, NEW k \in Nat, NEW r \in 0 .. n - 1
  PROVE  (n * k + r) % n = r
  OBVIOUS

LEMMA NextRemainder ==
  ASSUME NEW n \in Nat \ {0}, NEW s \in Nat
  PROVE  (s + 1) % n = ((s % n) + 1) % n
<1> DEFINE k == s \div n
           r == s % n
<1>1. s = n * k + r /\ k \in Nat /\ r \in 0 .. n - 1
  OBVIOUS
<1> HIDE DEF k, r
<1>2. CASE r + 1 < n
  <2>1. s + 1 = n * k + (r + 1) /\ r + 1 \in 0 .. n - 1
    BY <1>1, <1>2
  <2>2. (s + 1) % n = r + 1
    BY <1>1, <2>1, DivisionIsUnique
  <2>3. (r + 1) % n = r + 1
    BY <2>1
  <2> QED
    BY <2>2, <2>3 DEF r
<1>3. CASE r + 1 = n
  <2>1. s + 1 = n * (k + 1) + 0 /\ k + 1 \in Nat
    BY <1>1, <1>3
  <2>2. (s + 1) % n = 0
    BY <2>1, DivisionIsUnique
  <2>3. n % n = 0
    OBVIOUS
  <2> QED
    BY <1>3, <2>2, <2>3 DEF r
<1> QED
  BY <1>1, <1>2, <1>3

\* The cursor is at the next job's worker; each queue holds jobs of its worker, in
\* the order of their submission.
RoundRobin ==
  /\ current_worker = submitted % NWorkers
  /\ \A w \in Worker : \A i \in Place(w) : queue[w][i] % NWorkers = w
  /\ \A w \in Worker : \A i, k \in Place(w) : i < k => queue[w][i] < queue[w][k]

LEMMA RoundRobinNext == TypeInv /\ Ledger /\ RoundRobin /\ [Next]_vars => RoundRobin'
<1> SUFFICES ASSUME TypeInv, Ledger, RoundRobin, [Next]_vars PROVE RoundRobin'
  OBVIOUS
<1>1. ASSUME UNCHANGED <<queue, current_worker, submitted>> PROVE RoundRobin'
  BY <1>1 DEF RoundRobin, Place
<1>2. CASE SubmitJob
  <2>0. PICK w \in Worker : w = current_worker
    BY DEF TypeInv, TypeOK
  <2>1. /\ queue' = [queue EXCEPT ![w] = Append(queue[w], submitted)]
        /\ current_worker' = (w + 1) % NWorkers
        /\ submitted' = submitted + 1
    BY <1>2, <2>0 DEF SubmitJob
  <2>2. submitted \in Nat /\ submitted \in Job
    BY <1>2 DEF TypeInv, TypeOK, SubmitJob, Job
  <2>3. w = submitted % NWorkers
    BY <2>0 DEF RoundRobin
  <2>4. current_worker' = submitted' % NWorkers
    BY <2>1, <2>2, <2>3, NextRemainder
  <2>5. queue[w] \in Seq(Job) /\ queue'[w] = Append(queue[w], submitted)
    BY <2>1, <2>2 DEF TypeInv, TypeOK
  <2>6. /\ \A i \in Place(w) : queue'[w][i] = queue[w][i] /\ queue[w][i] < submitted
        /\ queue'[w][Len(queue[w]) + 1] = submitted
        /\ \A i \in Place(w)' : i \in Place(w) \/ i = Len(queue[w]) + 1
        /\ Len(queue[w]) \in Nat
    BY <2>0, <2>2, <2>5 DEF Place, Ledger, OnlySubmitted
  <2>7. \A v \in Worker \ {w} : queue'[v] = queue[v] /\ Place(v)' = Place(v)
    BY <2>1 DEF TypeInv, TypeOK, Place
  <2>8. ASSUME NEW v \in Worker, NEW i \in Place(v)'
        PROVE  queue'[v][i] % NWorkers = v
    BY <2>3, <2>6, <2>7 DEF RoundRobin
  <2>9. ASSUME NEW v \in Worker, NEW i \in Place(v)', NEW k \in Place(v)', i < k
        PROVE  queue'[v][i] < queue'[v][k]
    <3>1. CASE v # w
      BY <2>7, <2>9, <3>1 DEF RoundRobin
    <3>2. CASE v = w
      <4>1. i \in Place(w)
        BY <2>6, <2>9, <3>2 DEF Place
      <4> QED
        BY <2>6, <2>9, <3>2, <4>1 DEF RoundRobin
    <3> QED
      BY <3>1, <3>2
  <2> QED
    BY <2>4, <2>8, <2>9 DEF RoundRobin
<1>3. ASSUME NEW w \in Worker, Dequeue(w) PROVE RoundRobin'
  <2>1. /\ \A i \in Place(w)' : queue'[w][i] = queue[w][i + 1] /\ i + 1 \in Place(w)
        /\ \A v \in Worker \ {w} : queue'[v] = queue[v] /\ Place(v)' = Place(v)
        /\ UNCHANGED <<current_worker, submitted>>
    BY <1>3, DequeueShifts DEF Dequeue, TypeInv, TypeOK, Place
  <2>2. ASSUME NEW v \in Worker, NEW i \in Place(v)', NEW k \in Place(v)', i < k
        PROVE  queue'[v][i] < queue'[v][k]
    <3>1. i + 1 < k + 1
      BY <2>2 DEF Place
    <3> QED
      BY <2>1, <2>2, <3>1 DEF RoundRobin
  <2>3. ASSUME NEW v \in Worker, NEW i \in Place(v)'
        PROVE  queue'[v][i] % NWorkers = v
    BY <2>1 DEF RoundRobin
  <2> QED
    BY <2>1, <2>2, <2>3 DEF RoundRobin
<1>4. ASSUME NEW w \in Worker,
             PeekSleep(w) \/ Peek(w) \/ CheckClosed(w) \/ RunJob(w) \/ SpuriousWorker(w)
      PROVE  RoundRobin'
  BY <1>1, <1>4 DEF PeekSleep, Peek, CheckClosed, RunJob, SpuriousWorker, calls
<1>5. CASE SignalWorker \/ WaitAllFinish \/ WaitSleep \/ WaitNext \/ WaitReturn
  BY <1>1, <1>5 DEF SignalWorker, WaitAllFinish, WaitSleep, WaitNext, WaitReturn
<1>6. CASE SpuriousClient \/ Destroy \/ Stop \/ Join \/ UNCHANGED vars
  BY <1>1, <1>6 DEF SpuriousClient, Destroy, Stop, Join, vars, calls
<1> QED
  BY <1>2, <1>3, <1>4, <1>5, <1>6 DEF Next, WorkerStep, ClientStep, Terminated

LEMMA RoundRobinCorrect == Spec => []RoundRobin
<1>1. Init => RoundRobin
  <2>1. 0 % NWorkers = 0
    OBVIOUS
  <2> QED
    BY <2>1 DEF Init, RoundRobin, Place
<1> QED
  BY <1>1, TypeInvCorrect, LedgerCorrect, RoundRobinNext, PTL DEF Spec

\* Of the jobs of one worker those that have run are the first.
RanInOrder ==
  \A i, j \in Job :
    i < j /\ i % NWorkers = j % NWorkers /\ j \in ran => i \in ran

LEMMA RanInOrderNext ==
  ASSUME TypeInv, HeadInv, Ledger, RoundRobin, RanInOrder, [Next]_vars
  PROVE  RanInOrder'
<1>1. ASSUME NEW w \in Worker, RunJob(w) PROVE RanInOrder'
  <2>1. ran' = ran \cup {job[w]} /\ pc[w] = "run"
    BY <1>1 DEF RunJob
  <2>2. 1 \in Place(w) /\ job[w] = queue[w][1] /\ job[w] \in Job
    BY <2>1 DEF TypeInv, TypeOK, RunsAJob, HeadInv, Place
  <2>3. job[w] < submitted /\ job[w] % NWorkers = w
    BY <2>2 DEF Ledger, OnlySubmitted, RoundRobin
  <2>4. ASSUME NEW i \in Job, i < job[w], i % NWorkers = job[w] % NWorkers, i \notin ran
        PROVE  FALSE
    <3>1. i < submitted
      BY <2>2, <2>3, <2>4 DEF Job, TypeInv, TypeOK
    <3>2. PICK v \in Worker : \E k \in Place(v) : queue[v][k] = i
      BY <2>4, <3>1 DEF Ledger, NoneLost
    <3>3. PICK k \in Place(v) : queue[v][k] = i
      BY <3>2
    <3>4. v = w
      BY <2>3, <2>4, <3>3 DEF RoundRobin
    <3>5. k = 1 \/ 1 < k
      BY DEF Place
    <3>6. job[w] < i \/ job[w] = i
      BY <2>2, <3>3, <3>4, <3>5 DEF RoundRobin
    <3> QED
      BY <2>2, <2>4, <3>6 DEF Job
  <2> QED
    BY <2>1, <2>4 DEF RanInOrder
<1>2. ran' = ran \/ \E w \in Worker : RunJob(w)
  BY DEF Next, WorkerStep, ClientStep, Terminated, vars, PeekSleep, Peek, CheckClosed,
         Dequeue, SpuriousWorker, SubmitJob, SignalWorker, WaitAllFinish, WaitSleep,
         WaitNext, WaitReturn, SpuriousClient, Destroy, Stop, Join
<1> QED
  BY <1>1, <1>2 DEF RanInOrder

\* The jobs of one worker run in the order they were submitted, for every number of
\* workers and of jobs: submit_job's cursor deals them out in turn and each queue is
\* first in, first out.
THEOREM InOrderHolds == Spec => InOrder
<1>1. Init => RanInOrder
  BY DEF Init, RanInOrder
<1>2. Spec => []RanInOrder
  BY <1>1, TypeInvCorrect, HeadInvCorrect, LedgerCorrect, RoundRobinCorrect,
     RanInOrderNext, PTL DEF Spec
<1>3. RanInOrder' =>
        [\A i, j \in Job : i < j /\ i % NWorkers = j % NWorkers /\ j \in ran'
           => i \in ran']_vars
  BY DEF RanInOrder
<1> QED
  BY <1>2, <1>3, PTL DEF Spec, InOrder

----------------------------------------------------------------------------
(* wait_all_finish is a barrier.                                           *)

\* The queues wait_all_finish has passed are still empty.
Swept ==
  client \in {"waiting", "asleep"} =>
    \A v \in Worker : v < at => queue[v] = <<>>

LEMMA SweptNext == TypeInv /\ HeadInv /\ Swept /\ [Next]_vars => Swept'
<1> SUFFICES ASSUME TypeInv, HeadInv, Swept, [Next]_vars PROVE Swept'
  OBVIOUS
<1> USE DEF TypeInv, TypeOK, Swept
<1>1. ASSUME NEW w \in Worker,
             \/ PeekSleep(w) \/ Peek(w) \/ CheckClosed(w) \/ RunJob(w)
             \/ SpuriousWorker(w)
      PROVE  Swept'
  BY <1>1 DEF PeekSleep, Peek, CheckClosed, RunJob, SpuriousWorker, calls
<1>2. ASSUME NEW w \in Worker, Dequeue(w) PROVE Swept'
  BY <1>2 DEF Dequeue
<1>3. CASE SubmitJob \/ SignalWorker \/ Destroy \/ Stop \/ Join
  BY <1>3 DEF SubmitJob, SignalWorker, Destroy, Stop, Join
<1>4. CASE WaitAllFinish
  BY <1>4 DEF WaitAllFinish, Worker
<1>5. CASE WaitSleep \/ SpuriousClient \/ WaitReturn
  BY <1>5 DEF WaitSleep, SpuriousClient, WaitReturn
<1>6. CASE WaitNext
  <2>1. \A v \in Worker : v < at' => v < at \/ v = at
    BY <1>6 DEF WaitNext, Worker
  <2> QED
    BY <1>6, <2>1 DEF WaitNext
<1>7. CASE UNCHANGED vars
  BY <1>7 DEF vars
<1> QED
  BY <1>1, <1>2, <1>3, <1>4, <1>5, <1>6, <1>7
  DEF Next, WorkerStep, ClientStep, Terminated

LEMMA SweptCorrect == Spec => []Swept
<1>1. Init => Swept
  BY DEF Init, Swept
<1> QED
  BY <1>1, TypeInvCorrect, HeadInvCorrect, SweptNext, PTL DEF Spec

\* When the last queue is found empty, all are, and every job has run.
LEMMA ReturnAllRan ==
  ASSUME TypeInv, Ledger, Swept, WaitReturn
  PROVE  /\ \A w \in Worker : queue[w] = <<>>
         /\ ran = 0 .. submitted - 1
<1> USE DEF TypeInv, TypeOK
<1>1. \A w \in Worker : queue[w] = <<>>
  <2>1. \A w \in Worker : w < at \/ w = at
    BY DEF WaitReturn, Worker
  <2> QED
    BY <2>1 DEF WaitReturn, Swept
<1>2. \A w \in Worker : Place(w) = {}
  BY <1>1 DEF Place
<1>3. \A j \in Job : j < submitted <=> j \in ran
  BY <1>2 DEF Ledger, NoneLost, OnlySubmitted
<1>4. \A j : j \in Job /\ j < submitted <=> j \in 0 .. submitted - 1
  BY DEF Job
<1>5. ran = 0 .. submitted - 1
  BY <1>3, <1>4
<1> QED
  BY <1>1, <1>5

\* wait_all_finish returns only after every submitted job has run, for every
\* number of workers and whatever they do while it sweeps the queues.
THEOREM WaitBarrierHolds == Spec => WaitBarrier
<1> DEFINE Barrier == client = "waiting" /\ client' = "idle" => ran = 0 .. submitted - 1
<1>1. ASSUME TypeInv, Ledger, Swept, [Next]_vars PROVE Barrier
  <2>1. client = "waiting" /\ client' = "idle" => WaitReturn
    BY <1>1
    DEF Next, vars, calls, threads, WorkerStep, ClientStep, Terminated, PeekSleep, Peek,
        CheckClosed, RunJob, Dequeue, SpuriousWorker, SubmitJob, SignalWorker,
        WaitAllFinish, WaitSleep, WaitNext, SpuriousClient, Destroy, Stop, Join
  <2> QED
    BY <1>1, <2>1, ReturnAllRan
<1>2. Spec => [][Barrier]_vars
  BY <1>1, TypeInvCorrect, LedgerCorrect, SweptCorrect, PTL DEF Spec
<1> QED
  BY <1>2 DEF WaitBarrier

----------------------------------------------------------------------------
(* Refinement of JobPool.                                                  *)

\* The threads the destructor has joined have left worker::start for good.
Joined ==
  /\ client = "joining" => \A v \in Worker : v < at => pc[v] = "stopped"
  /\ client = "destroyed" => \A v \in Worker : pc[v] = "stopped"

LEMMA JoinedNext == TypeInv /\ Joined /\ [Next]_vars => Joined'
<1> SUFFICES ASSUME TypeInv, Joined, [Next]_vars PROVE Joined'
  OBVIOUS
<1> USE DEF TypeInv, TypeOK, Joined
<1>1. ASSUME NEW w \in Worker, PeekSleep(w) \/ Peek(w) \/ SpuriousWorker(w)
      PROVE  Joined'
  BY <1>1 DEF PeekSleep, Peek, SpuriousWorker, calls
<1>2. ASSUME NEW w \in Worker, CheckClosed(w) \/ RunJob(w) PROVE Joined'
  BY <1>2 DEF CheckClosed, RunJob, calls
<1>3. ASSUME NEW w \in Worker, Dequeue(w) PROVE Joined'
  BY <1>3 DEF Dequeue
<1>4. CASE SubmitJob \/ SignalWorker \/ WaitAllFinish \/ Destroy
  BY <1>4 DEF SubmitJob, SignalWorker, WaitAllFinish, Destroy
<1>5. CASE WaitSleep \/ WaitNext \/ WaitReturn \/ SpuriousClient
  BY <1>5 DEF WaitSleep, WaitNext, WaitReturn, SpuriousClient, threads
<1>6. CASE Stop
  BY <1>6 DEF Stop, Worker
<1>7. CASE Join
  <2>1. \A v \in Worker : at < NWorkers - 1 /\ v < at + 1 => v < at \/ v = at
    BY DEF Worker
  <2>2. \A v \in Worker : at = NWorkers - 1 => v < at \/ v = at
    BY DEF Worker
  <2>3. at = NWorkers - 1 \/ at < NWorkers - 1
    BY DEF Worker
  <2> QED
    BY <1>7, <2>1, <2>2, <2>3 DEF Join, threads
<1>8. CASE UNCHANGED vars
  BY <1>8 DEF vars
<1> QED
  BY <1>1, <1>2, <1>3, <1>4, <1>5, <1>6, <1>7, <1>8
  DEF Next, WorkerStep, ClientStep, Terminated

LEMMA JoinedCorrect == Spec => []Joined
<1>1. Init => Joined
  BY DEF Init, Joined
<1> QED
  BY <1>1, TypeInvCorrect, JoinedNext, PTL DEF Spec

LEMMA OnQueueMember ==
  TypeInv => \A j : j \in OnQueue <=> \E w \in Worker : \E i \in Place(w) : queue[w][i] = j
<1> SUFFICES ASSUME TypeInv
             PROVE  \A j : j \in OnQueue <=>
                            \E w \in Worker : \E i \in Place(w) : queue[w][i] = j
  OBVIOUS
<1>1. \A w \in Worker : DOMAIN queue[w] = Place(w)
  BY DEF TypeInv, TypeOK, Place
<1> QED
  BY <1>1 DEF OnQueue, Elements

LEMMA OnQueueMemberNext ==
  TypeInv' => \A j : j \in OnQueue' <=>
                       \E w \in Worker : \E i \in Place(w)' : queue'[w][i] = j
<1> SUFFICES ASSUME TypeInv'
             PROVE  \A j : j \in OnQueue' <=>
                            \E w \in Worker : \E i \in Place(w)' : queue'[w][i] = j
  OBVIOUS
<1>1. \A w \in Worker : DOMAIN queue'[w] = Place(w)'
  BY DEF TypeInv, TypeOK, Place
<1> QED
  BY <1>1 DEF OnQueue, Elements

\* The facts about a running job the refinement rests on.
LEMMA RunningJobs ==
  ASSUME TypeInv, HeadInv, Ledger, NEW w \in Worker,
         pc[w] \in {"check", "run"}, job[w] # NoJob
  PROVE  /\ job[w] \in Job
         /\ job[w] \in OnQueue
         /\ job[w] < submitted
         /\ job[w] \notin ran
         /\ \A v \in Worker \ {w} : pc[v] = "run" => job[v] # job[w]
<1>1. \A v \in Worker :
        pc[v] \in {"check", "run"} /\ job[v] # NoJob =>
          1 \in Place(v) /\ job[v] = queue[v][1]
  BY DEF TypeInv, TypeOK, HeadInv, Place
<1>2. job[w] \in Job
  BY DEF TypeInv, TypeOK
<1>3. job[w] \in OnQueue
  BY <1>1, OnQueueMember
<1>4. job[w] < submitted
  BY <1>1 DEF Ledger, OnlySubmitted
<1>5. job[w] \notin ran
  BY <1>1 DEF Ledger, RanIsHead
<1>6. ASSUME NEW v \in Worker \ {w}, pc[v] = "run", job[v] = job[w] PROVE FALSE
  <2>1. job[v] # NoJob
    BY <1>6 DEF TypeInv, RunsAJob
  <2> QED
    BY <1>1, <1>6, <2>1, SamePlace DEF Ledger
<1> QED
  BY <1>2, <1>3, <1>4, <1>5, <1>6

\* A step that starts and finishes no job leaves Running as it is.
LEMMA RunningKept ==
  ASSUME TypeInv, TypeInv',
         \A w \in Worker : pc'[w] = "run" <=> pc[w] = "run",
         \A w \in Worker : pc[w] = "run" => job'[w] = job[w]
  PROVE  Running' = Running
BY DEF Running

LEMMA PoolInit == Init => Pool!Init
<1> SUFFICES ASSUME Init PROVE Pool!Init
  OBVIOUS
<1>1. Queued = {}
  BY DEF Init, Queued, OnQueue, Elements
<1>2. Running = {}
  BY DEF Init, Running
<1> QED
  BY <1>1, <1>2 DEF Init, Pool!Init, CallerState

LEMMA PoolWorker ==
  ASSUME TypeInv, TypeInv', HeadInv, Ledger, Joined, NEW w \in Worker,
         WorkerStep(w) \/ SpuriousWorker(w)
  PROVE  [Pool!Next]_Pool!vars
<1> USE DEF TypeInv, TypeOK
<1>1. CASE PeekSleep(w) \/ Peek(w) \/ SpuriousWorker(w)
  <2>1. Running' = Running
    BY <1>1, RunningKept DEF PeekSleep, Peek, SpuriousWorker, calls
  <2>2. UNCHANGED <<queue, ran, client>>
    BY <1>1 DEF PeekSleep, Peek, SpuriousWorker, calls
  <2> QED
    BY <2>1, <2>2 DEF Pool!vars, Queued, OnQueue, CallerState
<1>2. CASE CheckClosed(w) /\ pc'[w] # "run"
  <2>1. Running' = Running
    BY <1>2, RunningKept DEF CheckClosed
  <2> QED
    BY <1>2, <2>1 DEF CheckClosed, calls, Pool!vars, Queued, OnQueue, CallerState
<1>3. CASE CheckClosed(w) /\ pc'[w] = "run"
  <2>1. job[w] # NoJob /\ pc[w] = "check" /\ UNCHANGED <<queue, ran, client, job>>
    BY <1>3 DEF CheckClosed, calls
  <2>2. Running' = Running \cup {job[w]}
    BY <1>3 DEF CheckClosed, Running
  <2>3. /\ job[w] \in Job /\ job[w] \in OnQueue
        /\ job[w] \notin ran /\ job[w] \notin Running
    BY <2>1, RunningJobs DEF Running
  <2>4. OnQueue' = OnQueue
    BY <2>1 DEF OnQueue
  <2>5. job[w] \in Queued /\ Queued' = Queued \ {job[w]}
    BY <2>1, <2>2, <2>3, <2>4 DEF Queued
  <2>6. CallerState # "closed" /\ CallerState' = CallerState
    BY <2>1 DEF Joined, CallerState, Client
  <2>7. Pool!Start(job[w])
    BY <2>1, <2>2, <2>5, <2>6 DEF Pool!Start
  <2> QED
    BY <2>3, <2>7 DEF Pool!Next
<1>4. CASE RunJob(w)
  <2>1. /\ job[w] # NoJob /\ pc[w] = "run" /\ UNCHANGED <<queue, client, job>>
        /\ ran' = ran \cup {job[w]}
        /\ pc' = [pc EXCEPT ![w] = "dequeue"]
    BY <1>4 DEF RunJob, calls, RunsAJob
  <2>2. /\ job[w] \in Job
        /\ \A v \in Worker \ {w} : pc[v] = "run" => job[v] # job[w]
    BY <2>1, RunningJobs
  <2>3. job[w] \in Running /\ Running' = Running \ {job[w]}
    BY <2>1, <2>2 DEF Running
  <2>4. Queued' = Queued
    BY <2>1, <2>3 DEF Queued, OnQueue
  <2>5. Pool!Finish(job[w])
    BY <2>1, <2>3, <2>4 DEF Pool!Finish, CallerState
  <2> QED
    BY <2>2, <2>5 DEF Pool!Next
<1>5. CASE Dequeue(w)
  <2>1. Running' = Running
    BY <1>5, RunningKept DEF Dequeue
  <2>2. CallerState' = CallerState
    BY <1>5 DEF Dequeue, CallerState
  <2>3. ran' = ran
    BY <1>5 DEF Dequeue
  <2>4. \A j : j \notin ran => (j \in OnQueue' <=> j \in OnQueue)
    <3> SUFFICES ASSUME NEW j, j \notin ran PROVE j \in OnQueue' <=> j \in OnQueue
      OBVIOUS
    <3>1. j \in OnQueue' <=> \E v \in Worker : \E i \in Place(v)' : queue'[v][i] = j
      BY OnQueueMemberNext
    <3>2. j \in OnQueue <=> \E v \in Worker : \E i \in Place(v) : queue[v][i] = j
      BY OnQueueMember
    <3>3. /\ queue[w] # <<>> /\ queue[w][1] \in ran
          /\ \A v \in Worker \ {w} : queue'[v] = queue[v]
          /\ queue'[w] = Tail(queue[w])
      BY <1>5 DEF Dequeue, Ledger, RanIsHead, Place
    <3>4. ASSUME NEW v \in Worker, NEW i \in Place(v)', queue'[v][i] = j
          PROVE  \E u \in Worker : \E k \in Place(u) : queue[u][k] = j
      <4>1. CASE v = w
        <5>1. i + 1 \in Place(w) /\ queue[w][i + 1] = j
          BY <1>5, <3>4, <4>1, DequeueShifts
        <5> QED
          BY <5>1
      <4>2. CASE v # w
        BY <3>3, <3>4, <4>2 DEF Place
      <4> QED
        BY <4>1, <4>2
    <3>5. ASSUME NEW v \in Worker, NEW i \in Place(v), queue[v][i] = j
          PROVE  \E u \in Worker : \E k \in Place(u)' : queue'[u][k] = j
      <4>1. CASE v = w
        <5>1. i - 1 \in Place(w)' /\ queue'[w][i - 1] = j
          BY <1>5, <3>3, <3>5, <4>1, DequeueShifts
        <5> QED
          BY <5>1
      <4>2. CASE v # w
        BY <3>3, <3>5, <4>2 DEF Place
      <4> QED
        BY <4>1, <4>2
    <3> QED
      BY <3>1, <3>2, <3>4, <3>5
  <2>5. Queued' = Queued
    BY <2>1, <2>3, <2>4 DEF Queued
  <2> QED
    BY <2>1, <2>2, <2>3, <2>5 DEF Pool!vars
<1> QED
  BY <1>1, <1>2, <1>3, <1>4, <1>5 DEF WorkerStep

LEMMA PoolSubmit ==
  ASSUME TypeInv, TypeInv', HeadInv, Ledger, SubmitJob
  PROVE  Pool!Next
<1>w. PICK w \in Worker : w = current_worker
  BY DEF TypeInv, TypeOK
<1>l. PICK last \in Nat : last = Len(queue[w]) + 1
  BY DEF TypeInv, TypeOK
<1>1. /\ client = "idle" /\ client' \in {"idle", "signal"}
      /\ UNCHANGED <<ran, pc, job>>
      /\ queue' = [queue EXCEPT ![w] = Append(queue[w], submitted)]
      /\ submitted \in Job
  BY <1>w DEF SubmitJob, threads, Job, TypeInv, TypeOK
<1>2. Running' = Running
  BY <1>1, RunningKept
<1>3. \A j : j \in OnQueue' <=> j \in OnQueue \/ j = submitted
  <2>1. /\ Len(queue'[w]) = last
        /\ queue'[w][last] = submitted
        /\ \A i \in Place(w) : queue'[w][i] = queue[w][i]
    BY <1>1, <1>l DEF Place, TypeInv, TypeOK
  <2>2. Len(queue[w]) \in Nat
    BY DEF TypeInv, TypeOK
  <2>3. \A i : i \in Place(w)' <=> i \in Place(w) \/ i = last
    BY <1>l, <2>1, <2>2 DEF Place
  <2>4. \A v \in Worker \ {w} : queue'[v] = queue[v] /\ Place(v)' = Place(v)
    BY <1>1 DEF Place, TypeInv, TypeOK
  <2>5. /\ \A j : j \in OnQueue <=>
                    \E v \in Worker : \E i \in Place(v) : queue[v][i] = j
        /\ \A j : j \in OnQueue' <=>
                    \E v \in Worker : \E i \in Place(v)' : queue'[v][i] = j
    BY OnQueueMember, OnQueueMemberNext
  <2>6. ASSUME NEW j, j \in OnQueue' PROVE j \in OnQueue \/ j = submitted
    BY <2>1, <2>3, <2>4, <2>5, <2>6
  <2>7. submitted \in OnQueue'
    BY <1>1, <2>1, <2>3, <2>5
  <2>8. ASSUME NEW j, j \in OnQueue PROVE j \in OnQueue'
    BY <2>1, <2>3, <2>4, <2>5, <2>8
  <2> QED
    BY <2>6, <2>7, <2>8
<1>4. submitted \notin OnQueue \cup Running \cup ran
  <2>1. \A j \in OnQueue : j < submitted
    <3>1. \A j \in OnQueue : \E v \in Worker : \E i \in Place(v) : queue[v][i] = j
      BY OnQueueMember
    <3> QED
      BY <3>1 DEF Ledger, OnlySubmitted
  <2>2. \A j \in Running : j < submitted
    <3>1. ASSUME NEW v \in Worker, pc[v] = "run" PROVE job[v] < submitted
      <4>1. job[v] # NoJob
        BY <3>1 DEF TypeInv, RunsAJob
      <4> QED
        BY <3>1, <4>1, RunningJobs
    <3> QED
      BY <3>1 DEF Running
  <2>3. \A j \in ran : j < submitted
    BY DEF Ledger, OnlySubmitted
  <2> QED
    BY <1>1, <2>1, <2>2, <2>3 DEF Job
<1>5. Queued' = Queued \cup {submitted}
  BY <1>1, <1>2, <1>3, <1>4 DEF Queued
<1>6. Pool!Submit(submitted)
  BY <1>1, <1>2, <1>4, <1>5 DEF Pool!Submit, Queued, CallerState
<1> QED
  BY <1>1, <1>6 DEF Pool!Next

\* When every queue is empty, or every worker has stopped, no job is running.
LEMMA NothingRuns ==
  ASSUME TypeInv, HeadInv,
         (\A w \in Worker : queue[w] = <<>>) \/ (\A w \in Worker : pc[w] = "stopped")
  PROVE  Running = {}
BY DEF TypeInv, RunsAJob, HeadInv, Running

LEMMA PoolClient ==
  ASSUME TypeInv, TypeInv', HeadInv, Ledger, Swept, Joined,
         \/ WaitAllFinish \/ Destroy \/ ClientStep \/ SpuriousClient
  PROVE  [Pool!Next]_Pool!vars
<1>1. CASE SignalWorker \/ Stop
  <2>1. Running' = Running
    BY <1>1, RunningKept DEF SignalWorker, Stop, Signalled, TypeInv, TypeOK
  <2>2. UNCHANGED <<queue, ran>> /\ CallerState' = CallerState
    BY <1>1 DEF SignalWorker, Stop, CallerState
  <2> QED
    BY <2>1, <2>2 DEF Pool!vars, Queued, OnQueue
<1>2. CASE WaitSleep \/ WaitNext \/ SpuriousClient
  <2>1. UNCHANGED <<queue, ran, pc, job>> /\ CallerState' = CallerState
    BY <1>2 DEF WaitSleep, WaitNext, SpuriousClient, threads, CallerState
  <2> QED
    BY <2>1 DEF Pool!vars, Queued, OnQueue, Running
<1>3. CASE WaitAllFinish
  <2>1. UNCHANGED <<queue, ran, pc, job>>
        /\ CallerState = "free" /\ CallerState' = "waiting"
    BY <1>3 DEF WaitAllFinish, threads, CallerState
  <2> QED
    BY <2>1 DEF Pool!Next, Pool!Wait, Queued, OnQueue, Running
<1>4. CASE WaitReturn
  <2>1. UNCHANGED <<queue, ran, pc, job>>
        /\ CallerState = "waiting" /\ CallerState' = "free"
    BY <1>4 DEF WaitReturn, threads, CallerState
  <2>2. Running = {}
    BY <1>4, ReturnAllRan, NothingRuns
  <2>3. OnQueue = {}
    BY <1>4, ReturnAllRan, OnQueueMember DEF Place
  <2> QED
    BY <2>1, <2>2, <2>3 DEF Pool!Next, Pool!Return, Queued, OnQueue, Running
<1>5. CASE Destroy
  <2>1. UNCHANGED <<queue, ran, pc, job>>
        /\ CallerState = "free" /\ CallerState' = "closing"
    BY <1>5 DEF Destroy, threads, CallerState
  <2> QED
    BY <2>1 DEF Pool!Next, Pool!Close, Queued, OnQueue, Running
<1>6. CASE Join
  <2>1. UNCHANGED <<queue, ran, pc, job>> /\ CallerState = "closing"
    BY <1>6 DEF Join, threads, CallerState
  <2>2. CASE client' = "joining"
    BY <2>1, <2>2 DEF Pool!vars, Queued, OnQueue, Running, CallerState
  <2>3. CASE client' # "joining"
    <3>1. client' = "destroyed" /\ at = NWorkers - 1 /\ pc[at] = "stopped"
      BY <1>6, <2>3 DEF Join
    <3>2. \A v \in Worker : v < at \/ v = at
      BY <3>1 DEF Worker
    <3>3. Running = {}
      BY <1>6, <3>1, <3>2, NothingRuns DEF Join, Joined
    <3> QED
      BY <2>1, <3>1, <3>3
      DEF Pool!Next, Pool!Closed, Queued, OnQueue, Running, CallerState
  <2> QED
    BY <2>2, <2>3
<1> QED
  BY <1>1, <1>2, <1>3, <1>4, <1>5, <1>6 DEF ClientStep

\* A scheduler, for every number of workers and jobs, is a JobPool to the thread
\* that owns it. Engine.tla uses a JobPool on the strength of this theorem.
THEOREM SchedulerImplementsPool == Spec => ImplementsPool
<1>1. ASSUME TypeInv, TypeInv', HeadInv, Ledger, Swept, Joined, [Next]_vars
      PROVE  [Pool!Next]_Pool!vars
  <2>1. CASE UNCHANGED vars
    BY <2>1
    DEF vars, Pool!vars, Queued, OnQueue, Running, CallerState
  <2> QED
    BY <1>1, <2>1, PoolWorker, PoolSubmit, PoolClient DEF Next, Terminated
<1>2. Spec => Pool!Spec
  BY <1>1, PoolInit, TypeInvCorrect, HeadInvCorrect, LedgerCorrect, SweptCorrect,
     JoinedCorrect, PTL DEF Spec, Pool!Spec
<1> QED
  BY <1>2 DEF ImplementsPool

=============================================================================
