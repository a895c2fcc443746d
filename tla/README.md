# A TLA+ verification of the K23 search engine

The repository is a C++ engine for the SIGMOD 2013 contest: a client registers
word queries (exact, by hamming distance, by edit distance), pushes documents,
and collects for each document the queries that match it. The work is done by
jobs on POSIX threads; the indexes are BK-trees and hash tables written in the
repository. This directory models the engine and the containers it stands on,
model-checks them with TLC and proves most of what TLC checks with TLAPS, for
every value of the constants.

## 1. Inventory

| Part | State it keeps | Operations | Interacts by |
|---|---|---|---|
| `concurrent_queue` (queue.hpp) | a list, a mutex, one condition variable, `closed` | enqueue, peek, dequeue, close, wait_empty | shared by one worker and its client; `finished_results` by all document jobs and the client |
| `worker`, `scheduler` (scheduler.hpp/.cpp) | one queue and thread per worker, `current_worker` | submit_job, wait_all_finish, constructor, destructor | the engine has one pool of 16 threads; each document job has one of 3 |
| engine (core.cpp) | table of queries, `active_queries`, `query_has_started`, `thresholdCounters`, three kinds of index, `docs`, `finished_results` | StartQuery, EndQuery, MatchDocument, GetNextAvailRes; jobs that add a word and match a document | jobs on the pool; results queue |
| `hash_table`, `hash_set` | arrays of keys and values, size, capacity | insert, lookup, remove, clear, move assignment, growth, iterators | exact index, sets of words, results of a document |
| `bk_tree` | root, children, distances, depth | insert, find, match | edit and hamming indexes; walks with a `vector`, children in a `skip_list` |
| `linked_list`, `queue` | nodes with two pointers, head, tail, size | append, prepend, remove, enqueue, dequeue, peek, moves, iterators | `docs`, `finished_results`, a worker's queue, the data of a skip list |
| `string` | pointer to a buffer, its room, its length | constructors, copies, moves, cat, +, sanitize | texts of queries and documents; a document is moved from list to queue with its text |
| `skip_list` | levels of linked nodes, a list of data | insert, find, copies, (remove: unused) | children of a BK-tree node |
| `vector` | array, size, capacity | push, set, growth | stack of a search, payloads, workers of a scheduler |
| distances | none (a buffer per call) | edit_distance, hamming_distance | metric of the BK-trees |
| `string_view`, `parse_string` | range of a text | split | words of queries and documents |
| `thread_safe_container` | data and a mutex | lock, unlock, get_data | every index, `docs`, a document's results |
| `concurrent_cyclic_buffer` | a ring, two positions, two locks, one condition variable | push, pop | nothing in the engine |
| not used by the engine | | | bloom filter, sstream, search |

What is hard here:

- *Signals.* `enqueue` signals after its unlock and only when the queue was
  empty; `dequeue` signals under the lock; a worker waiting for a job and the
  client waiting for an empty queue share one condition variable.
- *A pointer that outlives its lock.* `peek` returns the address of the head;
  the job runs and is deleted while it is still on the queue.
- *Locks left out on purpose.* Match jobs read indexes, flags and counters with
  no lock. What keeps writers away is only the order of calls to
  `wait_all_finish`.
- *Order of calls.* A query started while documents are outstanding, an answer
  asked for when none is due, words of the greatest length.
- *The end.* Static objects are destroyed while threads may still have jobs.
- *Ownership.* Lists and strings hand their nodes and buffers to each other; a
  node or buffer must not have two owners, nor lose the one it has.
- *Iterators* stay open while a table or a list is changed.
- *Containers at their limits.* Growth in integer arithmetic, a stack sized by
  depth and filled by breadth, probes round the end of an array, random towers.

PROJECT.json lists 40 such places with their lines, and the properties that
would fail if they went wrong.

## 2. Modules

```
            SearchService                 what core.h promises
                 ^ implements (TLC; TLAPS if the client collects first)
              Engine  --- uses ---> JobPool        what a scheduler promises
                                      ^ implements (TLC, TLAPS)
                                   Scheduler       threads, queues, signals

       Lists                          sequences of values
         ^ implements (TLC, TLAPS)
     LinkedList --- extends ---> Strings        nodes; buffers of texts

   HashTable     SkipList     Parser     CyclicBuffer
   BkTree --- uses ---> Vector        EditDistance --- uses ---> Words
      ^ a metric: proved of the two distances of Words (TLAPS)
```

| Module | Models | A step is |
|---|---|---|
| `JobPool` | abstract: jobs submitted, started and finished in any order; wait; destruction | one event the caller can tell |
| `Scheduler` | queue.hpp, scheduler.hpp, scheduler.cpp | one critical section, or one access outside of it |
| `SearchService` | abstract: active queries, one answer per document, by the queries active at its push | one call of core.h |
| `Engine` | core.cpp on `JobPool` | a call, or the part of it between two points where it may wait; a critical section of a job |
| `HashTable` | hash_table.hpp | one call |
| `BkTree` | bk_tree.hpp, `add_to_tree` | one turn of a loop |
| `SkipList` | skip_list.hpp | one turn of a loop |
| `Lists` | abstract: lists of values, variables with a value | one call |
| `LinkedList` | list.hpp, `queue` of queue.hpp | one call |
| `Strings` | string.cpp | one call |
| `CyclicBuffer` | cyclic_buffer.hpp | one access to a position or slot, or a step of a lock or condition variable |
| `Vector` | growth of vector.hpp | one call |
| `EditDistance`, `Words` | distances.cpp; textbook distances | one turn of a loop |
| `Parser` | parser.hpp, `string_view::split` | one token |

`XProofs` holds the theorems about module X: there is one for Scheduler, Engine,
HashTable, BkTree, SkipList, EditDistance, LinkedList and CyclicBuffer. What is proved
of Strings is in LinkedListProofs, where its places are nodes and variables, and what
is proved of Vector in BkTreeProofs, whose stack is one.

The `MC*` modules give constants to TLC. Every other definition is mapped to its
lines in PROJECT.json. Definitions whose comment says "Slip" are not part
of any specification: each is an action or operator with a plausible mistake,
and in its place the property named in PROJECT.json under "mutants" fails.

**Scheduler.** `queue[w]`, `closed[w]` are worker w's `concurrent_queue`; `pc[w]`
and `job[w]` are where `worker::start` is and what `peek` returned. A thread in
`pthread_cond_wait` is "asleep"; a signal, or a spurious wake-up at any time,
moves it to the loop test. `client` and `at` are the call the owner is in and
the worker it has got to. The constructor is `Init`: threads that have not
begun differ in nothing from threads about to peek.

**Engine.** The pool's variables are those of `JobPool`. A document job's own
scheduler of three threads is not another pool: it has all its jobs before it
is waited for, round robin puts the edit, hamming and exact lookups in one
thread each, and the three run in parallel, so `left[d][k]` and `hits[d][k]` are
what the thread of kind k has still to look up and to count. The history variable
`met[d][q]` has the words of q whose hits d has counted, those included that find
the query matched already and change nothing else; no action reads it.
`MatchedIsCleared` compares `matched` and `matched_words` with it. A lookup reads the
index in one step. This is what `NoIndexRace` is for: with the documented
discipline of the driver the index does not change while any document is
matched, so one step or many make no difference. In the run `snapshot` the
client breaks that discipline; the model then shows the harmless half of what
can happen, a stale answer, and not the data race.

At exit the indexes, which are constructed after the pool, go before it: from
"exited" on there are none, and the pool is closed and joined after that. docs and
finished_results are constructed before main and go last.

**LinkedList, Strings.** Memory is explicit: `nodes` are the nodes allocated and
`heap` the buffers, each free or with a text and its room; `str[p]` is the buffer of
the string at place p, a node or a variable of the client. A step is one call with
all it allocates and frees. A leaked node or buffer stays taken. For
`queue<DocumentResults>` a node's string stands for all that the document owns.

**HashTable.** The loops over the array are the places they stop at: a probe
visits `Probe(k, cap, 0)`, `Probe(k, cap, 1)`, ... and `find_available_position` is
the first of them that is free or has the key. resize inserts the entries of the
old array one after the other (`Rehashed`); each of these insertions calls
`maybe_resize` in the code, and `ResizeNeverNests` proves that this does nothing.
There is the iterator a caller may hold. `cut` are the keys that a
removal has cut off from their home slot, which lookup does not find again:
`LookupExact` says that it is these and no others.

**CyclicBuffer.** The positions are read and written without a common lock, so
each access is a step. pop's signal may be sent when the writer it was meant for
has gone on. The order of accesses is that of the program; what a compiler or a
processor makes of the race is not modelled.

**BkTree** takes a finite set of words (their length is limited) and any metric on
it: `BkTreeAssumption` says that a distance is a natural number, symmetric, zero
for equal words only, and has the triangle inequality. `LevenshteinIsMetric` and
`HammingIsMetric` prove that the program's two are. The children of a node are
kept sorted in one sequence because that is all a search uses of the skip list;
`SkipList` is about the list itself.

**EditDistance** starts with the two arguments and cuts and computes as the code
does, in one buffer; `Levenshtein` is the textbook recursion, a function on pairs of
indices.

## 3. Runs

| Run | Bounds | Question | Result |
|---|---|---|---|
| `scheduler` | 3 workers, 5 jobs | are wake-ups lost, jobs lost or repeated, waits too short or endless; is it a `JobPool` | holds |
| `engine` | any two of an edit query of two words, a hamming and an exact query; two documents; answers collected before a query starts, and asked for when due; exit at any time | are counters exact, are unlocked reads safe, does every call return and the process end, is every document answered by the queries of its time | holds |
| `snapshot` | a client that starts a query with an answer outstanding | is the answer that of the time of MatchDocument (core.h) | **fails** |
| `no_avail_res` | a client that asks when nothing is due | does GetNextAvailRes return (core.h) | **fails** |
| `long_word` | a word of 31 letters | has it a hamming tree | **fails** |
| `hash_table` | 5 keys, 3 of them with one home slot, 2 values, growth from 5 slots to 11, 2 removals, an iterator | is what was inserted found, and what is lost to a removal; is there always a free slot; does a walk miss a key | holds |
| `bk_tree` | 6 words, thresholds 0 to 2, every order of insertion | is a match exact, does the stack fit | holds |
| `skip_list` | 3 levels, 5 keys, every order and every tower, copies of every set of keys | are levels sorted, is every key found | holds |
| `linked_list` | 2 lists, 3 nodes, 3 buffers, a variable, an iterator | do the pointers agree, is a buffer freed twice or shared, what leaks, are lists sequences of values | holds |
| `cyclic_buffer` | one writer, one reader, 2 elements, no spurious wake-up | is an element overwritten before it is popped | **fails** |
| `edit_distance` | every pair of words of 1 to 4 letters out of 2 | is it the Levenshtein distance | holds |
| `parser` | every text of up to 5 characters with a letter in it | is every word passed on | **fails** |

Why the bounds suffice to meet the cases: with three workers the sweep of
`wait_all_finish` has queues behind and before it; with five jobs two queues
get a second job, so an enqueue finds queues empty, busy with one and with
more. In `engine`, qe needs two words and document d1 has two words that match
both, so it is completed by hits of different lookups and hit again after; d2
matches only a part. Queries are started and ended before, between and after
documents. The
client may leave after any of them. In `hash_table` two removals leave a hole and
its consequences, the fifth key makes the table grow. In `linked_list` three
nodes give a first, a middle and a last one, or a list with two and one with
one; one text and the empty one are enough to tell equal values from equal
nodes, and with four strings for three buffers memory also runs out. The root of the BK-tree gets more children
within the threshold than its stack was made for, so the stack grows. Three
levels give towers below, equal to and above each neighbour. Words of four
letters have a prefix, a suffix and a middle that differ.

Bounds in the specifications: `MaxJobs` (Scheduler), `MaxQueries` (Engine),
`MaxRemovals` (HashTable), `MaxLength` (Parser, Strings). A query ID or a document ID is used once, as core.h says.

`CHECK_DEADLOCK FALSE` is set for `edit_distance` and `parser` alone, where a
call ends. `Terminated` in Scheduler and Engine is the end of the process, so
that any other deadlock is reported.

### What the failing runs show

1. **A query started too soon is in the answer** (core.cpp:279). Only
   MatchDocument and EndQuery wait for the pool. Under core.h an answer depends
   on the queries active when the document was pushed. The bundled driver
   collects all answers before it starts a query and never sees this.
2. **GetNextAvailRes never returns EC_NO_AVAIL_RES** (core.cpp:397): `peek` waits
   on a queue nobody closes.
3. **No hamming tree for words of 31 letters** (core.cpp:80): 27 trees for the 28
   lengths 4 to 31.
4. **A cyclic buffer that is full is written to** (cyclic_buffer.hpp:80): a pop that
   found the ring full takes its element, and before it signals the writer fills
   the ring again and goes to sleep on it. The signal wakes it, it does not test
   again, and write meets read: the ring counts as empty and all it held is
   lost. It takes no spurious wake-up. With the same gap a signal sent between
   the test and the wait is lost; the next pop finds the ring no longer full and
   sends none, and the writer sleeps on with room in the ring.
5. **Words are lost at a space** (string_view.cpp:34): the last one before a space
   at the end, and all that follow two spaces or one at the start.

Found too, by what had to be left out of a property that holds:

- A removal from a hash table hides the keys behind it (hash_table.hpp:243): a
  freed slot is the same as one never used, and ends the probe. These keys are
  `cut` in HashTable; core.cpp calls no remove.
- Move assignment of a list and copy assignment of a string lose what they assign
  to (list.hpp:124, string.cpp:56): `OnlyAssignmentsLeak`. A list moved to itself
  is empty.
- A word of a query started as the client's last call may be written to an index
  that is already destroyed (core.cpp:166): the second part of `IndexOutlivesUse`.

## 4. Fairness

`Scheduler`: each worker is weakly fair, because the operating system runs a
thread that can run and `operator()` of a job returns; the client is weakly fair
inside a call it has begun, and nothing obliges it to begin one. No fairness is
assumed of spurious wake-ups. A thread asleep has no enabled step, so a lost
signal is a counterexample.

`Engine`: the same of the client's steps inside a call, and of the jobs: that
the pool starts and finishes what it is given is what `JobsRun` and
`WaitReturns` of Scheduler show. The steps of all documents share one fairness
condition, and so do those of all words: a document that can go on is only
passed over by another that does, of which there are finitely many steps.
`BkTree`, `SkipList`, `HashTable`, `EditDistance`, `Parser`, `LinkedList`,
`CyclicBuffer` state safety only.

## 5. Proofs

What is proved holds for every value of the constants that the module's
assumption allows: any number of workers and jobs, any finite set of queries,
any hash function, any metric, words of any length. The proofs use the definitions
of the runs as they are. Each follows one pattern: an inductive invariant that is
stronger than the property (checked with TLC before it was proved, as far as it can be
enumerated), one lemma per action that keeps it, and a theorem that draws the property from it.

### Scheduler

| Theorem | Says |
|---|---|
| `TypeCorrect` | `Spec => []TypeOK` |
| `NoLostWakeupHolds` | no thread is asleep that should not be, unless its signal is on its way |
| `JobIsHeadHolds` | a peeked job is the head of its queue until it is dequeued |
| `RunOnceHolds` | no job is run twice |
| `InOrderHolds` | a worker runs its jobs in the order they were submitted |
| `WaitBarrierHolds` | `wait_all_finish` returns only when every submitted job has run |
| `SchedulerImplementsPool` | `Spec => Pool!Spec`, the refinement of JobPool |

- `TypeInv`: types, and that a worker past its test has a job (otherwise RunJob
  would put "no job" into `ran`).
- `NoLostWakeup` is inductive with `TypeInv`: a worker goes to sleep only after it
  has seen an empty, open queue; whoever changes that is the client, which is
  then about to signal.
- `HeadInv`: the job a worker has peeked is the head of its queue from then on, in
  "check", "run" and "dequeue". Appending keeps the head, and only the worker
  itself removes it.
- `Ledger`: a submitted job has run or is on a queue, no job is in two places, and
  a job that has run and is still on a queue is the head its worker is about to
  dequeue. It is needed for `RunOnce`: a job is on its queue even after it ran.
- `RoundRobin`: `current_worker` is the worker of the next job, each queue holds jobs
  of its worker only, and they rise along it. `RanInOrder`: of the jobs of a worker
  those that have run are the first. `InOrder` follows.
- `Swept`: while the client waits, the queues it has passed are empty. Nobody else
  submits, so they stay empty: `WaitBarrier` follows from it and `Ledger`.
- `Joined`: the threads the destructor has joined are stopped, hence nothing runs
  when it returns; the last fact the refinement needs.

### Engine

| Theorem | Says | Client |
|---|---|---|
| `TypeCorrect` | `Spec => []TypeOK` | any |
| `CountersExactHolds` | between calls the counters are those of the active queries | any |
| `EndWaitsHolds` | EndQuery switches a query off only when no document is on its way | any |
| `NoLostResultHolds` | the client sleeps on a result only while a signal is coming | any |
| `MatchedIsClearedHolds` | a query has matched if and only if the hits counted met all its words; `matched_words` has those met until then, and nothing after | any |
| `NoIndexRaceHolds` | no index or counter is written while a document is matched | collects first |
| `IndexOutlivesUseHolds` | no document is matched after the indexes were destroyed | collects first |
| `AnswerIsSnapshotHolds` | an answer is the queries, active at the push, that match | collects first |
| `EngineImplementsService` | `Spec => Service!Spec` | collects first |

Assumption: `EngineAssumption`. Queries and words are finitely many (an ID has 32
bits, a word 31 letters at most), because a counter that is compared with the
cardinality of an infinite set would have no meaning. "Collects first" is the
hypothesis `CollectsFirst`: the client fetches all answers before it starts a query.
The bundled driver does; core.h does not ask for it, and without it the run
`snapshot` finds a wrong answer, so the hypothesis cannot be dropped.

The invariants build on each other:

- `Types`, `CallInv` (where the client is in a call and what that call has done so
  far) and `CountInv` (the counters are cardinalities of sets of queries) give
  `CountersExact`.
- `PoolInv`: a job is queued, running or done and in one of them only; a document's
  phase says in which; a waiting call leaves no job behind it. It gives `EndWaits`.
- `AnswerInv` and `ReadyInv`: how the results queue, the phases of documents and the
  place the client sleeps at go together.
- `QuietInv`: if the client collects first, documents and words are never on their
  way at the same time. It is the reason why the unlocked reads are good: `NoIndexRace`.
- `IndexInv`: an index has words of queries only, and of an active query all but
  those whose job is still to come. With `QuietInv` nothing is still to come when
  a lookup reads it; words of ended queries stay in it, and their flag hides them.
- `EntriesOfQueries`: what an index or a list of hits has for a query is a word of
  the query. So the words met are among its words, and the code's comparison of two
  cardinalities says that all of them are met: `MatchedIsCleared`.
- `MatchInv`: the hits counted and those still to come are together the words of the
  document that match; with `MatchedIsCleared` a finished document has the queries
  of the snapshot.

The refinement maps StartQuery to its first step, EndQuery to the step that
returns, MatchDocument to the push onto `docs` and GetNextAvailRes to its return;
all other steps, and all steps of jobs, change nothing a caller of core.h can tell.

### Hash table

| Theorem | Says |
|---|---|
| `TypeOKHolds` | sizes, slots and iterators are in range |
| `HasRoomHolds` | `size` counts the occupied slots and one is free |
| `LookupExactHolds` | a key is found with its value if and only if it was inserted, apart from those cut off by a removal |
| `WalkMissesNothingHolds` | a walk to the end has met every key that was there and not removed |
| `ResizeNeverNests` | insertions made by resize do not resize |

For every hash function, every set of keys and list of primes. The invariant
is that a key which is not `cut` is where its probe ends: the slots before it on the
probe hold other keys (`InReach`). A free slot ends a probe; filling it keeps what is
in reach, freeing it cuts off those behind it, and these are what `remove` puts into
`cut`. That a probe ends at all needs a free slot (`Roomy`: capacity at least 4, size
less than it) and that a probe visits every slot (`ProbeComesBy`, arithmetic modulo
the capacity). resize builds the new array entry by entry; that the recursion has a
solution, and what it is good for, is shown for the least index at which it might
fail. For the walk, `Ahead` says that a key still due lies in a slot beyond the
iterator, also when keys come and go under it.

### BK-tree

| Theorem | Says |
|---|---|
| `FindExactHolds` | find fails only for a word that was never added |
| `MatchExactHolds` | match returns the words within the threshold, each once |
| `StackFitsHolds` | there is a free slot at every push to the stack |
| `DepthExactHolds` | `depth` is the number of levels |

For every finite set of words and every metric. The tree is described by two
functions that the invariant says exist: `anc`, the entries above each entry, and
`lev`, its level. An entry below a child is as far from the parent as the child is;
this and the triangle inequality are what makes a child outside of the window
superfluous. During a search what is wanted and not yet met is under an entry on
the stack or ahead in the children being walked, and the entries pending are under
none of each other, so that none is met twice.

### Skip list

| Theorem | Says |
|---|---|
| `LevelsSortedHolds` | each level rises strictly and is part of the one below |
| `DescentKeepsKeyHolds` | the path of an insertion divides each level at the key |
| `FindExactHolds` | find finds the keys inserted or copied and no others |

For any number of levels, any keys and any towers. The invariant says of each level
a descent has left how the place it remembers divides the keys (`PathDivides`), so
the tower put in at these places keeps every level sorted (`InsertedAfter`).

### Edit distance

| Theorem | Says |
|---|---|
| `CutKeepsDistanceHolds` | cutting a common start or end keeps the distance |
| `BufferIsTwoRowsHolds` | the one buffer holds parts of two rows of the table |
| `EditExactHolds` | the result is the Levenshtein distance |
| `LevenshteinIsMetric`, `HammingIsMetric` | both distances are what `BkTreeAssumption` asks for |

For words of any length over any letters. `LevenshteinTable` shows that the recursion
has a solution, `IsTable`, whose entries are the distances of prefixes. That the
distance stays when a common first letter is cut is the hard part (`SameFirst`):
the table of the words is, from its second row and column on, that of the shorter
words moved by one. The triangle inequality (`ByWayOf`) goes through
three tables at once, by the neighbour each entry was made of.

### Linked list and strings

| Theorem | Says |
|---|---|
| `BufferOwnedHolds` | a string owns its buffer alone and has room in it for its text |
| `LinkedHolds` | the pointers of a list agree both ways and with its size; no node is on two lists |
| `WalkMissesNothingHolds` | an iterator at its end has met every node due |
| `OnlyAssignmentsLeakHolds` | only the two assignments of `OnlyAssignmentsLeak` lose a node or a buffer |
| `LinkedListImplementsLists` | `Spec => Lists!Spec`, the refinement of Lists |

For any finite number of nodes and any lists, variables, buffers and texts.
Assumptions: `StringsAssumption` and `LinkedListAssumption`, which say of what kind the
constants are; that nodes are finitely many is what `Chain` needs to cut a ring.

- *Pointers.* `Linked` follows pointers, and nothing bounds where a pointer leads but
  what the calls before have done. So the invariant does not follow them: `Shape` says
  that there is a path for each list, a sequence of nodes the pointers agree with
  in both directions, and that no node is on two. Each action is shown to do one thing
  to the paths: to insert at a place (`Put`), remove from one (`Cut`), drop a path
  (`Drop`), hand it over (`Handed`) or leave them alone. That following the pointers
  from head or tail meets the path, or its reverse, is a fact about `Chain` that is
  proved once (`ChainIs`, `ChainBack`).
- *Iterators.* `Walking`: a node still due lies on the path of the iterator, ahead of
  it. A list that is assigned to by move drops its nodes while an iterator may still be
  on them. Such a path has one more owner, `Lost`; without it the invariant is not
  inductive.
- *Memory.* `Sound`: buffers have one owner and room for the text. Each operator of
  Strings keeps it, and says what all strings hold afterwards (`Made`, `Destructed`,
  `Moved`, `MoveAssigned`, `Renewed`, `Rewritten`). `Bare`: a node that is not allocated
  has no string, so that what is constructed in it overwrites nothing. `NoneLost`: no
  buffer is left without its owner.
- *Refinement.* A list shows as the texts along its path (`Told`), a variable as its
  text; the place of a node on the path is the place of the element. Nothing else
  changes with a call because a node is on one path and a buffer has one owner.
  The steps of an iterator show as no step.

### Vector, cyclic buffer

In `BkTreeProofs`: with room for two elements or more when it is made, a vector has
a free slot at every push (`HasSlotHolds`), and one filled to at most half its
initial room never moves (`StaysPutHolds`), which is why the pointers
`scheduler::scheduler` hands to its threads are good. Assumption: `Reserved >= 2`;
with 1 the first is false (1.5 is cut to 1). Invariant: `VectorInv`.

`CyclicBufferProofs`: a push that did not have to wait stores into a free slot
(`RoomKeptHolds`), for every number of threads and every `Size` of at least 1, in
spite of the two locks. Invariant: `RoomInv`, the positions are in range and the
push under way holds the write lock. So the failing run shows the one way to
overwrite an element.

### Induction

The library's induction rules take an operator as their parameter, which the
provers cannot instantiate. Where a proof needs induction, the claim is made a set
of numbers and its least counterexample excluded with the well-foundedness of `<`
on the naturals (`SmallerFirst`, `LeastNat`).

### Only model-checked

- Liveness, under the fairness of section 4, and anything with ENABLED: the prover
  does neither.
- The failing runs, which are counterexamples and need no proof, and Parser, of
  which only such a run is stated.

## 6. Not modelled

- Copies, moves and iterators of `vector`, and moves of `bk_tree` and
  `thread_safe_container`, which core.cpp uses on empty ones only. `malloc` of an
  empty answer (core.cpp:345) and the comparison that never returns a negative
  number (core.cpp:327) are listed as hazards.
- What cannot be instantiated, or nothing calls: `skip_list::remove` and the copy operations of a
  list (one dereferences an element as if it were a node, the other destroys the
  list and walks what it destroyed), `operator->` of list iterators.
- Ordering of strings, which compares the common part only, and printing.
- Bloom filter, string streams, search: unused by the engine.
- `parse_file`, the driver's input and output, the unit tests.
- The data race itself of a client without the driver's discipline.

## 7. Plan

Done in this order: JobPool and Scheduler, their proofs; SearchService and
Engine; HashTable, Vector, BkTree, SkipList, EditDistance, Parser; exit of the
engine; iterators and moves of HashTable; CyclicBuffer and its proof; Strings,
Lists and LinkedList; copies of SkipList; the proofs of Engine, SkipList, BkTree,
HashTable and EditDistance; the proofs of Strings and LinkedList, with the refinement
of Lists.

Next:

1. A specification of an index (a multimap from words to queries) that BkTree and
   HashTable implement, in place of the history variables.
2. Life and death of the elements of a `vector`, whose resize copies them and
   destroys none.
