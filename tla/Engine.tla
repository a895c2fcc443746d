------------------------------- MODULE Engine -------------------------------
(***************************************************************************)
(* src/core.cpp: the engine behind StartQuery, EndQuery, MatchDocument and *)
(* GetNextAvailRes, on one pool of worker threads (JobPool, which          *)
(* Scheduler.tla implements).                                              *)
(*                                                                         *)
(* One thread, the client, calls the four functions. StartQuery and        *)
(* MatchDocument hand most of their work to jobs: an "add" job puts one    *)
(* word of a query into an index, a "document" job matches one document.   *)
(* A document job owns a scheduler of three threads. It submits three jobs *)
(* for each word, so by round robin one thread gets every edit job, one    *)
(* every hamming job and one every exact job: left[d][k] is the queue of   *)
(* d's thread of kind k. All of it is there when the job begins, as a job  *)
(* submitted later is one that starts later.                               *)
(*                                                                         *)
(* Indexes are sets of <<word, query>>: what is in them, not how a BK-tree *)
(* or a hash table finds it.                                               *)
(***************************************************************************)
EXTENDS Integers, FiniteSets, Sequences

CONSTANTS
  Query, Doc, Word, QueryDef, DocWords, WordLen, EditDist, HammingDist, Pending,
  MIN_WORD_LENGTH, MAX_WORD_LENGTH,
  CollectsFirst,  \* TRUE: the client collects every answer before it starts a query
  AsksWhenDue,    \* TRUE: it asks for an answer only when one is due. The test
                  \* driver does both; core.h requires neither.
  MaxQueries      \* bound: queries started in a behaviour

\* A QueryID has 32 bits and a word at most MAX_WORD_LENGTH letters: there are
\* finitely many of both.
ASSUME EngineAssumption ==
  /\ IsFiniteSet(Query) /\ IsFiniteSet(Word)
  /\ QueryDef \in [Query -> [match_type : {"edit", "hamming", "exact"},
                             match_dist : Nat, words : (SUBSET Word) \ {{}}]]
  /\ DocWords \in [Doc -> SUBSET Word]
  /\ WordLen \in [Word -> Nat]
  /\ EditDist \in [Word \X Word -> Nat]
  /\ HammingDist \in [Word \X Word -> Nat]
  /\ \A answers \in SUBSET Query : answers # Pending
  /\ MIN_WORD_LENGTH \in Nat /\ MAX_WORD_LENGTH \in Nat
  /\ CollectsFirst \in BOOLEAN
  /\ AsksWhenDue \in BOOLEAN
  /\ MaxQueries \in Nat

Kind == {"edit", "hamming", "exact"}
Dist == {QueryDef[q].match_dist : q \in Query}

AddJob(q, w) == [query |-> q, word |-> w]
DocJob(d) == [doc |-> d]
EngineJob == {AddJob(q, w) : q \in Query, w \in Word} \cup {DocJob(d) : d \in Doc}

VARIABLES
  \* the client
  pc,                 \* where it is in a call
  arg,                \* the call's query or document
  toSubmit,           \* words of arg StartQuery has still to submit
  \* job_scheduler()
  queued, running, done, caller,
  \* what core.cpp keeps of queries
  queries,            \* the table of registered queries
  active,             \* the queries whose flag `active` is set
  active_queries,
  query_has_started,
  thresholdCounters,  \* [edit, hamming] of each distance
  index,              \* edit_bk_tree(), hamming_bk_trees(), exact()
  \* what it keeps of documents
  docs,               \* the documents in the list docs
  phase,              \* where match_doc is for each document
  left,               \* left[d][k]: words the thread of kind k has still to match
  hits,               \* hits[d][k]: index entries that thread has still to count
  matched,            \* queries of DocumentResults.results with matched set
  matched_words,      \* matched_words[d][q]
  answer,             \* the answer match_doc computed
  finished_results,   \* the queue of documents with an answer
  \* history
  met,                \* met[d][q]: words of q that the hits d has counted were of
  due, delivered      \* as in SearchService

pool == <<queued, running, done, caller>>
client == <<pc, arg, toSubmit>>
registry == <<queries, active, active_queries, query_has_started>>
matching == <<left, hits, matched, matched_words, met>>
results == <<answer, finished_results>>
history == <<due, delivered>>
vars == <<client, pool, registry, thresholdCounters, index, docs, phase, matching,
          results, history>>

Pool == INSTANCE JobPool WITH Job <- EngineJob

Service == INSTANCE SearchService

None == "none"

Undelivered == {d \in Doc : due[d] # Pending /\ delivered[d] = Pending}

----------------------------------------------------------------------------
Init ==
  /\ pc = "idle" /\ arg = None /\ toSubmit = {}
  /\ Pool!Init
  /\ queries = {} /\ active = {}
  /\ active_queries = 0
  /\ query_has_started = FALSE
  /\ thresholdCounters = [t \in Dist |-> [edit |-> 0, hamming |-> 0]]
  /\ index = [k \in Kind |-> {}]
  /\ docs = {}
  /\ phase = [d \in Doc |-> "new"]
  /\ left = [d \in Doc |-> [k \in Kind |-> {}]]
  /\ hits = [d \in Doc |-> [k \in Kind |-> {}]]
  /\ matched = [d \in Doc |-> {}]
  /\ matched_words = [d \in Doc |-> [q \in Query |-> {}]]
  /\ met = [d \in Doc |-> [q \in Query |-> {}]]
  /\ answer = [d \in Doc |-> Pending]
  /\ finished_results = <<>>
  /\ due = [d \in Doc |-> Pending]
  /\ delivered = [d \in Doc |-> Pending]

----------------------------------------------------------------------------
(* StartQuery.                                                             *)

\* Slips: query_has_started is not set; active_queries is not counted.
StartUnannounced(q) ==
  /\ pc = "idle"
  /\ q \notin queries /\ Cardinality(queries) < MaxQueries
  /\ CollectsFirst => Undelivered = {}
  /\ pc' = "start" /\ arg' = q
  /\ toSubmit' = QueryDef[q].words
  /\ active_queries' = active_queries + 1
  /\ active' = active \cup {q}
  /\ UNCHANGED <<pool, queries, query_has_started, thresholdCounters, index, docs,
                 phase, matching, results, history>>

StartUncounted(q) ==
  /\ pc = "idle"
  /\ q \notin queries /\ Cardinality(queries) < MaxQueries
  /\ CollectsFirst => Undelivered = {}
  /\ pc' = "start" /\ arg' = q
  /\ toSubmit' = QueryDef[q].words
  /\ query_has_started' = TRUE
  /\ active' = active \cup {q}
  /\ UNCHANGED <<pool, queries, active_queries, thresholdCounters, index, docs,
                 phase, matching, results, history>>

StartQuery(q) ==
  /\ pc = "idle"
  /\ q \notin queries /\ Cardinality(queries) < MaxQueries
  /\ CollectsFirst => Undelivered = {}
  /\ pc' = "start" /\ arg' = q
  /\ toSubmit' = QueryDef[q].words
  /\ active_queries' = active_queries + 1
  /\ query_has_started' = TRUE
  /\ active' = active \cup {q}
  /\ UNCHANGED <<pool, queries, thresholdCounters, index, docs, phase, matching,
                 results, history>>

\* One turn of the loop over unique_words, in the order of the hash set.
SubmitAdd(w) ==
  /\ pc = "start"
  /\ w \in toSubmit
  /\ Pool!Submit(AddJob(arg, w))
  /\ toSubmit' = toSubmit \ {w}
  /\ UNCHANGED <<pc, arg, registry, thresholdCounters, index, docs, phase, matching,
                 results, history>>

\* thresholdCounters, by match type, after the loop.
Count(q, n) ==
  LET t == QueryDef[q].match_dist
      k == QueryDef[q].match_type
  IN  thresholdCounters' =
        IF k = "exact" THEN thresholdCounters
        ELSE [thresholdCounters EXCEPT ![t][k] = @ + n]

StartReturn ==
  /\ pc = "start"
  /\ toSubmit = {}
  /\ Count(arg, 1)
  /\ queries' = queries \cup {arg}
  /\ pc' = "idle" /\ arg' = None
  /\ UNCHANGED <<toSubmit, pool, active, active_queries, query_has_started, index,
                 docs, phase, matching, results, history>>

----------------------------------------------------------------------------
(* EndQuery. Its caller ends a query once.                                 *)

EndQuery(q) ==
  /\ pc = "idle"
  /\ q \in active
  /\ active_queries' = active_queries - 1
  /\ Pool!Wait
  /\ pc' = "end" /\ arg' = q
  /\ UNCHANGED <<toSubmit, queries, active, query_has_started, thresholdCounters,
                 index, docs, phase, matching, results, history>>

\* Slips: wait_all_finish is not called; the threshold counter is kept.
EndAtOnce ==
  /\ pc = "end"
  /\ caller' = "free"
  /\ Count(arg, -1) /\ active' = active \ {arg}
  /\ pc' = "idle" /\ arg' = None
  /\ UNCHANGED <<toSubmit, queued, running, done, queries, active_queries,
                 query_has_started, index, docs, phase, matching, results, history>>

EndKeepsCount ==
  /\ pc = "end"
  /\ Pool!Return
  /\ active' = active \ {arg}
  /\ pc' = "idle" /\ arg' = None
  /\ UNCHANGED <<toSubmit, queries, active_queries, query_has_started,
                 thresholdCounters, index, docs, phase, matching, results, history>>

EndReturn ==
  /\ pc = "end"
  /\ Pool!Return
  /\ IF arg \in queries
     THEN Count(arg, -1) /\ active' = active \ {arg}
     ELSE UNCHANGED <<thresholdCounters, active>>
  /\ pc' = "idle" /\ arg' = None
  /\ UNCHANGED <<toSubmit, queries, active_queries, query_has_started, index, docs,
                 phase, matching, results, history>>

----------------------------------------------------------------------------
(* MatchDocument.                                                          *)

\* Slip: the words of a query started just before may still be on their way.
MatchAtOnce(d) ==
  /\ pc = "idle"
  /\ phase[d] = "new"
  /\ pc' = "push" /\ arg' = d
  /\ UNCHANGED <<toSubmit, pool, registry, thresholdCounters, index, docs, phase,
                 matching, results, history>>

MatchDocument(d) ==
  /\ pc = "idle"
  /\ phase[d] = "new"
  /\ IF query_has_started
     THEN Pool!Wait /\ pc' = "match"
     ELSE UNCHANGED pool /\ pc' = "push"
  /\ arg' = d
  /\ UNCHANGED <<toSubmit, registry, thresholdCounters, index, docs, phase, matching,
                 results, history>>

\* Slip: wait_all_finish does not wait.
MatchReadyEarly ==
  /\ pc = "match"
  /\ caller' = "free"
  /\ query_has_started' = FALSE
  /\ pc' = "push"
  /\ UNCHANGED <<arg, toSubmit, queued, running, done, queries, active, active_queries,
                 thresholdCounters, index, docs, phase, matching, results, history>>

MatchReady ==
  /\ pc = "match"
  /\ Pool!Return
  /\ query_has_started' = FALSE
  /\ pc' = "push"
  /\ UNCHANGED <<arg, toSubmit, queries, active, active_queries, thresholdCounters,
                 index, docs, phase, matching, results, history>>

\* Append to docs under its lock, parse the words, submit the job.
PushDocument ==
  /\ pc = "push"
  /\ docs' = docs \cup {arg}
  /\ phase' = [phase EXCEPT ![arg] = "submitted"]
  /\ Pool!Submit(DocJob(arg))
  /\ due' = [due EXCEPT ![arg] = {q \in active : Service!Matches(q, arg)}]
  /\ pc' = "idle" /\ arg' = None
  /\ UNCHANGED <<toSubmit, registry, thresholdCounters, index, matching, results,
                 delivered>>

----------------------------------------------------------------------------
(* GetNextAvailRes: concurrent_queue::peek, then dequeue.                  *)

GetNextAvailRes ==
  /\ pc = "idle"
  /\ AsksWhenDue => Undelivered # {}
  /\ pc' = "peek"
  /\ UNCHANGED <<arg, toSubmit, pool, registry, thresholdCounters, index, docs, phase,
                 matching, results, history>>

PeekSleep ==
  /\ pc = "peek"
  /\ finished_results = <<>>
  /\ pc' = "asleep"
  /\ UNCHANGED <<arg, toSubmit, pool, registry, thresholdCounters, index, docs, phase,
                 matching, results, history>>

Peek ==
  /\ pc = "peek"
  /\ finished_results # <<>>
  /\ pc' = "dequeue" /\ arg' = Head(finished_results)
  /\ UNCHANGED <<toSubmit, pool, registry, thresholdCounters, index, docs, phase,
                 matching, results, history>>

SpuriousWakeup ==
  /\ pc = "asleep"
  /\ pc' = "peek"
  /\ UNCHANGED <<arg, toSubmit, pool, registry, thresholdCounters, index, docs, phase,
                 matching, results, history>>

GetReturn ==
  /\ pc = "dequeue"
  /\ finished_results # <<>>
  /\ finished_results' = Tail(finished_results)
  /\ delivered' = [delivered EXCEPT ![arg] = answer[arg]]
  /\ pc' = "idle" /\ arg' = None
  /\ UNCHANGED <<toSubmit, pool, registry, thresholdCounters, index, docs, phase,
                 matching, answer, due>>

\* main returns at the end of the input. Static objects go in the reverse order
\* of their construction: the indexes first, as the pool is constructed before
\* them, then the pool, whose destructor joins its threads, then docs and
\* finished_results. From "exited" on there are no indexes.
Exit ==
  /\ pc = "idle"
  /\ CollectsFirst => Undelivered = {}
  /\ pc' = "exited"
  /\ UNCHANGED <<arg, toSubmit, pool, registry, thresholdCounters, index, docs, phase,
                 matching, results, history>>

DestroyPool ==
  /\ pc = "exited"
  /\ Pool!Close
  /\ pc' = "closing"
  /\ UNCHANGED <<arg, toSubmit, registry, thresholdCounters, index, docs, phase,
                 matching, results, history>>

PoolDestroyed ==
  /\ pc = "closing"
  /\ Pool!Closed
  /\ pc' = "ended"
  /\ UNCHANGED <<arg, toSubmit, registry, thresholdCounters, index, docs, phase,
                 matching, results, history>>

----------------------------------------------------------------------------
(* Add jobs: add_to_tree and add_to_hash_table, under the index's lock.    *)

StartAdd(q, w) ==
  /\ Pool!Start(AddJob(q, w))
  /\ UNCHANGED <<client, registry, thresholdCounters, index, docs, phase, matching,
                 results, history>>

FinishAdd(q, w) ==
  /\ Pool!Finish(AddJob(q, w))
  /\ index' = [index EXCEPT ![QueryDef[q].match_type] = @ \cup {<<w, q>>}]
  /\ UNCHANGED <<client, registry, thresholdCounters, docs, phase, matching, results,
                 history>>

----------------------------------------------------------------------------
(* Document jobs: match_doc.                                               *)

StartDoc(d) ==
  /\ Pool!Start(DocJob(d))
  /\ phase' = [phase EXCEPT ![d] = "matching"]
  /\ left' = [left EXCEPT ![d] = [k \in Kind |-> DocWords[d]]]
  /\ UNCHANGED <<client, registry, thresholdCounters, index, docs, hits, matched,
                 matched_words, met, results, history>>

\* The tree hamming_bk_trees() keeps for words as long as w.
HammingSlot(w) == WordLen[w] - MIN_WORD_LENGTH
HAMMING_BK_TREES == MAX_WORD_LENGTH - MIN_WORD_LENGTH

\* The index entries a lookup of w under kind k finds: match_queries looks only
\* up distances some query has, match_exact has none.
Found(k, w) ==
  {e \in index[k] :
     LET v == e[1]
         q == e[2]
         t == QueryDef[q].match_dist
     IN  /\ q \in active
         /\ \/ k = "exact" /\ v = w
            \/ /\ k = "edit"
               /\ thresholdCounters[t].edit # 0
               /\ EditDist[v, w] <= t
            \/ /\ k = "hamming"
               /\ thresholdCounters[t].hamming # 0
               /\ HammingSlot(v) = HammingSlot(w)
               /\ HammingDist[v, w] <= t}

\* match_queries or match_exact reads an index, with no lock.
LookUp(d, k, w) ==
  /\ phase[d] = "matching"
  /\ w \in left[d][k]
  /\ hits[d][k] = {}
  /\ left' = [left EXCEPT ![d][k] = @ \ {w}]
  /\ hits' = [hits EXCEPT ![d][k] = Found(k, w)]
  /\ UNCHANGED <<client, pool, registry, thresholdCounters, index, docs, phase,
                 matched, matched_words, met, results, history>>

\* Slip: no early return for a query that has matched already.
CountHitAgain(d, k, e) ==
  LET q == e[2]
      found == matched_words[d][q] \cup {e[1]}
      full == Cardinality(found) = Cardinality(QueryDef[q].words)
  IN  /\ phase[d] = "matching"
      /\ e \in hits[d][k]
      /\ hits' = [hits EXCEPT ![d][k] = @ \ {e}]
      /\ met' = [met EXCEPT ![d][q] = @ \cup {e[1]}]
      /\ matched' = [matched EXCEPT ![d] = IF full THEN @ \cup {q} ELSE @]
      /\ matched_words' = [matched_words EXCEPT ![d][q] = IF full THEN {} ELSE found]
      /\ UNCHANGED <<client, pool, registry, thresholdCounters, index, docs, phase,
                     left, results, history>>

\* add_query_to_doc_results, under the lock of the document's results.
CountHit(d, k, e) ==
  LET q == e[2]
      found == matched_words[d][q] \cup {e[1]}
      full == Cardinality(found) = Cardinality(QueryDef[q].words)
  IN  /\ phase[d] = "matching"
      /\ e \in hits[d][k]
      /\ hits' = [hits EXCEPT ![d][k] = @ \ {e}]
      /\ met' = [met EXCEPT ![d][q] = @ \cup {e[1]}]
      /\ IF q \in matched[d]
         THEN UNCHANGED <<matched, matched_words>>
         ELSE /\ matched' = [matched EXCEPT ![d] = IF full THEN @ \cup {q} ELSE @]
              /\ matched_words' =
                   [matched_words EXCEPT ![d][q] = IF full THEN {} ELSE found]
      /\ UNCHANGED <<client, pool, registry, thresholdCounters, index, docs, phase,
                     left, results, history>>

\* Slips: the test for previously_empty is inverted; a document that matches
\* nothing gets no answer.
AnswerSignalInverted(d) ==
  /\ phase[d] = "matching"
  /\ \A k \in Kind : left[d][k] = {} /\ hits[d][k] = {}
  /\ answer' = [answer EXCEPT ![d] = matched[d]]
  /\ finished_results' = Append(finished_results, d)
  /\ phase' = [phase EXCEPT ![d] = IF finished_results = <<>> THEN "remove"
                                   ELSE "signal"]
  /\ UNCHANGED <<client, pool, registry, thresholdCounters, index, docs, matching,
                 history>>

AnswerIfMatched(d) ==
  /\ phase[d] = "matching"
  /\ matched[d] # {}
  /\ \A k \in Kind : left[d][k] = {} /\ hits[d][k] = {}
  /\ answer' = [answer EXCEPT ![d] = matched[d]]
  /\ finished_results' = Append(finished_results, d)
  /\ phase' = [phase EXCEPT ![d] = IF finished_results = <<>> THEN "signal"
                                   ELSE "remove"]
  /\ UNCHANGED <<client, pool, registry, thresholdCounters, index, docs, matching,
                 history>>

\* wait_all_finish of the inner scheduler returns; the answer is collected and
\* the document moved to finished_results: enqueue up to its unlock.
Answer(d) ==
  /\ phase[d] = "matching"
  /\ \A k \in Kind : left[d][k] = {} /\ hits[d][k] = {}
  /\ answer' = [answer EXCEPT ![d] = matched[d]]
  /\ finished_results' = Append(finished_results, d)
  /\ phase' = [phase EXCEPT ![d] = IF finished_results = <<>> THEN "signal"
                                   ELSE "remove"]
  /\ UNCHANGED <<client, pool, registry, thresholdCounters, index, docs, matching,
                 history>>

\* The signal of enqueue: only the client waits on finished_results.
SignalResult(d) ==
  /\ phase[d] = "signal"
  /\ phase' = [phase EXCEPT ![d] = "remove"]
  /\ pc' = IF pc = "asleep" THEN "peek" ELSE pc
  /\ UNCHANGED <<arg, toSubmit, pool, registry, thresholdCounters, index, docs,
                 matching, results, history>>

\* The document's node leaves the list, and the job ends.
RemoveDoc(d) ==
  /\ phase[d] = "remove"
  /\ docs' = docs \ {d}
  /\ phase' = [phase EXCEPT ![d] = "gone"]
  /\ Pool!Finish(DocJob(d))
  /\ UNCHANGED <<client, registry, thresholdCounters, index, matching, results,
                 history>>

----------------------------------------------------------------------------
\* The process has ended: nothing more happens, and that is no deadlock.
Terminated ==
  /\ pc = "ended"
  /\ UNCHANGED vars

\* What the client does inside a call it has begun, and at exit.
ClientStep ==
  \/ \E w \in Word : SubmitAdd(w)
  \/ StartReturn
  \/ EndReturn
  \/ MatchReady
  \/ PushDocument
  \/ PeekSleep
  \/ Peek
  \/ GetReturn
  \/ DestroyPool
  \/ PoolDestroyed

\* What a worker does for a document; for a word of a query.
DocStep(d) ==
  \/ StartDoc(d)
  \/ \E k \in Kind, w \in Word : LookUp(d, k, w)
  \/ \E k \in Kind : \E e \in hits[d][k] : CountHit(d, k, e)
  \/ Answer(d)
  \/ SignalResult(d)
  \/ RemoveDoc(d)

AddStep(q, w) == StartAdd(q, w) \/ FinishAdd(q, w)

Next ==
  \/ \E q \in Query : StartQuery(q) \/ EndQuery(q)
  \/ \E d \in Doc : MatchDocument(d)
  \/ GetNextAvailRes
  \/ Exit
  \/ ClientStep
  \/ \E d \in Doc : DocStep(d)
  \/ \E q \in Query : \E w \in QueryDef[q].words : AddStep(q, w)
  \/ SpuriousWakeup
  \/ Terminated

\* Threads run, and the pool starts and finishes its jobs (Scheduler!JobsRun,
\* Scheduler!WaitReturns). Nothing obliges the client to begin a call.
Fairness ==
  /\ WF_vars(ClientStep)
  /\ WF_vars(\E d \in Doc : DocStep(d))
  /\ WF_vars(\E q \in Query : \E w \in QueryDef[q].words : AddStep(q, w))

Spec == Init /\ [][Next]_vars /\ Fairness

----------------------------------------------------------------------------
(* Properties.                                                             *)

Entry == Word \X Query
Phase == {"new", "submitted", "matching", "signal", "remove", "gone"}

\* The variables have their types; active_queries, unsigned in the code, never
\* goes below zero.
TypeOK ==
  /\ pc \in {"idle", "start", "end", "match", "push", "peek", "asleep", "dequeue",
             "exited", "closing", "ended"}
  /\ arg \in Query \cup Doc \cup {None}
  /\ toSubmit \subseteq Word
  /\ queued \cup running \cup done \subseteq EngineJob
  /\ queries \subseteq Query /\ active \subseteq Query
  /\ active_queries \in 0 .. Cardinality(Query)
  /\ query_has_started \in BOOLEAN
  /\ thresholdCounters \in [Dist -> [edit : Nat, hamming : Nat]]
  /\ index \in [Kind -> SUBSET Entry]
  /\ docs \subseteq Doc
  /\ phase \in [Doc -> Phase]
  /\ left \in [Doc -> [Kind -> SUBSET Word]]
  /\ hits \in [Doc -> [Kind -> SUBSET Entry]]
  /\ matched \in [Doc -> SUBSET Query]
  /\ matched_words \in [Doc -> [Query -> SUBSET Word]]
  /\ met \in [Doc -> [Query -> SUBSET Word]]
  /\ answer \in [Doc -> (SUBSET Query) \cup {Pending}]
  /\ finished_results \in Seq(Doc)

\* Between calls the counters agree with the active queries: a distance that
\* match_queries skips has no active query, whatever was started and ended.
CountersExact ==
  pc = "idle" =>
    /\ active_queries = Cardinality(active)
    /\ \A t \in Dist : \A k \in {"edit", "hamming"} :
         thresholdCounters[t][k] =
           Cardinality({q \in active : /\ QueryDef[q].match_type = k
                                       /\ QueryDef[q].match_dist = t})

\* The indexes and the counters, which match jobs read without a lock, do not
\* change while a document is being matched.
NoIndexRace ==
  (\E d \in Doc : phase[d] = "matching") =>
    /\ pc # "start"
    /\ \A q \in Query, w \in Word : AddJob(q, w) \notin queued \cup running

\* A query has matched a document if and only if the hits counted for it, by three
\* threads in any order, were of all its words. Until then matched_words holds the
\* words met; the hit of the last one clears it, a hash set with no buckets from
\* then on, and a later hit of the query leaves it alone.
MatchedIsCleared ==
  \A d \in Doc, q \in Query :
    /\ met[d][q] \subseteq QueryDef[q].words
    /\ q \in matched[d] <=> met[d][q] = QueryDef[q].words
    /\ matched_words[d][q] = IF q \in matched[d] THEN {} ELSE met[d][q]

\* The indexes go before the pool whose jobs use them. A client that has collected
\* its answers then leaves no document that would be matched, and words on their
\* way to an index only of queries started after its last document: these jobs
\* would write to an index that is gone.
IndexOutlivesUse ==
  pc \in {"exited", "closing"} =>
    /\ \A d \in Doc : phase[d] \notin {"submitted", "matching"}
    /\ (\E q \in Query, w \in Word : AddJob(q, w) \in queued \cup running)
         => query_has_started

\* The client is asleep in GetNextAvailRes only while no document is ready, or
\* the document job that must wake it is about to.
NoLostResult ==
  pc = "asleep" /\ finished_results # <<>> => \E d \in Doc : phase[d] = "signal"

\* EndQuery switches a query off only when no document is being matched: a
\* document pushed before the call still counts the query.
EndWaits ==
  [][active' # active /\ active' \subseteq active =>
       \A d \in Doc : phase[d] \in {"new", "gone"}]_vars

\* Every document pushed gets an answer: again and again a state comes in which
\* none is without one, and an answer once computed stays.
DocsAnswered == []<>(\A d \in Doc : due[d] # Pending => answer[d] # Pending)

\* Every call of the engine returns, and at exit the pool can be destroyed.
\* (core.h: GetNextAvailRes returns EC_NO_AVAIL_RES when every answer has been
\* collected.)
CallsReturn == pc # "idle" ~> pc \in {"idle", "ended"}

\* The engine implements the service core.h promises: each document is
\* answered once, and by the queries active when it was pushed.
ImplementsService == Service!Spec

\* core.h: the result "must depend on the state of the active queries at the
\* time of calling MatchDocument()".
AnswerIsSnapshot == \A d \in Doc : answer[d] # Pending => answer[d] = due[d]

\* Every word of a query or a document has a tree in hamming_bk_trees().
HammingSlotsExist ==
  \A w \in toSubmit \cup UNION {left[d]["hamming"] : d \in Doc} :
    HammingSlot(w) \in 0 .. HAMMING_BK_TREES - 1

=============================================================================
