---------------------------- MODULE EngineProofs ----------------------------
(***************************************************************************)
(* Proofs about Engine for every set of queries, documents and words, and  *)
(* for every number of queries started.                                    *)
(***************************************************************************)
EXTENDS Engine, FiniteSetTheorems, TLAPS

USE DEF pool, client, registry, matching, results, history

----------------------------------------------------------------------------
(* The jobs of the pool.                                                   *)

\* The job of a word is not that of another word, of another query or of a
\* document.
LEMMA JobsDiffer ==
  /\ \A q1, q2, w1, w2 : AddJob(q1, w1) = AddJob(q2, w2) => q1 = q2 /\ w1 = w2
  /\ \A d1, d2 : DocJob(d1) = DocJob(d2) => d1 = d2
  /\ \A q, w, d : AddJob(q, w) # DocJob(d)
  BY DEF AddJob, DocJob

LEMMA JobsOfEngine ==
  /\ \A q \in Query, w \in Word : AddJob(q, w) \in EngineJob
  /\ \A d \in Doc : DocJob(d) \in EngineJob
  /\ \A j \in EngineJob : \/ \E q \in Query, w \in Word : j = AddJob(q, w)
                          \/ \E d \in Doc : j = DocJob(d)
  BY DEF EngineJob

LEMMA QueryFields ==
  ASSUME NEW q \in Query
  PROVE  /\ QueryDef[q].match_type \in Kind
         /\ QueryDef[q].match_dist \in Nat
         /\ QueryDef[q].match_dist \in Dist
         /\ QueryDef[q].words \subseteq Word
         /\ QueryDef[q].words # {}
         /\ IsFiniteSet(QueryDef[q].words)
  BY EngineAssumption, FS_Subset DEF Kind, Dist

----------------------------------------------------------------------------
(* Types.                                                                  *)

\* TypeOK with integers for the counters, whose bounds CountInv gives, and with
\* what the call in progress is about.
Types ==
  /\ pc \in {"idle", "start", "end", "match", "push", "peek", "asleep", "dequeue",
             "exited", "closing", "ended"}
  /\ arg \in Query \cup Doc \cup {None}
  /\ pc \in {"start", "end"} => arg \in Query
  /\ pc \in {"match", "push", "dequeue"} => arg \in Doc
  /\ toSubmit \subseteq Word
  /\ queued \subseteq EngineJob /\ running \subseteq EngineJob
  /\ done \subseteq EngineJob
  /\ queries \subseteq Query /\ active \subseteq Query
  /\ active_queries \in Int
  /\ query_has_started \in BOOLEAN
  /\ thresholdCounters \in [Dist -> [edit : Int, hamming : Int]]
  /\ index \in [Kind -> SUBSET Entry]
  /\ docs \subseteq Doc
  /\ phase \in [Doc -> Phase]
  /\ left \in [Doc -> [Kind -> SUBSET Word]]
  /\ hits \in [Doc -> [Kind -> SUBSET Entry]]
  /\ matched \in [Doc -> SUBSET Query]
  /\ matched_words \in [Doc -> [Query -> SUBSET Word]]
  /\ met \in [Doc -> [Query -> SUBSET Word]]
  /\ answer \in [Doc -> (SUBSET Query) \cup {Pending}]
  /\ finished_results \in Seq(Doc)
  /\ due \in [Doc -> (SUBSET Query) \cup {Pending}]
  /\ delivered \in [Doc -> (SUBSET Query) \cup {Pending}]

LEMMA TypesInit == Init => Types
<1> SUFFICES ASSUME Init PROVE Types
  OBVIOUS
<1>1. /\ thresholdCounters \in [Dist -> [edit : Int, hamming : Int]]
      /\ active_queries \in Int
  BY DEF Init
<1>2. /\ left \in [Doc -> [Kind -> SUBSET Word]]
      /\ hits \in [Doc -> [Kind -> SUBSET Entry]]
      /\ index \in [Kind -> SUBSET Entry]
      /\ matched \in [Doc -> SUBSET Query]
      /\ matched_words \in [Doc -> [Query -> SUBSET Word]]
      /\ met \in [Doc -> [Query -> SUBSET Word]]
  BY DEF Init
<1>3. /\ answer \in [Doc -> (SUBSET Query) \cup {Pending}]
      /\ due \in [Doc -> (SUBSET Query) \cup {Pending}]
      /\ delivered \in [Doc -> (SUBSET Query) \cup {Pending}]
      /\ phase \in [Doc -> Phase]
      /\ finished_results \in Seq(Doc)
  BY DEF Init, Phase
<1> QED
  BY <1>1, <1>2, <1>3 DEF Init, Types, Pool!Init, None

LEMMA CountTypes ==
  ASSUME NEW q \in Query, NEW n \in Int, Count(q, n),
         thresholdCounters \in [Dist -> [edit : Int, hamming : Int]]
  PROVE  thresholdCounters' \in [Dist -> [edit : Int, hamming : Int]]
<1>1. QueryDef[q].match_dist \in Dist /\ QueryDef[q].match_type \in Kind
  BY QueryFields
<1>2. CASE QueryDef[q].match_type = "exact"
  BY <1>2 DEF Count
<1>3. CASE QueryDef[q].match_type \in {"edit", "hamming"}
  BY <1>1, <1>3 DEF Count
<1> QED
  BY <1>1, <1>2, <1>3 DEF Kind

\* What a hit of word v of query q does, case by case.
WordsWith(d, v, q) == matched_words[d][q] \cup {v}

Completes(d, v, q) == Cardinality(WordsWith(d, v, q)) = Cardinality(QueryDef[q].words)

HitEffect(d, k, v, q) ==
  /\ phase[d] = "matching"
  /\ <<v, q>> \in hits[d][k]
  /\ hits' = [hits EXCEPT ![d][k] = @ \ {<<v, q>>}]
  /\ met' = [met EXCEPT ![d][q] = @ \cup {v}]
  /\ \/ /\ q \in matched[d]
        /\ UNCHANGED <<matched, matched_words>>
     \/ /\ q \notin matched[d] /\ Completes(d, v, q)
        /\ matched' = [matched EXCEPT ![d] = @ \cup {q}]
        /\ matched_words' = [matched_words EXCEPT ![d][q] = {}]
     \/ /\ q \notin matched[d] /\ ~Completes(d, v, q)
        /\ matched' = matched
        /\ matched_words' = [matched_words EXCEPT ![d][q] = WordsWith(d, v, q)]
  /\ UNCHANGED <<client, pool, registry, thresholdCounters, index, docs, phase, left,
                 results, history>>

LEMMA CountHitCases ==
  ASSUME Types, NEW d \in Doc, NEW k \in Kind, NEW v \in Word, NEW q \in Query,
         CountHit(d, k, <<v, q>>)
  PROVE  HitEffect(d, k, v, q)
<1> USE DEF HitEffect
<1>1. [matched EXCEPT ![d] = @] = matched
  BY DEF Types
<1>2. CASE q \in matched[d]
  BY <1>2 DEF CountHit
<1>3. CASE q \notin matched[d] /\ Completes(d, v, q)
  BY <1>3 DEF CountHit, Completes, WordsWith
<1>4. CASE q \notin matched[d] /\ ~Completes(d, v, q)
  BY <1>1, <1>4 DEF CountHit, Completes, WordsWith
<1> QED
  BY <1>2, <1>3, <1>4

LEMMA HitIsEntry ==
  ASSUME Types, NEW d \in Doc, NEW k \in Kind, NEW e \in hits[d][k]
  PROVE  \E v \in Word, q \in Query : e = <<v, q>>
  BY DEF Types, Entry

LEMMA CountHitTypes ==
  ASSUME Types, NEW d \in Doc, NEW k \in Kind, NEW v \in Word, NEW q \in Query,
         CountHit(d, k, <<v, q>>)
  PROVE  Types'
<1>1. HitEffect(d, k, v, q)
  BY CountHitCases
<1>2. WordsWith(d, v, q) \subseteq Word
  BY DEF Types, WordsWith
<1>3. hits' \in [Doc -> [Kind -> SUBSET Entry]]
  BY <1>1 DEF Types, HitEffect
<1>4. matched' \in [Doc -> SUBSET Query]
  <2>1. matched \in [Doc -> SUBSET Query]
    BY DEF Types
  <2>2. matched' = matched \/ matched' = [matched EXCEPT ![d] = @ \cup {q}]
    BY <1>1 DEF HitEffect
  <2> QED
    BY <2>1, <2>2
<1>5. matched_words' \in [Doc -> [Query -> SUBSET Word]]
  <2>1. PICK S \in SUBSET Word :
           \/ matched_words' = matched_words
           \/ matched_words' = [matched_words EXCEPT ![d][q] = S]
    BY <1>1, <1>2 DEF HitEffect
  <2>2. matched_words \in [Doc -> [Query -> SUBSET Word]]
    BY DEF Types
  <2>3. [matched_words EXCEPT ![d][q] = S] \in [Doc -> [Query -> SUBSET Word]]
    BY <2>2
  <2> QED
    BY <2>1, <2>2, <2>3
<1>6. met' \in [Doc -> [Query -> SUBSET Word]]
  <2>1. met \in [Doc -> [Query -> SUBSET Word]]
    BY DEF Types
  <2>2. met' = [met EXCEPT ![d][q] = @ \cup {v}]
    BY <1>1 DEF HitEffect
  <2> QED
    BY <2>1, <2>2
<1> QED
  BY <1>1, <1>3, <1>4, <1>5, <1>6 DEF Types, HitEffect

LEMMA TypesNext == Types /\ [Next]_vars => Types'
<1> SUFFICES ASSUME Types, [Next]_vars PROVE Types'
  OBVIOUS
<1> USE DEF Types
<1>1. ASSUME NEW q \in Query, StartQuery(q) PROVE Types'
  BY <1>1, QueryFields DEF StartQuery
<1>2. ASSUME NEW w \in Word, SubmitAdd(w) PROVE Types'
  BY <1>2, JobsOfEngine DEF SubmitAdd, Pool!Submit
<1>3. CASE StartReturn
  BY <1>3, CountTypes DEF StartReturn
<1>4. ASSUME NEW q \in Query, EndQuery(q) PROVE Types'
  BY <1>4 DEF EndQuery, Pool!Wait
<1>5. CASE EndReturn
  BY <1>5, CountTypes DEF EndReturn, Pool!Return
<1>6. ASSUME NEW d \in Doc, MatchDocument(d) PROVE Types'
  BY <1>6 DEF MatchDocument, Pool!Wait
<1>7. CASE MatchReady
  BY <1>7 DEF MatchReady, Pool!Return
<1>8. CASE PushDocument
  BY <1>8, JobsOfEngine DEF PushDocument, Pool!Submit, Phase
<1>9. CASE GetNextAvailRes \/ PeekSleep \/ SpuriousWakeup \/ Exit
  BY <1>9 DEF GetNextAvailRes, PeekSleep, SpuriousWakeup, Exit
<1>10. CASE Peek
  BY <1>10 DEF Peek
<1>11. CASE GetReturn
  BY <1>11 DEF GetReturn
<1>12. CASE DestroyPool \/ PoolDestroyed
  BY <1>12 DEF DestroyPool, PoolDestroyed, Pool!Close, Pool!Closed
<1>13. ASSUME NEW q \in Query, NEW w \in Word, StartAdd(q, w) PROVE Types'
  BY <1>13 DEF StartAdd, Pool!Start
<1>14. ASSUME NEW q \in Query, NEW w \in Word, FinishAdd(q, w) PROVE Types'
  BY <1>14, QueryFields DEF FinishAdd, Pool!Finish, Entry
<1>15. ASSUME NEW d \in Doc, StartDoc(d) PROVE Types'
  BY <1>15, EngineAssumption DEF StartDoc, Pool!Start, Phase
<1>16. ASSUME NEW d \in Doc, NEW k \in Kind, NEW w \in Word, LookUp(d, k, w)
       PROVE  Types'
  <2>1. Found(k, w) \subseteq index[k]
    BY DEF Found
  <2> QED
    BY <1>16, <2>1 DEF LookUp
<1>17. ASSUME NEW d \in Doc, NEW k \in Kind, NEW e \in hits[d][k], CountHit(d, k, e)
       PROVE  Types'
  BY <1>17, HitIsEntry, CountHitTypes
<1>18. ASSUME NEW d \in Doc, Answer(d) PROVE Types'
  BY <1>18 DEF Answer, Phase
<1>19. ASSUME NEW d \in Doc, SignalResult(d) PROVE Types'
  BY <1>19 DEF SignalResult, Phase
<1>20. ASSUME NEW d \in Doc, RemoveDoc(d) PROVE Types'
  BY <1>20 DEF RemoveDoc, Pool!Finish, Phase
<1>21. CASE UNCHANGED vars
  BY <1>21 DEF vars
<1> QED
  <2> HIDE DEF Types
  <2> QED
    BY <1>1, <1>2, <1>3, <1>4, <1>5, <1>6, <1>7, <1>8, <1>9, <1>10, <1>11, <1>12,
       <1>13, <1>14, <1>15, <1>16, <1>17, <1>18, <1>19, <1>20, <1>21, QueryFields
    DEF Next, ClientStep, DocStep, AddStep, Terminated

LEMMA TypesCorrect == Spec => []Types
  BY TypesInit, TypesNext, PTL DEF Spec

----------------------------------------------------------------------------
(* The registry of queries.                                                *)

\* A query is active while it is registered, or is being started; the one being
\* ended is still active.
CallInv ==
  /\ pc = "start" => /\ arg \in active \ queries
                     /\ active \subseteq queries \cup {arg}
                     /\ toSubmit \subseteq QueryDef[arg].words
                     /\ query_has_started
  /\ pc # "start" => active \subseteq queries
  /\ pc = "end" => arg \in active

LEMMA CallNext == Types /\ CallInv /\ [Next]_vars => CallInv'
<1> SUFFICES ASSUME Types, CallInv, [Next]_vars PROVE CallInv'
  OBVIOUS
<1> USE DEF CallInv
<1>1. ASSUME NEW q \in Query, StartQuery(q) PROVE CallInv'
  BY <1>1 DEF StartQuery
<1>2. ASSUME NEW w \in Word, SubmitAdd(w) PROVE CallInv'
  BY <1>2 DEF SubmitAdd
<1>3. CASE StartReturn
  BY <1>3 DEF StartReturn
<1>4. ASSUME NEW q \in Query, EndQuery(q) PROVE CallInv'
  BY <1>4 DEF EndQuery
<1>5. CASE EndReturn
  BY <1>5 DEF EndReturn
<1>6. ASSUME NEW d \in Doc, MatchDocument(d) PROVE CallInv'
  BY <1>6 DEF MatchDocument
<1>7. CASE MatchReady \/ PushDocument \/ GetReturn
  BY <1>7 DEF MatchReady, PushDocument, GetReturn
<1>8. CASE GetNextAvailRes \/ PeekSleep \/ Peek \/ SpuriousWakeup \/ Exit
  BY <1>8 DEF GetNextAvailRes, PeekSleep, Peek, SpuriousWakeup, Exit
<1>9. CASE DestroyPool \/ PoolDestroyed
  BY <1>9 DEF DestroyPool, PoolDestroyed
<1>10. ASSUME NEW q \in Query, NEW w \in Word, AddStep(q, w) PROVE CallInv'
  BY <1>10 DEF AddStep, StartAdd, FinishAdd
<1>11. ASSUME NEW d \in Doc, DocStep(d) PROVE CallInv'
  BY <1>11 DEF DocStep, StartDoc, LookUp, CountHit, Answer, SignalResult, RemoveDoc
<1>12. CASE UNCHANGED vars
  BY <1>12 DEF vars
<1> QED
  <2> HIDE DEF CallInv
  <2> QED
    BY <1>1, <1>2, <1>3, <1>4, <1>5, <1>6, <1>7, <1>8, <1>9, <1>10, <1>11, <1>12,
       QueryFields
    DEF Next, ClientStep, Terminated

LEMMA CallCorrect == Spec => []CallInv
<1>1. Init => CallInv
  BY DEF Init, CallInv
<1> QED
  BY <1>1, TypesCorrect, CallNext, PTL DEF Spec

\* The queries thresholdCounters[t][k] stands for: those registered, active, of
\* match type k and distance t. Cardinalities of subsets of a finite set.
Counted(t, k) ==
  {q \in active \cap queries : /\ QueryDef[q].match_type = k
                               /\ QueryDef[q].match_dist = t}

\* CountersExact from one call to the next: EndQuery counts active_queries down
\* before it waits, StartQuery counts a threshold up when it returns.
CountInv ==
  /\ active_queries = Cardinality(active) - (IF pc = "end" THEN 1 ELSE 0)
  /\ \A t \in Dist : \A k \in {"edit", "hamming"} :
       thresholdCounters[t][k] = Cardinality(Counted(t, k))

LEMMA QueriesFinite ==
  ASSUME NEW S \in SUBSET Query
  PROVE  /\ IsFiniteSet(S)
         /\ Cardinality(S) \in Nat
         /\ Cardinality(S) <= Cardinality(Query)
         /\ Cardinality(Query) \in Nat
         /\ \A q : q \notin S => Cardinality(S \cup {q}) = Cardinality(S) + 1
         /\ \A q \in S : /\ Cardinality(S \ {q}) = Cardinality(S) - 1
                         /\ Cardinality(S) >= 1
<1>1. IsFiniteSet(S) /\ Cardinality(S) <= Cardinality(Query)
  BY EngineAssumption, FS_Subset
<1>2. Cardinality(S) \in Nat /\ Cardinality(Query) \in Nat
  BY <1>1, EngineAssumption, FS_CardinalityType
<1>3. \A q : q \notin S => Cardinality(S \cup {q}) = Cardinality(S) + 1
  BY <1>1, FS_AddElement
<1>4. \A q \in S : Cardinality(S \ {q}) = Cardinality(S) - 1
  BY <1>1, FS_RemoveElement
<1>5. \A q \in S : Cardinality(S) >= 1
  BY <1>1, <1>2, FS_EmptySet
<1> QED
  BY <1>1, <1>2, <1>3, <1>4, <1>5

\* Count changes one counter, that of the query's match type and distance.
LEMMA CountChanges ==
  ASSUME Types, NEW q \in Query, NEW n \in Int, Count(q, n),
         NEW t \in Dist, NEW k \in {"edit", "hamming"}
  PROVE  thresholdCounters'[t][k] =
           thresholdCounters[t][k] +
             IF QueryDef[q].match_type = k /\ QueryDef[q].match_dist = t THEN n ELSE 0
<1>1. /\ thresholdCounters \in [Dist -> [edit : Int, hamming : Int]]
      /\ thresholdCounters[t][k] \in Int
  BY DEF Types
<1>2. QueryDef[q].match_dist \in Dist /\ QueryDef[q].match_type \in Kind
  BY QueryFields
<1>3. CASE QueryDef[q].match_type = "exact"
  BY <1>1, <1>3 DEF Count
<1>4. CASE QueryDef[q].match_type = "edit"
  BY <1>1, <1>2, <1>4 DEF Count
<1>5. CASE QueryDef[q].match_type = "hamming"
  BY <1>1, <1>2, <1>5 DEF Count
<1> QED
  BY <1>2, <1>3, <1>4, <1>5 DEF Kind

LEMMA CountSteps ==
  ASSUME Types, CallInv, CountInv, [Next]_vars
  PROVE  CountInv'
<1>1. \A t \in Dist, k \in {"edit", "hamming"} : Counted(t, k) \in SUBSET Query
  BY DEF Types, Counted
<1>2. Cardinality(active) \in Nat
  BY QueriesFinite DEF Types
<1>3. ASSUME NEW q \in Query, StartQuery(q) PROVE CountInv'
  <2>1. Cardinality(active') = Cardinality(active) + 1
    BY <1>3, QueriesFinite DEF StartQuery, Types, CallInv
  <2>2. \A t, k : Counted(t, k)' = Counted(t, k)
    BY <1>3 DEF StartQuery, Counted
  <2> QED
    BY <1>2, <1>3, <2>1, <2>2 DEF StartQuery, CountInv
<1>4. CASE StartReturn
  <2>1. arg \in Query /\ arg \in active /\ arg \notin queries /\ Count(arg, 1)
    BY <1>4 DEF StartReturn, CallInv, Types
  <2>2. ASSUME NEW t \in Dist, NEW k \in {"edit", "hamming"}
        PROVE  thresholdCounters'[t][k] = Cardinality(Counted(t, k)')
    <3>1. thresholdCounters[t][k] = Cardinality(Counted(t, k))
      BY DEF CountInv
    <3>2. CASE QueryDef[arg].match_type = k /\ QueryDef[arg].match_dist = t
      <4>1. Counted(t, k)' = Counted(t, k) \cup {arg} /\ arg \notin Counted(t, k)
        BY <1>4, <2>1, <3>2 DEF StartReturn, Counted
      <4> QED
        BY <1>1, <2>1, <3>1, <3>2, <4>1, QueriesFinite, CountChanges
    <3>3. CASE ~(QueryDef[arg].match_type = k /\ QueryDef[arg].match_dist = t)
      <4>1. Counted(t, k)' = Counted(t, k)
        BY <1>4, <3>3 DEF StartReturn, Counted
      <4> QED
        BY <1>1, <2>1, <3>1, <3>3, <4>1, QueriesFinite, CountChanges
    <3> QED
      BY <3>2, <3>3
  <2> QED
    BY <1>4, <2>2 DEF StartReturn, CountInv
<1>5. ASSUME NEW q \in Query, EndQuery(q) PROVE CountInv'
  <2>1. \A t, k : Counted(t, k)' = Counted(t, k)
    BY <1>5 DEF EndQuery, Counted
  <2> QED
    BY <1>2, <1>5, <2>1 DEF EndQuery, CountInv
<1>6. CASE EndReturn
  <2>1. arg \in Query /\ arg \in active /\ arg \in queries /\ Count(arg, -1)
    BY <1>6 DEF EndReturn, CallInv, Types
  <2>2. active' = active \ {arg} /\ queries' = queries
    BY <1>6, <2>1 DEF EndReturn
  <2>3. ASSUME NEW t \in Dist, NEW k \in {"edit", "hamming"}
        PROVE  thresholdCounters'[t][k] = Cardinality(Counted(t, k)')
    <3>1. thresholdCounters[t][k] = Cardinality(Counted(t, k))
      BY DEF CountInv
    <3>2. CASE QueryDef[arg].match_type = k /\ QueryDef[arg].match_dist = t
      <4>1. Counted(t, k)' = Counted(t, k) \ {arg} /\ arg \in Counted(t, k)
        BY <2>1, <2>2, <3>2 DEF Counted
      <4> QED
        BY <1>1, <2>1, <3>1, <3>2, <4>1, QueriesFinite, CountChanges
    <3>3. CASE ~(QueryDef[arg].match_type = k /\ QueryDef[arg].match_dist = t)
      <4>1. Counted(t, k)' = Counted(t, k)
        BY <2>2, <3>3 DEF Counted
      <4> QED
        BY <1>1, <2>1, <3>1, <3>3, <4>1, QueriesFinite, CountChanges
    <3> QED
      BY <3>2, <3>3
  <2>4. Cardinality(active') = Cardinality(active) - 1
    BY <2>1, <2>2, QueriesFinite DEF Types
  <2>5. active_queries' = Cardinality(active')
    BY <1>2, <1>6, <2>4 DEF EndReturn, CountInv
  <2> QED
    BY <1>6, <2>3, <2>5 DEF EndReturn, CountInv
<1>7. ASSUME UNCHANGED <<active, queries, active_queries, thresholdCounters>>,
             pc = "end" <=> pc' = "end"
      PROVE  CountInv'
  <2>1. \A t, k : Counted(t, k)' = Counted(t, k)
    BY <1>7 DEF Counted
  <2> QED
    BY <1>7, <2>1 DEF CountInv
<1>8. ASSUME NEW w \in Word, SubmitAdd(w) PROVE CountInv'
  BY <1>7, <1>8 DEF SubmitAdd
<1>9. ASSUME NEW d \in Doc, MatchDocument(d) PROVE CountInv'
  BY <1>7, <1>9 DEF MatchDocument
<1>10. CASE MatchReady \/ PushDocument \/ GetReturn
  BY <1>7, <1>10 DEF MatchReady, PushDocument, GetReturn
<1>11. CASE GetNextAvailRes \/ PeekSleep \/ Peek \/ SpuriousWakeup \/ Exit
  BY <1>7, <1>11 DEF GetNextAvailRes, PeekSleep, Peek, SpuriousWakeup, Exit
<1>12. CASE DestroyPool \/ PoolDestroyed
  BY <1>7, <1>12 DEF DestroyPool, PoolDestroyed
<1>13. ASSUME NEW q \in Query, NEW w \in Word, AddStep(q, w) PROVE CountInv'
  BY <1>7, <1>13 DEF AddStep, StartAdd, FinishAdd
<1>14. ASSUME NEW d \in Doc, DocStep(d) PROVE CountInv'
  BY <1>7, <1>14
  DEF DocStep, StartDoc, LookUp, CountHit, Answer, SignalResult, RemoveDoc
<1>15. CASE UNCHANGED vars
  BY <1>7, <1>15 DEF vars
<1> QED
  BY <1>3, <1>4, <1>5, <1>6, <1>8, <1>9, <1>10, <1>11, <1>12, <1>13, <1>14, <1>15,
     QueryFields
  DEF Next, ClientStep, Terminated

LEMMA CountCorrect == Spec => []CountInv
<1>1. Init => CountInv
  <2> SUFFICES ASSUME Init PROVE CountInv
    OBVIOUS
  <2>1. \A t, k : Counted(t, k) = {}
    BY DEF Init, Counted
  <2>2. Cardinality(active) = 0 /\ Cardinality({}) = 0
    BY FS_EmptySet DEF Init
  <2>3. \A t \in Dist : \A k \in {"edit", "hamming"} : thresholdCounters[t][k] = 0
    BY DEF Init
  <2>4. active_queries = 0 /\ pc = "idle"
    BY DEF Init
  <2>5. \A t \in Dist : \A k \in {"edit", "hamming"} :
          thresholdCounters[t][k] = Cardinality(Counted(t, k))
    BY <2>1, <2>2, <2>3
  <2> QED
    BY <2>2, <2>4, <2>5 DEF CountInv
<1> QED
  BY <1>1, TypesCorrect, CallCorrect, CountSteps, PTL DEF Spec

\* Between calls active_queries and thresholdCounters are the numbers of active
\* queries, all of them and those of a match type and a distance, whatever was
\* started and ended: match_queries passes over no distance it must look up.
THEOREM CountersExactHolds == Spec => []CountersExact
<1>1. Types /\ CallInv /\ CountInv => CountersExact
  <2> SUFFICES ASSUME Types, CallInv, CountInv, pc = "idle" PROVE CountersExact
    BY DEF CountersExact
  <2>1. \A t, k : Counted(t, k) = {q \in active : /\ QueryDef[q].match_type = k
                                                  /\ QueryDef[q].match_dist = t}
    BY DEF Counted, CallInv
  <2>2. active_queries = Cardinality(active)
    <3>1. Cardinality(active) \in Nat
      BY QueriesFinite DEF Types
    <3> QED
      BY <3>1 DEF CountInv
  <2> QED
    BY <2>1, <2>2 DEF CountInv, CountersExact
<1> QED
  BY <1>1, TypesCorrect, CallCorrect, CountCorrect, PTL

\* Every variable keeps its type; active_queries and the threshold counters,
\* unsigned in the code, never go below zero.
THEOREM TypeCorrect == Spec => []TypeOK
<1>1. Types /\ CallInv /\ CountInv => TypeOK
  <2> SUFFICES ASSUME Types, CallInv, CountInv PROVE TypeOK
    OBVIOUS
  <2>1. active_queries \in 0 .. Cardinality(Query)
    <3>1. /\ Cardinality(active) \in Nat
          /\ Cardinality(Query) \in Nat
          /\ Cardinality(active) <= Cardinality(Query)
          /\ pc = "end" => Cardinality(active) >= 1
      BY QueriesFinite DEF Types, CallInv
    <3> QED
      BY <3>1 DEF CountInv
  <2>2. thresholdCounters \in [Dist -> [edit : Nat, hamming : Nat]]
    <3>1. \A t, k : Cardinality(Counted(t, k)) \in Nat
      BY QueriesFinite DEF Counted, Types
    <3>2. \A t \in Dist : thresholdCounters[t]["edit"] \in Nat
                          /\ thresholdCounters[t]["hamming"] \in Nat
      BY <3>1 DEF CountInv
    <3>3. thresholdCounters \in [Dist -> [edit : Int, hamming : Int]]
      BY DEF Types
    <3>4. ASSUME NEW t \in Dist
          PROVE  thresholdCounters[t] \in [edit : Nat, hamming : Nat]
      BY <3>2, <3>3
    <3> QED
      BY <3>3, <3>4
  <2> QED
    BY <2>1, <2>2 DEF Types, TypeOK
<1> QED
  BY <1>1, TypesCorrect, CallCorrect, CountCorrect, PTL

----------------------------------------------------------------------------
(* The pool and the jobs.                                                  *)

\* A job is in one place.
OnePlace == /\ queued \cap running = {}
            /\ queued \cap done = {}
            /\ running \cap done = {}

\* The client waits for the pool, or destroys it, in the calls that do.
CallerInv ==
  /\ caller = "waiting" <=> pc \in {"end", "match"}
  /\ caller = "closing" <=> pc = "closing"
  /\ caller = "closed" <=> pc = "ended"
  /\ caller \in Pool!Caller

\* Where match_doc is for a document says where its job is.
DocInv ==
  /\ \A d \in Doc :
       /\ phase[d] = "submitted" <=> DocJob(d) \in queued
       /\ phase[d] \in {"matching", "signal", "remove"} <=> DocJob(d) \in running
       /\ phase[d] = "gone" <=> DocJob(d) \in done
  /\ pc \in {"match", "push"} => phase[arg] = "new"

PoolInv == OnePlace /\ CallerInv /\ DocInv

LEMMA PoolSteps ==
  ASSUME Types, PoolInv, [Next]_vars
  PROVE  PoolInv'
<1> USE DEF PoolInv, OnePlace, CallerInv, DocInv, Pool!Caller
<1>1. ASSUME NEW q \in Query, StartQuery(q) PROVE PoolInv'
  BY <1>1 DEF StartQuery
<1>2. ASSUME NEW w \in Word, SubmitAdd(w) PROVE PoolInv'
  BY <1>2, JobsDiffer DEF SubmitAdd, Pool!Submit
<1>3. CASE StartReturn
  BY <1>3 DEF StartReturn
<1>4. ASSUME NEW q \in Query, EndQuery(q) PROVE PoolInv'
  BY <1>4 DEF EndQuery, Pool!Wait
<1>5. CASE EndReturn
  BY <1>5 DEF EndReturn, Pool!Return
<1>6. ASSUME NEW d \in Doc, MatchDocument(d) PROVE PoolInv'
  BY <1>6 DEF MatchDocument, Pool!Wait
<1>7. CASE MatchReady
  BY <1>7 DEF MatchReady, Pool!Return
<1>8. CASE PushDocument
  BY <1>8, JobsDiffer DEF PushDocument, Pool!Submit, Types
<1>9. CASE GetNextAvailRes \/ PeekSleep \/ Peek \/ SpuriousWakeup \/ GetReturn \/ Exit
  BY <1>9 DEF GetNextAvailRes, PeekSleep, Peek, SpuriousWakeup, GetReturn, Exit
<1>10. CASE DestroyPool \/ PoolDestroyed
  BY <1>10 DEF DestroyPool, PoolDestroyed, Pool!Close, Pool!Closed
<1>11. ASSUME NEW q \in Query, NEW w \in Word, StartAdd(q, w) PROVE PoolInv'
  BY <1>11, JobsDiffer DEF StartAdd, Pool!Start
<1>12. ASSUME NEW q \in Query, NEW w \in Word, FinishAdd(q, w) PROVE PoolInv'
  BY <1>12, JobsDiffer DEF FinishAdd, Pool!Finish
<1>13. ASSUME NEW d \in Doc, StartDoc(d) PROVE PoolInv'
  BY <1>13, JobsDiffer DEF StartDoc, Pool!Start, Types
<1>14. ASSUME NEW d \in Doc, NEW k \in Kind, NEW w \in Word, LookUp(d, k, w)
       PROVE  PoolInv'
  BY <1>14 DEF LookUp
<1>15. ASSUME NEW d \in Doc, NEW k \in Kind, NEW e \in hits[d][k], CountHit(d, k, e)
       PROVE  PoolInv'
  BY <1>15 DEF CountHit
<1>16. ASSUME NEW d \in Doc, Answer(d) PROVE PoolInv'
  BY <1>16 DEF Answer, Types
<1>17. ASSUME NEW d \in Doc, SignalResult(d) PROVE PoolInv'
  BY <1>17 DEF SignalResult, Types
<1>18. ASSUME NEW d \in Doc, RemoveDoc(d) PROVE PoolInv'
  BY <1>18, JobsDiffer DEF RemoveDoc, Pool!Finish, Types
<1>19. CASE UNCHANGED vars
  BY <1>19 DEF vars
<1> QED
  <2> HIDE DEF PoolInv
  <2> QED
    BY <1>1, <1>2, <1>3, <1>4, <1>5, <1>6, <1>7, <1>8, <1>9, <1>10, <1>11, <1>12,
       <1>13, <1>14, <1>15, <1>16, <1>17, <1>18, <1>19, QueryFields
    DEF Next, ClientStep, DocStep, AddStep, Terminated

LEMMA PoolCorrect == Spec => []PoolInv
<1>1. Init => PoolInv
  BY JobsDiffer
  DEF Init, Pool!Init, PoolInv, OnePlace, CallerInv, DocInv, Pool!Caller
<1> QED
  BY <1>1, TypesCorrect, PoolSteps, PTL DEF Spec

LEMMA ActiveChanges ==
  ASSUME [Next]_vars
  PROVE  \/ \E q \in Query : StartQuery(q)
         \/ EndReturn
         \/ active' = active
<1>1. ASSUME NEW q \in Query, EndQuery(q) PROVE active' = active
  BY <1>1 DEF EndQuery
<1>2. ASSUME NEW w \in Word, SubmitAdd(w) PROVE active' = active
  BY <1>2 DEF SubmitAdd
<1>3. ASSUME NEW d \in Doc, MatchDocument(d) PROVE active' = active
  BY <1>3 DEF MatchDocument
<1>4. CASE StartReturn \/ MatchReady \/ PushDocument \/ GetReturn
  BY <1>4 DEF StartReturn, MatchReady, PushDocument, GetReturn
<1>5. CASE GetNextAvailRes \/ PeekSleep \/ Peek \/ SpuriousWakeup
  BY <1>5 DEF GetNextAvailRes, PeekSleep, Peek, SpuriousWakeup
<1>6. CASE Exit \/ DestroyPool \/ PoolDestroyed
  BY <1>6 DEF Exit, DestroyPool, PoolDestroyed
<1>7. ASSUME NEW d \in Doc, DocStep(d) PROVE active' = active
  BY <1>7 DEF DocStep, StartDoc, LookUp, CountHit, Answer, SignalResult, RemoveDoc
<1>8. ASSUME NEW q \in Query, NEW w \in Word, AddStep(q, w) PROVE active' = active
  BY <1>8 DEF AddStep, StartAdd, FinishAdd
<1>9. CASE UNCHANGED vars
  BY <1>9 DEF vars
<1> QED
  BY <1>1, <1>2, <1>3, <1>4, <1>5, <1>6, <1>7, <1>8, <1>9, QueryFields
  DEF Next, ClientStep, Terminated

\* EndQuery switches a query off only when no document is being matched.
THEOREM EndWaitsHolds == Spec => EndWaits
<1> DEFINE Ended == active' # active /\ active' \subseteq active
           Quiet == \A d \in Doc : phase[d] \in {"new", "gone"}
<1>1. ASSUME Types, PoolInv, [Next]_vars, Ended PROVE Quiet
  <2>1. CASE EndReturn
    <3>1. queued = {} /\ running = {}
      BY <2>1 DEF EndReturn, Pool!Return
    <3> QED
      BY <1>1, <3>1 DEF Types, Phase, PoolInv, DocInv
  <2>2. ASSUME NEW q \in Query, StartQuery(q) PROVE FALSE
    BY <1>1, <2>2 DEF StartQuery
  <2> QED
    BY <1>1, <2>1, <2>2, ActiveChanges
<1>2. Types /\ PoolInv /\ [Next]_vars => [Ended => Quiet]_vars
  BY <1>1
<1> QED
  BY <1>2, TypesCorrect, PoolCorrect, PTL DEF Spec, EndWaits

----------------------------------------------------------------------------
(* No ready answer is slept through.                                       *)

LEMMA ResultSteps ==
  ASSUME Types, PoolInv, NoLostResult, [Next]_vars
  PROVE  NoLostResult'
<1> USE DEF NoLostResult
<1>1. CASE PeekSleep
  BY <1>1 DEF PeekSleep
<1>2. ASSUME NEW d \in Doc, Answer(d) PROVE NoLostResult'
  BY <1>2 DEF Answer, Types
<1>3. ASSUME NEW d \in Doc, SignalResult(d) PROVE NoLostResult'
  BY <1>3 DEF SignalResult
<1>4. ASSUME NEW d \in Doc, StartDoc(d) PROVE NoLostResult'
  <2>1. phase[d] # "signal"
    BY <1>4 DEF StartDoc, Pool!Start, PoolInv, OnePlace, DocInv
  <2> QED
    BY <1>4, <2>1 DEF StartDoc, Types
<1>5. ASSUME NEW d \in Doc, RemoveDoc(d) PROVE NoLostResult'
  BY <1>5 DEF RemoveDoc, Types
<1>6. CASE PushDocument
  BY <1>6 DEF PushDocument
<1>7. ASSUME UNCHANGED <<phase, finished_results>>, pc' = "asleep" => pc = "asleep"
      PROVE  NoLostResult'
  BY <1>7
<1>8. ASSUME NEW q \in Query, StartQuery(q) \/ EndQuery(q) PROVE NoLostResult'
  BY <1>8 DEF StartQuery, EndQuery
<1>9. ASSUME NEW w \in Word, SubmitAdd(w) PROVE NoLostResult'
  BY <1>9 DEF SubmitAdd
<1>10. ASSUME NEW d \in Doc, MatchDocument(d) PROVE NoLostResult'
  BY <1>10 DEF MatchDocument
<1>11. CASE StartReturn \/ EndReturn \/ MatchReady \/ GetReturn
  BY <1>11 DEF StartReturn, EndReturn, MatchReady, GetReturn
<1>12. CASE GetNextAvailRes \/ Peek \/ SpuriousWakeup
  BY <1>12 DEF GetNextAvailRes, Peek, SpuriousWakeup
<1>13. CASE Exit \/ DestroyPool \/ PoolDestroyed
  BY <1>13 DEF Exit, DestroyPool, PoolDestroyed
<1>14. ASSUME NEW d \in Doc, NEW k \in Kind, NEW w \in Word, LookUp(d, k, w)
       PROVE  NoLostResult'
  BY <1>7, <1>14 DEF LookUp
<1>15. ASSUME NEW d \in Doc, NEW k \in Kind, NEW e \in hits[d][k], CountHit(d, k, e)
       PROVE  NoLostResult'
  BY <1>7, <1>15 DEF CountHit
<1>16. ASSUME NEW q \in Query, NEW w \in Word, AddStep(q, w) PROVE NoLostResult'
  BY <1>7, <1>16 DEF AddStep, StartAdd, FinishAdd
<1>17. CASE UNCHANGED vars
  BY <1>7, <1>17 DEF vars
<1> QED
  <2> HIDE DEF NoLostResult
  <2> QED
    BY <1>1, <1>2, <1>3, <1>4, <1>5, <1>6, <1>8, <1>9, <1>10, <1>11, <1>12, <1>13,
       <1>14, <1>15, <1>16, <1>17, QueryFields
    DEF Next, ClientStep, DocStep, Terminated

\* While the client sleeps in GetNextAvailRes and an answer is ready, the job that
\* made the queue non-empty has still to signal it: enqueue's test of an empty
\* queue, made under the lock, lets no wake-up get lost.
THEOREM NoLostResultHolds == Spec => []NoLostResult
<1>1. Init => NoLostResult
  BY DEF Init, NoLostResult
<1> QED
  BY <1>1, TypesCorrect, PoolCorrect, ResultSteps, PTL DEF Spec

----------------------------------------------------------------------------
(* Hits after a query has matched.                                         *)

\* A set of words of a query that has as many as the query is all of them.
LEMMA AllWords ==
  ASSUME NEW q \in Query, NEW S \in SUBSET QueryDef[q].words
  PROVE  Cardinality(S) = Cardinality(QueryDef[q].words) <=> S = QueryDef[q].words
  BY QueryFields, FS_Subset

\* What is in an index for a query, and so what a hit finds, is a word of the query.
EntriesOfQueries ==
  \A k \in Kind, v \in Word, q \in Query :
    /\ <<v, q>> \in index[k] => v \in QueryDef[q].words
    /\ \A d \in Doc : <<v, q>> \in hits[d][k] => v \in QueryDef[q].words

LEMMA EntriesSteps ==
  ASSUME Types, EntriesOfQueries, [Next]_vars
  PROVE  EntriesOfQueries'
<1>1. ASSUME UNCHANGED <<index, hits>> PROVE EntriesOfQueries'
  BY <1>1 DEF EntriesOfQueries
<1>2. ASSUME NEW q \in Query, NEW w \in QueryDef[q].words, FinishAdd(q, w)
      PROVE  EntriesOfQueries'
  <2>1. /\ index' = [index EXCEPT ![QueryDef[q].match_type] = @ \cup {<<w, q>>}]
        /\ hits' = hits
    BY <1>2 DEF FinishAdd
  <2>2. \A k \in Kind : index'[k] \subseteq index[k] \cup {<<w, q>>}
    BY <2>1, QueryFields DEF Types
  <2> QED
    BY <2>1, <2>2 DEF EntriesOfQueries
<1>3. ASSUME NEW d \in Doc, NEW k \in Kind, NEW w \in Word, LookUp(d, k, w)
      PROVE  EntriesOfQueries'
  <2>1. /\ hits' = [hits EXCEPT ![d][k] = Found(k, w)]
        /\ index' = index
    BY <1>3 DEF LookUp
  <2>2. Found(k, w) \subseteq index[k]
    BY DEF Found
  <2>3. \A dd \in Doc, kk \in Kind : hits'[dd][kk] \subseteq hits[dd][kk] \cup index[kk]
    <3> HIDE DEF Found
    <3> QED
      BY <2>1, <2>2 DEF Types
  <2> QED
    BY <2>1, <2>3 DEF EntriesOfQueries
<1>4. ASSUME NEW d \in Doc, NEW k \in Kind, NEW e \in hits[d][k], CountHit(d, k, e)
      PROVE  EntriesOfQueries'
  <2>1. /\ hits' = [hits EXCEPT ![d][k] = @ \ {e}]
        /\ index' = index
    BY <1>4 DEF CountHit
  <2>2. \A dd \in Doc, kk \in Kind : hits'[dd][kk] \subseteq hits[dd][kk]
    BY <2>1 DEF Types
  <2> QED
    BY <2>1, <2>2 DEF EntriesOfQueries
<1>5. ASSUME NEW q \in Query, StartQuery(q) \/ EndQuery(q)
      PROVE  UNCHANGED <<index, hits>>
  BY <1>5 DEF StartQuery, EndQuery
<1>6. ASSUME NEW w \in Word, SubmitAdd(w) PROVE UNCHANGED <<index, hits>>
  BY <1>6 DEF SubmitAdd
<1>7. ASSUME NEW d \in Doc, MatchDocument(d) PROVE UNCHANGED <<index, hits>>
  BY <1>7 DEF MatchDocument
<1>8. CASE StartReturn \/ EndReturn \/ MatchReady \/ PushDocument \/ GetReturn
  BY <1>1, <1>8 DEF StartReturn, EndReturn, MatchReady, PushDocument, GetReturn
<1>9. CASE GetNextAvailRes \/ PeekSleep \/ Peek \/ SpuriousWakeup
  BY <1>1, <1>9 DEF GetNextAvailRes, PeekSleep, Peek, SpuriousWakeup
<1>10. CASE Exit \/ DestroyPool \/ PoolDestroyed
  BY <1>1, <1>10 DEF Exit, DestroyPool, PoolDestroyed
<1>11. ASSUME NEW q \in Query, NEW w \in QueryDef[q].words, StartAdd(q, w)
       PROVE  UNCHANGED <<index, hits>>
  BY <1>11 DEF StartAdd
<1>12. ASSUME NEW d \in Doc, StartDoc(d) \/ Answer(d) \/ SignalResult(d) \/ RemoveDoc(d)
       PROVE  UNCHANGED <<index, hits>>
  BY <1>12 DEF StartDoc, Answer, SignalResult, RemoveDoc
<1>13. CASE UNCHANGED vars
  BY <1>1, <1>13 DEF vars
<1> QED
  BY <1>1, <1>2, <1>3, <1>4, <1>5, <1>6, <1>7, <1>8, <1>9, <1>10, <1>11, <1>12, <1>13
  DEF Next, ClientStep, DocStep, AddStep, Terminated

\* The step of a hit: its word is met, and when it is the last one the query matches.
LEMMA CountHitClears ==
  ASSUME Types, EntriesOfQueries, MatchedIsCleared,
         NEW d \in Doc, NEW k \in Kind, NEW v \in Word, NEW q \in Query,
         HitEffect(d, k, v, q)
  PROVE  MatchedIsCleared'
<1>1. /\ matched \in [Doc -> SUBSET Query]
      /\ matched_words \in [Doc -> [Query -> SUBSET Word]]
      /\ met \in [Doc -> [Query -> SUBSET Word]]
  BY DEF Types
<1>2. met' = [met EXCEPT ![d][q] = @ \cup {v}]
  BY DEF HitEffect
<1>3. met'[d][q] = met[d][q] \cup {v}
  BY <1>1, <1>2
<1>4. v \in QueryDef[q].words
  BY DEF HitEffect, EntriesOfQueries
<1>5. /\ met[d][q] \subseteq QueryDef[q].words
      /\ q \in matched[d] <=> met[d][q] = QueryDef[q].words
      /\ matched_words[d][q] = IF q \in matched[d] THEN {} ELSE met[d][q]
  BY DEF MatchedIsCleared
<1>6. met'[d][q] \subseteq QueryDef[q].words
  BY <1>3, <1>4, <1>5
<1>7. /\ q \in matched'[d] <=> met'[d][q] = QueryDef[q].words
      /\ matched_words'[d][q] = IF q \in matched'[d] THEN {} ELSE met'[d][q]
  <2>1. CASE q \in matched[d]
    BY <1>3, <1>4, <1>5, <2>1 DEF HitEffect
  <2>2. CASE q \notin matched[d]
    <3>1. WordsWith(d, v, q) = met'[d][q]
      BY <1>3, <1>5, <2>2 DEF WordsWith
    <3>2. Completes(d, v, q) <=> met'[d][q] = QueryDef[q].words
      BY <1>6, <3>1, AllWords DEF Completes
    <3>3. CASE Completes(d, v, q)
      <4>1. /\ matched' = [matched EXCEPT ![d] = @ \cup {q}]
            /\ matched_words' = [matched_words EXCEPT ![d][q] = {}]
        BY <2>2, <3>3 DEF HitEffect
      <4>2. q \in matched'[d] /\ matched_words'[d][q] = {}
        BY <1>1, <4>1
      <4> QED
        BY <3>2, <3>3, <4>2
    <3>4. CASE ~Completes(d, v, q)
      <4>1. /\ matched' = matched
            /\ matched_words' = [matched_words EXCEPT ![d][q] = WordsWith(d, v, q)]
        BY <2>2, <3>4 DEF HitEffect
      <4>2. q \notin matched'[d] /\ matched_words'[d][q] = WordsWith(d, v, q)
        BY <1>1, <2>2, <4>1
      <4> QED
        BY <3>1, <3>2, <3>4, <4>2
    <3> QED
      BY <3>3, <3>4
  <2> QED
    BY <2>1, <2>2
<1>8. ASSUME NEW dd \in Doc, NEW qq \in Query, <<dd, qq>> # <<d, q>>
      PROVE  /\ met'[dd][qq] = met[dd][qq]
             /\ qq \in matched'[dd] <=> qq \in matched[dd]
             /\ matched_words'[dd][qq] = matched_words[dd][qq]
  <2>1. met'[dd][qq] = met[dd][qq]
    BY <1>1, <1>2, <1>8
  <2>2. PICK S : \/ matched_words' = matched_words
                 \/ matched_words' = [matched_words EXCEPT ![d][q] = S]
    BY DEF HitEffect
  <2>3. matched_words'[dd][qq] = matched_words[dd][qq]
    BY <1>1, <1>8, <2>2
  <2>4. matched' = matched \/ matched' = [matched EXCEPT ![d] = @ \cup {q}]
    BY DEF HitEffect
  <2>5. qq \in matched'[dd] <=> qq \in matched[dd]
    BY <1>1, <1>8, <2>4
  <2> QED
    BY <2>1, <2>3, <2>5
<1> QED
  BY <1>6, <1>7, <1>8 DEF MatchedIsCleared

LEMMA ClearedSteps ==
  ASSUME Types, EntriesOfQueries, MatchedIsCleared, [Next]_vars
  PROVE  MatchedIsCleared'
<1> DEFINE tallies == <<matched, matched_words, met>>
<1>1. ASSUME UNCHANGED tallies PROVE MatchedIsCleared'
  BY <1>1 DEF MatchedIsCleared
<1>2. ASSUME NEW d \in Doc, NEW k \in Kind, NEW e \in hits[d][k], CountHit(d, k, e)
      PROVE  MatchedIsCleared'
  <2>1. PICK v \in Word, q \in Query : e = <<v, q>>
    BY HitIsEntry
  <2>2. HitEffect(d, k, v, q)
    BY <1>2, <2>1, CountHitCases
  <2> QED
    BY <2>2, CountHitClears
<1>3. ASSUME NEW q \in Query, StartQuery(q) \/ EndQuery(q) PROVE UNCHANGED tallies
  BY <1>3 DEF StartQuery, EndQuery
<1>4. ASSUME NEW w \in Word, SubmitAdd(w) PROVE UNCHANGED tallies
  BY <1>4 DEF SubmitAdd
<1>5. ASSUME NEW d \in Doc, MatchDocument(d) PROVE UNCHANGED tallies
  BY <1>5 DEF MatchDocument
<1>6. CASE StartReturn \/ EndReturn \/ MatchReady \/ PushDocument \/ GetReturn
  BY <1>1, <1>6 DEF StartReturn, EndReturn, MatchReady, PushDocument, GetReturn
<1>7. CASE GetNextAvailRes \/ PeekSleep \/ Peek \/ SpuriousWakeup
  BY <1>1, <1>7 DEF GetNextAvailRes, PeekSleep, Peek, SpuriousWakeup
<1>8. CASE Exit \/ DestroyPool \/ PoolDestroyed
  BY <1>1, <1>8 DEF Exit, DestroyPool, PoolDestroyed
<1>9. ASSUME NEW q \in Query, NEW w \in Word, AddStep(q, w) PROVE UNCHANGED tallies
  BY <1>9 DEF AddStep, StartAdd, FinishAdd
<1>10. ASSUME NEW d \in Doc,
              \/ StartDoc(d)
              \/ \E k \in Kind, w \in Word : LookUp(d, k, w)
              \/ Answer(d) \/ SignalResult(d) \/ RemoveDoc(d)
       PROVE  UNCHANGED tallies
  BY <1>10 DEF StartDoc, LookUp, Answer, SignalResult, RemoveDoc
<1>11. CASE UNCHANGED vars
  BY <1>1, <1>11 DEF vars
<1> HIDE DEF tallies
<1> QED
  BY <1>1, <1>2, <1>3, <1>4, <1>5, <1>6, <1>7, <1>8, <1>9, <1>10, <1>11, QueryFields
  DEF Next, ClientStep, DocStep, Terminated

\* A query has matched a document exactly when the hits counted were of all its
\* words: in whatever order the threads of a document count, however often a word is
\* hit. Until then matched_words holds the words met, from then on nothing.
THEOREM MatchedIsClearedHolds == Spec => []MatchedIsCleared
<1>1. Init => EntriesOfQueries /\ MatchedIsCleared
  <2> SUFFICES ASSUME Init PROVE EntriesOfQueries /\ MatchedIsCleared
    OBVIOUS
  <2>1. EntriesOfQueries
    BY DEF Init, EntriesOfQueries
  <2>2. MatchedIsCleared
    BY QueryFields DEF Init, MatchedIsCleared
  <2> QED
    BY <2>1, <2>2
<1> QED
  BY <1>1, TypesCorrect, EntriesSteps, ClearedSteps, PTL DEF Spec

----------------------------------------------------------------------------
(* Answers that are ready.                                                 *)

\* A document is due an answer from when it is pushed, has one from when match_doc
\* is done with it, and is handed that one.
AnswerInv ==
  \A d \in Doc :
    /\ phase[d] = "new" <=> due[d] = Pending
    /\ phase[d] \in {"signal", "remove", "gone"} <=> answer[d] # Pending
    /\ delivered[d] # Pending => delivered[d] = answer[d]

\* finished_results holds documents with an answer, none of them twice and none
\* that was handed out; between peek and dequeue its head stays where it is.
ReadyInv ==
  /\ \A i \in 1 .. Len(finished_results) :
       /\ answer[finished_results[i]] # Pending
       /\ delivered[finished_results[i]] = Pending
  /\ \A i, j \in 1 .. Len(finished_results) :
       finished_results[i] = finished_results[j] => i = j
  /\ pc = "dequeue" => finished_results # <<>> /\ arg = Head(finished_results)

LEMMA SetsAreAnswers == \A S \in SUBSET Query : S # Pending
  BY EngineAssumption

LEMMA ReadySteps ==
  ASSUME Types, PoolInv, AnswerInv, ReadyInv, [Next]_vars
  PROVE  AnswerInv' /\ ReadyInv'
<1>1. ASSUME UNCHANGED <<phase, answer, finished_results, due, delivered>>,
             pc' = "dequeue" => pc = "dequeue" /\ arg' = arg
      PROVE  AnswerInv' /\ ReadyInv'
  BY <1>1 DEF AnswerInv, ReadyInv
<1>2. CASE PushDocument
  <2>1. arg \in Doc /\ phase[arg] = "new" /\ pc' = "idle"
    BY <1>2 DEF PushDocument, Types, PoolInv, DocInv
  <2>2. PICK S \in SUBSET Query : due' = [due EXCEPT ![arg] = S]
    BY <1>2 DEF PushDocument, Types
  <2>3. /\ phase' = [phase EXCEPT ![arg] = "submitted"]
        /\ UNCHANGED <<answer, finished_results, delivered>>
    BY <1>2 DEF PushDocument
  <2> QED
    BY <2>1, <2>2, <2>3, SetsAreAnswers DEF AnswerInv, ReadyInv, Types
<1>3. CASE Peek
  BY <1>3 DEF Peek, AnswerInv, ReadyInv
<1>4. CASE GetReturn
  <2>1. /\ finished_results # <<>>
        /\ finished_results' = Tail(finished_results)
        /\ delivered' = [delivered EXCEPT ![arg] = answer[arg]]
        /\ pc' = "idle" /\ UNCHANGED <<phase, answer, due>>
        /\ arg \in Doc /\ arg = finished_results[1]
    BY <1>4 DEF GetReturn, ReadyInv, Types
  <2>2. \A i \in 1 .. Len(finished_results') :
          /\ i + 1 \in 1 .. Len(finished_results)
          /\ finished_results'[i] = finished_results[i + 1]
          /\ finished_results[i + 1] \in Doc
    BY <2>1 DEF Types
  <2>3. \A i \in 1 .. Len(finished_results') : finished_results'[i] # arg
    BY <2>1, <2>2 DEF ReadyInv, Types
  <2>4. AnswerInv'
    BY <2>1 DEF AnswerInv, Types
  <2>5. ReadyInv'
    BY <2>1, <2>2, <2>3 DEF ReadyInv, Types
  <2> QED
    BY <2>4, <2>5
<1>5. ASSUME NEW d \in Doc, StartDoc(d) PROVE AnswerInv' /\ ReadyInv'
  <2>1. phase[d] = "submitted"
    BY <1>5 DEF StartDoc, Pool!Start, PoolInv, DocInv
  <2> QED
    BY <1>5, <2>1 DEF StartDoc, AnswerInv, ReadyInv, Types
<1>6. ASSUME NEW d \in Doc, Answer(d) PROVE AnswerInv' /\ ReadyInv'
  <2>1. /\ phase[d] = "matching" /\ answer[d] = Pending /\ delivered[d] = Pending
        /\ answer' = [answer EXCEPT ![d] = matched[d]]
        /\ finished_results' = Append(finished_results, d)
        /\ UNCHANGED <<pc, arg, due, delivered>>
    BY <1>6 DEF Answer, AnswerInv
  <2>2. PICK p \in {"signal", "remove"} : phase' = [phase EXCEPT ![d] = p]
    BY <1>6 DEF Answer
  <2>3. matched[d] # Pending
    BY SetsAreAnswers DEF Types
  <2>4. AnswerInv'
    BY <2>1, <2>2, <2>3 DEF AnswerInv, Types
  <2>5. /\ Len(finished_results') = Len(finished_results) + 1
        /\ finished_results'[Len(finished_results) + 1] = d
        /\ \A i \in 1 .. Len(finished_results) :
             /\ finished_results'[i] = finished_results[i]
             /\ finished_results[i] \in Doc
             /\ finished_results[i] # d
        /\ finished_results # <<>> =>
             Head(finished_results') = Head(finished_results)
        /\ finished_results' # <<>>
    <3>1. finished_results \in Seq(Doc)
      BY DEF Types
    <3>2. \A i \in 1 .. Len(finished_results) : finished_results[i] # d
      BY <2>1 DEF ReadyInv
    <3> QED
      BY <2>1, <3>1, <3>2
  <2>6. ReadyInv'
    BY <2>1, <2>3, <2>5 DEF ReadyInv, Types
  <2> QED
    BY <2>4, <2>6
<1>7. ASSUME NEW d \in Doc, SignalResult(d) PROVE AnswerInv' /\ ReadyInv'
  BY <1>7 DEF SignalResult, AnswerInv, ReadyInv, Types
<1>8. ASSUME NEW d \in Doc, RemoveDoc(d) PROVE AnswerInv' /\ ReadyInv'
  BY <1>8 DEF RemoveDoc, AnswerInv, ReadyInv, Types
<1>9. ASSUME NEW q \in Query, StartQuery(q) \/ EndQuery(q)
      PROVE  AnswerInv' /\ ReadyInv'
  BY <1>1, <1>9 DEF StartQuery, EndQuery
<1>10. ASSUME NEW w \in Word, SubmitAdd(w) PROVE AnswerInv' /\ ReadyInv'
  BY <1>1, <1>10 DEF SubmitAdd
<1>11. ASSUME NEW d \in Doc, MatchDocument(d) PROVE AnswerInv' /\ ReadyInv'
  BY <1>1, <1>11 DEF MatchDocument
<1>12. CASE StartReturn \/ EndReturn \/ MatchReady
  BY <1>1, <1>12 DEF StartReturn, EndReturn, MatchReady
<1>13. CASE GetNextAvailRes \/ PeekSleep \/ SpuriousWakeup
  BY <1>1, <1>13 DEF GetNextAvailRes, PeekSleep, SpuriousWakeup
<1>14. CASE Exit \/ DestroyPool \/ PoolDestroyed
  BY <1>1, <1>14 DEF Exit, DestroyPool, PoolDestroyed
<1>15. ASSUME NEW q \in Query, NEW w \in Word, AddStep(q, w)
       PROVE  AnswerInv' /\ ReadyInv'
  BY <1>1, <1>15 DEF AddStep, StartAdd, FinishAdd
<1>16. ASSUME NEW d \in Doc, NEW k \in Kind, NEW w \in Word, LookUp(d, k, w)
       PROVE  AnswerInv' /\ ReadyInv'
  BY <1>1, <1>16 DEF LookUp
<1>17. ASSUME NEW d \in Doc, NEW k \in Kind, NEW e \in hits[d][k], CountHit(d, k, e)
       PROVE  AnswerInv' /\ ReadyInv'
  BY <1>1, <1>17 DEF CountHit
<1>18. CASE UNCHANGED vars
  BY <1>1, <1>18 DEF vars
<1> QED
  BY <1>2, <1>3, <1>4, <1>5, <1>6, <1>7, <1>8, <1>9, <1>10, <1>11, <1>12, <1>13,
     <1>14, <1>15, <1>16, <1>17, <1>18, QueryFields
  DEF Next, ClientStep, DocStep, Terminated

LEMMA ReadyCorrect == Spec => [](AnswerInv /\ ReadyInv)
<1>1. Init => AnswerInv /\ ReadyInv
  BY DEF Init, AnswerInv, ReadyInv
<1> QED
  BY <1>1, TypesCorrect, PoolCorrect, ReadySteps, PTL DEF Spec

----------------------------------------------------------------------------
(* The indexes are quiet while documents are matched.                      *)

\* Some word is on its way to an index; some document is to be matched.
Adding == \E q \in Query, w \in Word : AddJob(q, w) \in queued \cup running
Matching == \E d \in Doc : phase[d] \in {"submitted", "matching"}

\* query_has_started tells MatchDocument when a word may be on its way, and no
\* document is pushed before it has waited. That no query is started while a
\* document is matched is the client's doing.
QuietInv ==
  /\ Adding => query_has_started
  /\ pc = "push" => ~query_has_started
  /\ CollectsFirst /\ Matching => ~query_has_started
  /\ CollectsFirst /\ pc \in {"exited", "closing", "ended"} => Undelivered = {}

\* A document that is matched has not been answered.
LEMMA MatchingIsUndelivered ==
  ASSUME Types, AnswerInv, Matching
  PROVE  Undelivered # {}
<1>1. PICK d \in Doc : phase[d] \in {"submitted", "matching"}
  BY DEF Matching
<1>2. due[d] # Pending /\ delivered[d] = Pending
  BY <1>1 DEF AnswerInv
<1> QED
  BY <1>2 DEF Undelivered

LEMMA QuietSteps ==
  ASSUME Types, CallInv, PoolInv, AnswerInv, QuietInv, [Next]_vars
  PROVE  QuietInv'
<1>1. ASSUME UNCHANGED <<queued, running, query_has_started, phase, due, delivered>>,
             pc' \in {"push", "exited", "closing", "ended"} => pc' = pc
      PROVE  QuietInv'
  <2>1. (Adding' <=> Adding) /\ (Matching' <=> Matching) /\ Undelivered' = Undelivered
    BY <1>1 DEF Adding, Matching, Undelivered
  <2> QED
    BY <1>1, <2>1 DEF QuietInv
<1>2. ASSUME NEW q \in Query, StartQuery(q) PROVE QuietInv'
  <2>1. pc' = "start" /\ query_has_started' = TRUE
    BY <1>2 DEF StartQuery
  <2>2. CollectsFirst => ~Matching'
    BY <1>2, MatchingIsUndelivered DEF StartQuery, Matching
  <2> QED
    BY <2>1, <2>2 DEF QuietInv
<1>3. ASSUME NEW w \in Word, SubmitAdd(w) PROVE QuietInv'
  <2>1. pc' = "start" /\ query_has_started' /\ UNCHANGED query_has_started
    BY <1>3 DEF SubmitAdd, CallInv
  <2>2. Matching' <=> Matching
    BY <1>3 DEF SubmitAdd, Matching
  <2> QED
    BY <2>1, <2>2 DEF QuietInv
<1>4. ASSUME NEW d \in Doc, MatchDocument(d) PROVE QuietInv'
  <2>1. (Adding' <=> Adding) /\ (Matching' <=> Matching)
    BY <1>4 DEF MatchDocument, Pool!Wait, Adding, Matching
  <2> QED
    BY <1>4, <2>1 DEF MatchDocument, QuietInv
<1>5. CASE MatchReady
  <2>1. ~Adding' /\ query_has_started' = FALSE /\ pc' = "push"
    BY <1>5 DEF MatchReady, Pool!Return, Adding
  <2> QED
    BY <2>1 DEF QuietInv
<1>6. CASE PushDocument
  <2>1. (Adding' <=> Adding) /\ ~query_has_started' /\ pc' = "idle"
    BY <1>6, JobsDiffer DEF PushDocument, Pool!Submit, Adding, QuietInv
  <2> QED
    BY <1>6, <2>1 DEF QuietInv, PushDocument
<1>7. CASE Exit
  <2>1. (Adding' <=> Adding) /\ (Matching' <=> Matching) /\ Undelivered' = Undelivered
    BY <1>7 DEF Exit, Adding, Matching, Undelivered
  <2> QED
    BY <1>7, <2>1 DEF Exit, QuietInv
<1>8. CASE DestroyPool \/ PoolDestroyed
  <2>1. (Adding' <=> Adding) /\ (Matching' <=> Matching) /\ Undelivered' = Undelivered
    BY <1>8
    DEF DestroyPool, PoolDestroyed, Pool!Close, Pool!Closed, Adding, Matching, Undelivered
  <2> QED
    BY <1>8, <2>1 DEF DestroyPool, PoolDestroyed, QuietInv
<1>9. CASE GetReturn
  <2>1. (Adding' <=> Adding) /\ (Matching' <=> Matching)
    BY <1>9 DEF GetReturn, Adding, Matching
  <2> QED
    BY <1>9, <2>1 DEF GetReturn, QuietInv
<1>10. ASSUME NEW q \in Query, NEW w \in Word, AddStep(q, w) PROVE QuietInv'
  <2>1. Adding' => Adding
    BY <1>10 DEF AddStep, StartAdd, FinishAdd, Pool!Start, Pool!Finish, Adding
  <2>2. (Matching' <=> Matching) /\ Undelivered' = Undelivered
    BY <1>10 DEF AddStep, StartAdd, FinishAdd, Matching, Undelivered
  <2> QED
    BY <1>10, <2>1, <2>2 DEF AddStep, StartAdd, FinishAdd, QuietInv
<1>11. ASSUME NEW d \in Doc, StartDoc(d) PROVE QuietInv'
  <2>1. Adding' => Adding
    BY <1>11, JobsDiffer DEF StartDoc, Pool!Start, Adding
  <2>2. Matching
    BY <1>11 DEF StartDoc, Pool!Start, PoolInv, DocInv, Matching
  <2> QED
    BY <1>11, <2>1, <2>2 DEF StartDoc, QuietInv, Undelivered
<1>12. ASSUME NEW d \in Doc, Answer(d) PROVE QuietInv'
  <2>1. (Adding' <=> Adding) /\ Undelivered' = Undelivered
    BY <1>12 DEF Answer, Adding, Undelivered
  <2>2. Matching
    BY <1>12 DEF Answer, Matching
  <2> QED
    BY <1>12, <2>1, <2>2 DEF Answer, QuietInv
<1>13. ASSUME NEW d \in Doc, SignalResult(d) PROVE QuietInv'
  <2>1. (Adding' <=> Adding) /\ Undelivered' = Undelivered
    BY <1>13 DEF SignalResult, Adding, Undelivered
  <2>2. Matching' => Matching
    BY <1>13 DEF SignalResult, Matching, Types
  <2> QED
    BY <1>13, <2>1, <2>2 DEF SignalResult, QuietInv
<1>14. ASSUME NEW d \in Doc, RemoveDoc(d) PROVE QuietInv'
  <2>1. (Adding' => Adding) /\ Undelivered' = Undelivered
    BY <1>14 DEF RemoveDoc, Pool!Finish, Adding, Undelivered
  <2>2. Matching' => Matching
    BY <1>14 DEF RemoveDoc, Matching, Types
  <2> QED
    BY <1>14, <2>1, <2>2 DEF RemoveDoc, QuietInv
<1>15. ASSUME NEW q \in Query, EndQuery(q) PROVE QuietInv'
  BY <1>1, <1>15 DEF EndQuery, Pool!Wait
<1>16. CASE StartReturn
  BY <1>1, <1>16 DEF StartReturn
<1>17. CASE EndReturn
  BY <1>1, <1>17 DEF EndReturn, Pool!Return
<1>18. CASE GetNextAvailRes \/ PeekSleep \/ Peek \/ SpuriousWakeup
  BY <1>1, <1>18 DEF GetNextAvailRes, PeekSleep, Peek, SpuriousWakeup
<1>19. ASSUME NEW d \in Doc, NEW k \in Kind, NEW w \in Word, LookUp(d, k, w)
       PROVE  QuietInv'
  BY <1>1, <1>19 DEF LookUp
<1>20. ASSUME NEW d \in Doc, NEW k \in Kind, NEW e \in hits[d][k], CountHit(d, k, e)
       PROVE  QuietInv'
  BY <1>1, <1>20 DEF CountHit
<1>21. CASE UNCHANGED vars
  BY <1>1, <1>21 DEF vars
<1> QED
  BY <1>2, <1>3, <1>4, <1>5, <1>6, <1>7, <1>8, <1>9, <1>10, <1>11, <1>12, <1>13,
     <1>14, <1>15, <1>16, <1>17, <1>18, <1>19, <1>20, <1>21, QueryFields
  DEF Next, ClientStep, DocStep, Terminated

LEMMA QuietCorrect == Spec => []QuietInv
<1>1. Init => QuietInv
  BY DEF Init, Pool!Init, QuietInv, Adding, Matching, Undelivered
<1> QED
  BY <1>1, TypesCorrect, CallCorrect, PoolCorrect, ReadyCorrect, QuietSteps, PTL
  DEF Spec

\* With a client that collects its answers before it starts a query, no word enters
\* an index and no counter changes while a document is matched: query_has_started,
\* set by StartQuery and cleared by the wait of MatchDocument, is all it takes.
THEOREM NoIndexRaceHolds ==
  ASSUME CollectsFirst
  PROVE  Spec => []NoIndexRace
<1>1. CallInv /\ QuietInv => NoIndexRace
  BY DEF CallInv, QuietInv, NoIndexRace, Adding, Matching
<1> QED
  BY <1>1, CallCorrect, QuietCorrect, PTL

\* When main returns, the indexes may go before the pool: no document would still
\* be matched against them, and words are on their way only of queries started
\* after the last document.
THEOREM IndexOutlivesUseHolds ==
  ASSUME CollectsFirst
  PROVE  Spec => []IndexOutlivesUse
<1>1. Types /\ AnswerInv /\ QuietInv => IndexOutlivesUse
  BY MatchingIsUndelivered DEF QuietInv, IndexOutlivesUse, Adding, Matching
<1> QED
  BY <1>1, TypesCorrect, ReadyCorrect, QuietCorrect, PTL

----------------------------------------------------------------------------
(* What the indexes hold.                                                  *)

\* Words of queries only; and of an active query all of them, but for those that
\* are still on their way.
IndexInv ==
  /\ \A k \in Kind : \A e \in index[k] : /\ QueryDef[e[2]].match_type = k
                                         /\ e[1] \in QueryDef[e[2]].words
  /\ \A q \in active : \A v \in QueryDef[q].words :
       \/ <<v, q>> \in index[QueryDef[q].match_type]
       \/ AddJob(q, v) \in queued \cup running
       \/ pc = "start" /\ arg = q /\ v \in toSubmit

LEMMA IndexSteps ==
  ASSUME Types, CallInv, PoolInv, IndexInv, [Next]_vars
  PROVE  IndexInv'
<1>1. ASSUME active' \subseteq active, index' = index,
             queued \cup running \subseteq queued' \cup running',
             \/ UNCHANGED <<arg, toSubmit>> /\ (pc = "start" => pc' = "start")
             \/ pc # "start" \/ toSubmit = {}
      PROVE  IndexInv'
  BY <1>1 DEF IndexInv
<1>2. ASSUME NEW q \in Query, StartQuery(q) PROVE IndexInv'
  <2>1. pc' = "start" /\ arg' = q /\ toSubmit' = QueryDef[q].words
        /\ active' = active \cup {q} /\ UNCHANGED <<index, queued, running>>
        /\ pc = "idle"
    BY <1>2 DEF StartQuery
  <2> QED
    BY <2>1 DEF IndexInv
<1>3. ASSUME NEW w \in Word, SubmitAdd(w) PROVE IndexInv'
  <2>1. /\ pc = "start" /\ queued' = queued \cup {AddJob(arg, w)}
        /\ toSubmit' = toSubmit \ {w}
        /\ UNCHANGED <<pc, arg, running, index, active>>
    BY <1>3 DEF SubmitAdd, Pool!Submit
  <2> QED
    BY <2>1 DEF IndexInv
<1>4. CASE StartReturn
  BY <1>1, <1>4 DEF StartReturn
<1>5. ASSUME NEW q \in Query, EndQuery(q) PROVE IndexInv'
  BY <1>1, <1>5 DEF EndQuery, Pool!Wait
<1>6. CASE EndReturn
  BY <1>1, <1>6 DEF EndReturn, Pool!Return
<1>7. ASSUME NEW d \in Doc, MatchDocument(d) PROVE IndexInv'
  BY <1>1, <1>7 DEF MatchDocument, Pool!Wait
<1>8. CASE MatchReady \/ GetReturn
  BY <1>1, <1>8 DEF MatchReady, Pool!Return, GetReturn
<1>9. CASE PushDocument
  BY <1>1, <1>9 DEF PushDocument, Pool!Submit
<1>10. CASE GetNextAvailRes \/ PeekSleep \/ Peek \/ SpuriousWakeup \/ Exit
  BY <1>1, <1>10 DEF GetNextAvailRes, PeekSleep, Peek, SpuriousWakeup, Exit
<1>11. CASE DestroyPool \/ PoolDestroyed
  BY <1>1, <1>11 DEF DestroyPool, PoolDestroyed, Pool!Close, Pool!Closed
<1>12. ASSUME NEW q \in Query, NEW w \in QueryDef[q].words, StartAdd(q, w)
       PROVE  IndexInv'
  BY <1>1, <1>12 DEF StartAdd, Pool!Start
<1>13. ASSUME NEW q \in Query, NEW w \in QueryDef[q].words, FinishAdd(q, w)
       PROVE  IndexInv'
  <2> DEFINE k == QueryDef[q].match_type
  <2>1. /\ running' = running \ {AddJob(q, w)}
        /\ index' = [index EXCEPT ![k] = @ \cup {<<w, q>>}]
        /\ UNCHANGED <<pc, arg, toSubmit, active, queued>>
    BY <1>13 DEF FinishAdd, Pool!Finish
  <2>2. index \in [Kind -> SUBSET Entry] /\ k \in Kind
    BY QueryFields DEF Types
  <2>3. \A kk \in Kind : index'[kk] = IF kk = k THEN index[k] \cup {<<w, q>>}
                                      ELSE index[kk]
    BY <2>1, <2>2
  <2>4. \A kk \in Kind : \A e \in index'[kk] : /\ QueryDef[e[2]].match_type = kk
                                               /\ e[1] \in QueryDef[e[2]].words
    BY <2>3 DEF IndexInv
  <2>5. ASSUME NEW qq \in active, NEW v \in QueryDef[qq].words
        PROVE  \/ <<v, qq>> \in index'[QueryDef[qq].match_type]
               \/ AddJob(qq, v) \in queued' \cup running'
               \/ pc' = "start" /\ arg' = qq /\ v \in toSubmit'
    <3>1. QueryDef[qq].match_type \in Kind
      BY QueryFields DEF Types
    <3>2. CASE AddJob(qq, v) = AddJob(q, w)
      BY <2>2, <2>3, <3>2, JobsDiffer
    <3>3. CASE AddJob(qq, v) # AddJob(q, w)
      BY <2>1, <2>3, <3>1, <3>3 DEF IndexInv
    <3> QED
      BY <3>2, <3>3
  <2> QED
    BY <2>1, <2>4, <2>5 DEF IndexInv
<1>14. ASSUME NEW d \in Doc, DocStep(d) PROVE IndexInv'
  <2>1. ASSUME RemoveDoc(d) PROVE IndexInv'
    BY <2>1, JobsDiffer DEF RemoveDoc, Pool!Finish, IndexInv
  <2>2. ASSUME StartDoc(d) PROVE IndexInv'
    BY <1>1, <2>2 DEF StartDoc, Pool!Start
  <2>3. ASSUME SignalResult(d) PROVE IndexInv'
    BY <1>1, <2>3 DEF SignalResult
  <2>4. ASSUME \/ \E k \in Kind, w \in Word : LookUp(d, k, w)
               \/ \E k \in Kind : \E e \in hits[d][k] : CountHit(d, k, e)
               \/ Answer(d)
        PROVE  IndexInv'
    BY <1>1, <2>4 DEF LookUp, CountHit, Answer
  <2> QED
    BY <1>14, <2>1, <2>2, <2>3, <2>4 DEF DocStep
<1>15. CASE UNCHANGED vars
  BY <1>1, <1>15 DEF vars
<1> QED
  BY <1>2, <1>3, <1>4, <1>5, <1>6, <1>7, <1>8, <1>9, <1>10, <1>11, <1>12, <1>13,
     <1>14, <1>15, QueryFields
  DEF Next, ClientStep, AddStep, Terminated

LEMMA IndexCorrect == Spec => []IndexInv
<1>1. Init => IndexInv
  BY DEF Init, IndexInv
<1> QED
  BY <1>1, TypesCorrect, CallCorrect, PoolCorrect, IndexSteps, PTL DEF Spec

----------------------------------------------------------------------------
(* A document finds the queries it matches.                                *)

\* No word is on its way and none is being submitted.
LEMMA IndexComplete ==
  ASSUME Types, CallInv, IndexInv, ~Adding, pc # "start",
         NEW k \in Kind, NEW q \in active, NEW v
  PROVE  <<v, q>> \in index[k] <=> /\ QueryDef[q].match_type = k
                                   /\ v \in QueryDef[q].words
<1>1. q \in Query /\ QueryDef[q].words \subseteq Word
  BY QueryFields DEF Types
<1>2. <<v, q>> \in index[k] => QueryDef[q].match_type = k /\ v \in QueryDef[q].words
  BY DEF IndexInv
<1>3. v \in QueryDef[q].words => AddJob(q, v) \notin queued \cup running
  BY <1>1 DEF Adding
<1> QED
  BY <1>2, <1>3 DEF IndexInv

\* match_queries does not pass over the distance of an active query.
LEMMA CountedIsNotZero ==
  ASSUME Types, CallInv, CountInv, pc # "start", NEW q \in active,
         NEW k \in {"edit", "hamming"}, QueryDef[q].match_type = k
  PROVE  thresholdCounters[QueryDef[q].match_dist][k] # 0
<1> DEFINE t == QueryDef[q].match_dist
<1>1. q \in Counted(t, k) /\ Counted(t, k) \in SUBSET Query /\ t \in Dist
  BY QueryFields DEF Counted, Types, CallInv
<1>2. Cardinality(Counted(t, k)) >= 1 /\ Cardinality(Counted(t, k)) \in Nat
  BY <1>1, QueriesFinite
<1>3. thresholdCounters[t][k] = Cardinality(Counted(t, k))
  BY <1>1 DEF CountInv
<1> QED
  BY <1>2, <1>3

LEMMA SlotIsLength ==
  ASSUME NEW v \in Word, NEW w \in Word
  PROVE  HammingSlot(v) = HammingSlot(w) <=> WordLen[v] = WordLen[w]
<1>1. WordLen[v] \in Nat /\ WordLen[w] \in Nat /\ MIN_WORD_LENGTH \in Nat
  BY EngineAssumption
<1> QED
  BY <1>1 DEF HammingSlot

\* A lookup finds the words of active queries that match by the query's match type,
\* and nothing else.
LEMMA FoundExact ==
  ASSUME Types, CallInv, CountInv, IndexInv, ~Adding, pc # "start",
         NEW k \in Kind, NEW w \in Word, NEW v, NEW q
  PROVE  <<v, q>> \in Found(k, w) <=> /\ q \in active
                                      /\ QueryDef[q].match_type = k
                                      /\ v \in QueryDef[q].words
                                      /\ Service!WordMatches(q, v, w)
<1>1. CASE q \notin active
  BY <1>1 DEF Found
<1>2. CASE q \in active /\ ~(QueryDef[q].match_type = k /\ v \in QueryDef[q].words)
  BY <1>2, IndexComplete DEF Found
<1>3. CASE q \in active /\ QueryDef[q].match_type = k /\ v \in QueryDef[q].words
  <2>1. <<v, q>> \in index[k] /\ v \in Word
    BY <1>3, IndexComplete, QueryFields DEF Types
  <2>2. CASE k = "exact"
    BY <1>3, <2>1, <2>2 DEF Found, Service!WordMatches
  <2>3. CASE k = "edit"
    <3>1. thresholdCounters[QueryDef[q].match_dist].edit # 0
      BY <1>3, <2>3, CountedIsNotZero
    <3> QED
      BY <1>3, <2>1, <2>3, <3>1 DEF Found, Service!WordMatches
  <2>4. CASE k = "hamming"
    <3>1. thresholdCounters[QueryDef[q].match_dist].hamming # 0
      BY <1>3, <2>4, CountedIsNotZero
    <3>2. HammingSlot(v) = HammingSlot(w) <=> WordLen[v] = WordLen[w]
      BY <2>1, SlotIsLength
    <3> QED
      BY <1>3, <2>1, <2>4, <3>1, <3>2 DEF Found, Service!WordMatches
  <2> QED
    BY <2>2, <2>3, <2>4 DEF Kind
<1> QED
  BY <1>1, <1>2, <1>3

\* The words of q that the words of d looked up so far match; those that were
\* counted, or are about to be.
Covered(d, q) ==
  {v \in QueryDef[q].words :
     \E w \in DocWords[d] \ left[d][QueryDef[q].match_type] :
       Service!WordMatches(q, v, w)}

Noted(d, q) ==
  matched_words[d][q] \cup {v \in Word : <<v, q>> \in hits[d][QueryDef[q].match_type]}

Untouched(d) ==
  /\ hits[d] = [k \in Kind |-> {}]
  /\ matched[d] = {}
  /\ matched_words[d] = [q \in Query |-> {}]

\* Every lookup is accounted for, query by query: either all of q's words are
\* covered and q has matched, or the words noted are those covered.
Accounted(d) ==
  /\ \A k \in Kind : left[d][k] \subseteq DocWords[d]
  /\ \A k \in Kind, v \in Word, q \in Query :
       <<v, q>> \in hits[d][k] => /\ q \in active
                                  /\ QueryDef[q].match_type = k
                                  /\ v \in QueryDef[q].words
  /\ matched[d] \subseteq active
  /\ \A q \in active : IF q \in matched[d] THEN Covered(d, q) = QueryDef[q].words
                       ELSE Noted(d, q) = Covered(d, q)

MatchInv ==
  \A d \in Doc :
    /\ phase[d] \in {"new", "submitted"} => Untouched(d)
    /\ phase[d] = "matching" => Accounted(d)
    /\ phase[d] \in {"submitted", "matching"} =>
         due[d] = {q \in active : Service!Matches(q, d)}
    /\ answer[d] # Pending => answer[d] = due[d]

\* The step of a lookup: what w covers is what it hits.
LEMMA LookUpAccounted ==
  ASSUME Types, CallInv, CountInv, IndexInv, ~Adding, pc # "start",
         NEW d \in Doc, NEW k \in Kind, NEW w \in Word, Accounted(d), LookUp(d, k, w)
  PROVE  Accounted(d)'
<1>1. /\ w \in left[d][k] /\ hits[d][k] = {}
      /\ left' = [left EXCEPT ![d][k] = @ \ {w}]
      /\ hits' = [hits EXCEPT ![d][k] = Found(k, w)]
      /\ UNCHANGED <<active, matched, matched_words>>
  BY DEF LookUp
<1>2. /\ left \in [Doc -> [Kind -> SUBSET Word]]
      /\ hits \in [Doc -> [Kind -> SUBSET Entry]]
      /\ active \subseteq Query
  BY DEF Types
<1>3. \A kk \in Kind : /\ left'[d][kk] = IF kk = k THEN left[d][k] \ {w} ELSE left[d][kk]
                       /\ hits'[d][kk] = IF kk = k THEN Found(k, w) ELSE hits[d][kk]
  BY <1>1, <1>2
<1>4. ASSUME NEW q \in active
      PROVE  IF q \in matched'[d] THEN Covered(d, q)' = QueryDef[q].words
             ELSE Noted(d, q)' = Covered(d, q)'
  <2> DEFINE kq == QueryDef[q].match_type
  <2>1. kq \in Kind /\ QueryDef[q].words \subseteq Word
    BY <1>2, QueryFields
  <2>2. CASE kq # k
    <3>1. Covered(d, q)' = Covered(d, q)
      BY <1>3, <2>1, <2>2 DEF Covered
    <3>2. Noted(d, q)' = Noted(d, q)
      BY <1>1, <1>3, <2>1, <2>2 DEF Noted
    <3> QED
      BY <1>1, <3>1, <3>2 DEF Accounted
  <2>3. CASE kq = k
    <3> DEFINE New == {v \in QueryDef[q].words : Service!WordMatches(q, v, w)}
    <3>1. DocWords[d] \ left'[d][k] = (DocWords[d] \ left[d][k]) \cup {w}
      BY <1>1, <1>3 DEF Accounted
    <3>2. Covered(d, q)' = Covered(d, q) \cup New
      BY <2>3, <3>1 DEF Covered
    <3>3. {v \in Word : <<v, q>> \in Found(k, w)} = New
      BY <2>1, <2>3, FoundExact
    <3>4. Noted(d, q)' = Noted(d, q) \cup New
      BY <1>1, <1>3, <2>3, <3>3 DEF Noted
    <3> QED
      BY <1>1, <3>2, <3>4 DEF Accounted, Covered
  <2> QED
    BY <2>2, <2>3
<1>5. \A kk \in Kind, v \in Word, q \in Query :
        <<v, q>> \in hits'[d][kk] => /\ q \in active'
                                     /\ QueryDef[q].match_type = kk
                                     /\ v \in QueryDef[q].words
  BY <1>1, <1>3, FoundExact DEF Accounted
<1>6. \A kk \in Kind : left'[d][kk] \subseteq DocWords[d]
  BY <1>3 DEF Accounted
<1> QED
  BY <1>1, <1>4, <1>5, <1>6 DEF Accounted

\* The step of a hit: it moves a word from the hits to the words found, and the last
\* word makes the query match.
LEMMA CountHitAccounted ==
  ASSUME Types, NEW d \in Doc, NEW k \in Kind, NEW v \in Word, NEW q \in Query,
         Accounted(d), HitEffect(d, k, v, q)
  PROVE  Accounted(d)'
<1>1. /\ <<v, q>> \in hits[d][k]
      /\ hits' = [hits EXCEPT ![d][k] = @ \ {<<v, q>>}]
      /\ UNCHANGED <<active, left>>
  BY DEF HitEffect
<1>2. /\ hits \in [Doc -> [Kind -> SUBSET Entry]]
      /\ matched \in [Doc -> SUBSET Query]
      /\ matched_words \in [Doc -> [Query -> SUBSET Word]]
      /\ active \subseteq Query
  BY DEF Types
<1>3. /\ q \in active /\ QueryDef[q].match_type = k /\ v \in QueryDef[q].words
  BY <1>1 DEF Accounted
<1>4. \A kk \in Kind : hits'[d][kk] = IF kk = k THEN hits[d][k] \ {<<v, q>>}
                                      ELSE hits[d][kk]
  BY <1>1, <1>2
<1>5. \A qq \in Query : Covered(d, qq)' = Covered(d, qq)
  BY <1>1 DEF Covered
<1>6. \A qq \in Query : \A u \in Word : <<u, qq>> # <<v, q>> =>
        (<<u, qq>> \in hits'[d][QueryDef[qq].match_type] <=>
           <<u, qq>> \in hits[d][QueryDef[qq].match_type])
  BY <1>4, QueryFields
<1>7. ASSUME NEW qq \in active, qq # q
      PROVE  IF qq \in matched'[d] THEN Covered(d, qq)' = QueryDef[qq].words
             ELSE Noted(d, qq)' = Covered(d, qq)'
  <2>1. qq \in Query
    BY <1>2
  <2>2. qq \in matched'[d] <=> qq \in matched[d]
    BY <1>2, <1>7 DEF HitEffect
  <2>3. matched_words'[d][qq] = matched_words[d][qq]
    <3>1. \/ matched_words' = matched_words
          \/ matched_words' = [matched_words EXCEPT ![d][q] = {}]
          \/ matched_words' = [matched_words EXCEPT ![d][q] = WordsWith(d, v, q)]
      BY DEF HitEffect
    <3> QED
      BY <1>2, <1>7, <2>1, <3>1
  <2>4. Noted(d, qq)' = Noted(d, qq)
    BY <1>6, <1>7, <2>1, <2>3 DEF Noted
  <2> QED
    BY <1>5, <2>1, <2>2, <2>4 DEF Accounted
<1>8. IF q \in matched'[d] THEN Covered(d, q)' = QueryDef[q].words
      ELSE Noted(d, q)' = Covered(d, q)'
  <2>1. CASE q \in matched[d]
    <3>1. q \in matched'[d]
      BY <2>1 DEF HitEffect
    <3> QED
      BY <1>3, <1>5, <2>1, <3>1 DEF Accounted
  <2>2. CASE q \notin matched[d] /\ Completes(d, v, q)
    <3>1. q \in matched'[d]
      BY <1>2, <2>2 DEF HitEffect
    <3>2. WordsWith(d, v, q) \subseteq Covered(d, q)
      <4>1. Noted(d, q) = Covered(d, q)
        BY <1>3, <2>2 DEF Accounted
      <4>2. WordsWith(d, v, q) \subseteq Noted(d, q)
        BY <1>1, <1>3 DEF WordsWith, Noted
      <4> QED
        BY <4>1, <4>2
    <3>3. Covered(d, q) \subseteq QueryDef[q].words
      BY DEF Covered
    <3>4. WordsWith(d, v, q) = QueryDef[q].words
      BY <2>2, <3>2, <3>3, AllWords DEF Completes
    <3> QED
      BY <1>5, <3>1, <3>2, <3>3, <3>4
  <2>3. CASE q \notin matched[d] /\ ~Completes(d, v, q)
    <3>1. /\ matched' = matched
          /\ matched_words' = [matched_words EXCEPT ![d][q] = WordsWith(d, v, q)]
      BY <2>3 DEF HitEffect
    <3>2. matched_words'[d][q] = matched_words[d][q] \cup {v}
      BY <1>2, <3>1 DEF WordsWith
    <3>3. hits'[d][k] = hits[d][k] \ {<<v, q>>}
      BY <1>4
    <3>4. Noted(d, q)' = Noted(d, q)
      BY <1>1, <1>3, <3>2, <3>3 DEF Noted
    <3> QED
      BY <1>3, <1>5, <2>3, <3>1, <3>4 DEF Accounted
  <2> QED
    BY <2>1, <2>2, <2>3
<1>9. \A kk \in Kind, u \in Word, qq \in Query :
        <<u, qq>> \in hits'[d][kk] => /\ qq \in active'
                                      /\ QueryDef[qq].match_type = kk
                                      /\ u \in QueryDef[qq].words
  BY <1>1, <1>4 DEF Accounted
<1>10. matched'[d] \subseteq active'
  BY <1>1, <1>2, <1>3 DEF HitEffect, Accounted
<1> QED
  BY <1>1, <1>7, <1>8, <1>9, <1>10 DEF Accounted

\* When nothing is left to look up or to count, the queries that have matched are
\* those that match the document.
LEMMA MatchedExact ==
  ASSUME Types, MatchedIsCleared, NEW d \in Doc, Accounted(d),
         \A k \in Kind : left[d][k] = {} /\ hits[d][k] = {}
  PROVE  matched[d] = {q \in active : Service!Matches(q, d)}
<1>1. ASSUME NEW q \in active
      PROVE  q \in matched[d] <=> Service!Matches(q, d)
  <2>1. q \in Query /\ QueryDef[q].match_type \in Kind
    BY QueryFields DEF Types
  <2>2. Service!Matches(q, d) <=> Covered(d, q) = QueryDef[q].words
    <3>1. DocWords[d] \ left[d][QueryDef[q].match_type] = DocWords[d]
      BY <2>1
    <3> QED
      BY <3>1 DEF Covered, Service!Matches
  <2>3. CASE q \in matched[d]
    BY <2>2, <2>3 DEF Accounted
  <2>4. CASE q \notin matched[d]
    <3>1. matched_words[d][q] = Covered(d, q)
      <4>1. Noted(d, q) = Covered(d, q)
        BY <2>4 DEF Accounted
      <4>2. hits[d][QueryDef[q].match_type] = {}
        BY <2>1
      <4> QED
        BY <4>1, <4>2 DEF Noted
    <3>2. matched_words[d][q] # QueryDef[q].words
      BY <2>1, <2>4 DEF MatchedIsCleared
    <3> QED
      BY <2>2, <2>4, <3>1, <3>2
  <2> QED
    BY <2>3, <2>4
<1>2. matched[d] \subseteq active
  BY DEF Accounted
<1> QED
  BY <1>1, <1>2

\* What the step of another document, of the client or of an add job leaves alone.
LEMMA MatchFrame ==
  ASSUME MatchInv, UNCHANGED <<active, due, answer>>,
         NEW d \in Doc, phase'[d] = phase[d],
         UNCHANGED <<left[d], hits[d], matched[d], matched_words[d]>>
  PROVE  /\ phase'[d] \in {"new", "submitted"} => Untouched(d)'
         /\ phase'[d] = "matching" => Accounted(d)'
         /\ phase'[d] \in {"submitted", "matching"} =>
              due'[d] = {q \in active' : Service!Matches(q, d)}
         /\ answer'[d] # Pending => answer'[d] = due'[d]
<1>1. Untouched(d) => Untouched(d)'
  BY DEF Untouched
<1>2. Accounted(d) => Accounted(d)'
  BY DEF Accounted, Covered, Noted
<1> QED
  BY <1>1, <1>2 DEF MatchInv

LEMMA MatchSteps ==
  ASSUME CollectsFirst, Types, CallInv, CountInv, PoolInv, AnswerInv, ReadyInv, QuietInv,
         IndexInv, MatchedIsCleared, MatchInv, [Next]_vars
  PROVE  MatchInv'
<1>1. ASSUME UNCHANGED <<active, due, answer, phase, left, hits, matched, matched_words>>
      PROVE  MatchInv'
  BY <1>1, MatchFrame DEF MatchInv
<1>2. ASSUME ~Matching, UNCHANGED <<due, answer, phase, matching>>
      PROVE  MatchInv'
  <2>1. ASSUME NEW d \in Doc PROVE Untouched(d) => Untouched(d)'
    BY <1>2 DEF Untouched
  <2> QED
    BY <1>2, <2>1 DEF MatchInv, Matching
<1>3. ASSUME NEW q \in Query, StartQuery(q) PROVE MatchInv'
  <2>1. ~Matching
    BY <1>3, MatchingIsUndelivered DEF StartQuery
  <2> QED
    BY <1>2, <1>3, <2>1 DEF StartQuery
<1>4. CASE EndReturn
  <2>1. ~Matching
    BY <1>4 DEF EndReturn, Pool!Return, PoolInv, DocInv, Matching
  <2> QED
    BY <1>2, <1>4, <2>1 DEF EndReturn
<1>5. CASE PushDocument
  <2>1. arg \in Doc /\ phase[arg] = "new"
    BY <1>5 DEF PushDocument, Types, PoolInv, DocInv
  <2>2. /\ phase' = [phase EXCEPT ![arg] = "submitted"]
        /\ due' = [due EXCEPT ![arg] = {q \in active : Service!Matches(q, arg)}]
        /\ UNCHANGED <<active, answer, matching>>
    BY <1>5 DEF PushDocument
  <2>3. phase \in [Doc -> Phase] /\ due \in [Doc -> (SUBSET Query) \cup {Pending}]
    BY DEF Types
  <2>4. ASSUME NEW d \in Doc PROVE /\ Untouched(d) => Untouched(d)'
                                   /\ Accounted(d) => Accounted(d)'
    BY <2>2 DEF Untouched, Accounted, Covered, Noted
  <2>5. answer[arg] = Pending
    BY <2>1 DEF AnswerInv
  <2> QED
    BY <2>1, <2>2, <2>3, <2>4, <2>5 DEF MatchInv
<1>6. ASSUME NEW d \in Doc, StartDoc(d) PROVE MatchInv'
  <2>1. phase[d] = "submitted" /\ Untouched(d)
    BY <1>6 DEF StartDoc, Pool!Start, PoolInv, DocInv, MatchInv
  <2>2. /\ phase' = [phase EXCEPT ![d] = "matching"]
        /\ left' = [left EXCEPT ![d] = [k \in Kind |-> DocWords[d]]]
        /\ UNCHANGED <<active, due, answer, hits, matched, matched_words>>
    BY <1>6 DEF StartDoc
  <2>3. phase'[d] = "matching" /\ left'[d] = [k \in Kind |-> DocWords[d]]
    BY <2>2 DEF Types
  <2>4. Accounted(d)'
    <3>1. ASSUME NEW q \in active PROVE Noted(d, q)' = {} /\ Covered(d, q)' = {}
      <4>1. q \in Query /\ QueryDef[q].match_type \in Kind
        BY QueryFields DEF Types
      <4> QED
        BY <2>1, <2>2, <2>3, <4>1 DEF Untouched, Noted, Covered
    <3> QED
      BY <2>1, <2>2, <2>3, <3>1 DEF Accounted, Untouched
  <2>5. due'[d] = {q \in active' : Service!Matches(q, d)} /\ answer'[d] = answer[d]
    BY <2>1, <2>2 DEF MatchInv
  <2>6. ASSUME NEW dd \in Doc, dd # d
        PROVE  phase'[dd] = phase[dd] /\ left'[dd] = left[dd]
    BY <2>2, <2>6 DEF Types
  <2> QED
    BY <2>2, <2>3, <2>4, <2>5, <2>6, MatchFrame DEF MatchInv
<1>7. ASSUME NEW d \in Doc, NEW k \in Kind, NEW w \in Word, LookUp(d, k, w)
      PROVE  MatchInv'
  <2>1. phase[d] = "matching" /\ Matching
    BY <1>7 DEF LookUp, Matching
  <2>2. ~Adding /\ pc # "start"
    BY <2>1 DEF QuietInv, CallInv
  <2>3. Accounted(d)'
    BY <1>7, <2>1, <2>2, LookUpAccounted DEF MatchInv
  <2>4. UNCHANGED <<active, due, answer, phase, matched, matched_words>>
    BY <1>7 DEF LookUp
  <2>5. ASSUME NEW dd \in Doc, dd # d
        PROVE  left'[dd] = left[dd] /\ hits'[dd] = hits[dd]
    BY <1>7, <2>5 DEF LookUp, Types
  <2> QED
    BY <2>1, <2>3, <2>4, <2>5, MatchFrame DEF MatchInv
<1>8. ASSUME NEW d \in Doc, NEW k \in Kind, NEW e \in hits[d][k], CountHit(d, k, e)
      PROVE  MatchInv'
  <2>1. PICK v \in Word, q \in Query : e = <<v, q>>
    BY HitIsEntry
  <2>2. HitEffect(d, k, v, q)
    BY <1>8, <2>1, CountHitCases
  <2>3. phase[d] = "matching" /\ UNCHANGED <<active, due, answer, phase, left>>
    BY <2>2 DEF HitEffect
  <2>4. Accounted(d)'
    BY <2>2, <2>3, CountHitAccounted DEF MatchInv
  <2>5. ASSUME NEW dd \in Doc, dd # d
        PROVE  UNCHANGED <<hits[dd], matched[dd], matched_words[dd]>>
    <3>1. hits'[dd] = hits[dd]
      BY <2>2, <2>5 DEF HitEffect, Types
    <3>2. matched'[dd] = matched[dd]
      BY <2>2, <2>5 DEF HitEffect, Types
    <3>3. matched_words'[dd] = matched_words[dd]
      BY <2>2, <2>5 DEF HitEffect, Types
    <3> QED
      BY <3>1, <3>2, <3>3
  <2> QED
    BY <2>3, <2>4, <2>5, MatchFrame DEF MatchInv
<1>9. ASSUME NEW d \in Doc, Answer(d) PROVE MatchInv'
  <2>1. /\ phase[d] = "matching"
        /\ \A k \in Kind : left[d][k] = {} /\ hits[d][k] = {}
        /\ answer' = [answer EXCEPT ![d] = matched[d]]
        /\ UNCHANGED <<active, due, matching>>
    BY <1>9 DEF Answer
  <2>2. PICK p \in {"signal", "remove"} : phase' = [phase EXCEPT ![d] = p]
    BY <1>9 DEF Answer
  <2>3. matched[d] = due[d]
    BY <2>1, MatchedExact DEF MatchInv
  <2>4. phase'[d] = p /\ answer'[d] = matched[d]
    BY <2>1, <2>2 DEF Types
  <2>5. ASSUME NEW dd \in Doc, dd # d
        PROVE  /\ phase'[dd] = phase[dd] /\ answer'[dd] = answer[dd]
               /\ Untouched(dd) => Untouched(dd)'
               /\ Accounted(dd) => Accounted(dd)'
    <3>1. phase'[dd] = phase[dd] /\ answer'[dd] = answer[dd]
      BY <2>1, <2>2, <2>5 DEF Types
    <3>2. Untouched(dd) => Untouched(dd)'
      BY <2>1 DEF Untouched
    <3>3. Accounted(dd) => Accounted(dd)'
      BY <2>1 DEF Accounted, Covered, Noted
    <3> QED
      BY <3>1, <3>2, <3>3
  <2> QED
    BY <2>1, <2>3, <2>4, <2>5 DEF MatchInv
<1>10. ASSUME NEW d \in Doc, SignalResult(d) \/ RemoveDoc(d) PROVE MatchInv'
  <2>1. UNCHANGED <<active, due, answer, matching>>
    BY <1>10 DEF SignalResult, RemoveDoc
  <2>2. phase'[d] \in {"remove", "gone"}
    BY <1>10 DEF SignalResult, RemoveDoc, Types
  <2>3. ASSUME NEW dd \in Doc, dd # d PROVE phase'[dd] = phase[dd]
    BY <1>10, <2>3 DEF SignalResult, RemoveDoc, Types
  <2> QED
    BY <2>1, <2>2, <2>3, MatchFrame DEF MatchInv
<1>11. CASE StartReturn \/ MatchReady \/ GetReturn
  BY <1>1, <1>11 DEF StartReturn, MatchReady, GetReturn
<1>12. ASSUME NEW w \in Word, SubmitAdd(w) PROVE MatchInv'
  BY <1>1, <1>12 DEF SubmitAdd
<1>13. ASSUME NEW q \in Query, EndQuery(q) PROVE MatchInv'
  BY <1>1, <1>13 DEF EndQuery
<1>14. ASSUME NEW d \in Doc, MatchDocument(d) PROVE MatchInv'
  BY <1>1, <1>14 DEF MatchDocument
<1>15. CASE GetNextAvailRes \/ PeekSleep \/ Peek \/ SpuriousWakeup
  BY <1>1, <1>15 DEF GetNextAvailRes, PeekSleep, Peek, SpuriousWakeup
<1>16. CASE Exit \/ DestroyPool \/ PoolDestroyed
  BY <1>1, <1>16 DEF Exit, DestroyPool, PoolDestroyed
<1>17. ASSUME NEW q \in Query, NEW w \in Word, AddStep(q, w) PROVE MatchInv'
  BY <1>1, <1>17 DEF AddStep, StartAdd, FinishAdd
<1>18. CASE UNCHANGED vars
  BY <1>1, <1>18 DEF vars
<1> QED
  BY <1>3, <1>4, <1>5, <1>6, <1>7, <1>8, <1>9, <1>10, <1>11, <1>12, <1>13, <1>14,
     <1>15, <1>16, <1>17, <1>18, QueryFields
  DEF Next, ClientStep, DocStep, Terminated

LEMMA MatchCorrect ==
  ASSUME CollectsFirst
  PROVE  Spec => []MatchInv
<1>1. Init => MatchInv
  BY DEF Init, MatchInv, Untouched
<1>2. /\ Types /\ CallInv /\ CountInv /\ PoolInv /\ AnswerInv /\ ReadyInv /\ QuietInv
      /\ IndexInv /\ MatchedIsCleared /\ MatchInv /\ [Next]_vars
      => MatchInv'
  BY MatchSteps
<1> QED
  BY <1>1, <1>2, TypesCorrect, CallCorrect, CountCorrect, PoolCorrect, ReadyCorrect,
     QuietCorrect, IndexCorrect, MatchedIsClearedHolds, PTL DEF Spec

\* core.h: the answer of a document "must depend on the state of the active queries at
\* the time of calling MatchDocument()". With a client that collects its answers before
\* it starts a query it does, whatever the order in which words reach the indexes,
\* lookups are made, hits are counted and documents finish. (Without such a client it
\* does not: TLC shows a counterexample.)
THEOREM AnswerIsSnapshotHolds ==
  ASSUME CollectsFirst
  PROVE  Spec => []AnswerIsSnapshot
<1>1. MatchInv => AnswerIsSnapshot
  BY DEF MatchInv, AnswerIsSnapshot
<1> QED
  BY <1>1, MatchCorrect, PTL

----------------------------------------------------------------------------
(* The engine implements the service.                                      *)

LEMMA EngineStepsService ==
  ASSUME CollectsFirst, Types, CallInv, PoolInv, AnswerInv, ReadyInv, MatchInv,
         [Next]_vars
  PROVE  [Service!Next]_(Service!vars)
<1> USE DEF Service!vars
<1>1. ASSUME NEW q \in Query, StartQuery(q) PROVE Service!StartQuery(q)
  BY <1>1 DEF StartQuery, CallInv, Service!StartQuery
<1>2. CASE EndReturn
  BY <1>2 DEF EndReturn, CallInv, Types, Service!Next, Service!EndQuery
<1>3. CASE PushDocument
  <2>1. arg \in Doc /\ due[arg] = Pending
    BY <1>3 DEF PushDocument, Types, PoolInv, DocInv, AnswerInv
  <2>2. Service!MatchDocument(arg)
    BY <1>3, <2>1 DEF PushDocument, Service!MatchDocument
  <2> QED
    BY <2>1, <2>2 DEF Service!Next
<1>4. CASE GetReturn
  <2>1. /\ arg \in Doc /\ answer[arg] # Pending /\ delivered[arg] = Pending
        /\ delivered' = [delivered EXCEPT ![arg] = answer[arg]]
        /\ UNCHANGED <<active, due>>
    <3>1. pc = "dequeue" /\ finished_results # <<>> /\ finished_results \in Seq(Doc)
      BY <1>4 DEF GetReturn, Types
    <3>2. 1 \in 1 .. Len(finished_results) /\ arg = finished_results[1]
      BY <3>1 DEF ReadyInv
    <3> QED
      BY <1>4, <3>1, <3>2 DEF GetReturn, ReadyInv
  <2>2. answer[arg] = due[arg]
    BY <2>1 DEF MatchInv
  <2>3. Service!GetNextAvailRes(arg)
    BY <2>1, <2>2 DEF Service!GetNextAvailRes
  <2> QED
    BY <2>1, <2>3 DEF Service!Next
<1>5. ASSUME NEW q \in Query, EndQuery(q) PROVE UNCHANGED Service!vars
  BY <1>5 DEF EndQuery
<1>6. ASSUME NEW w \in Word, SubmitAdd(w) PROVE UNCHANGED Service!vars
  BY <1>6 DEF SubmitAdd
<1>7. ASSUME NEW d \in Doc, MatchDocument(d) PROVE UNCHANGED Service!vars
  BY <1>7 DEF MatchDocument
<1>8. CASE StartReturn \/ MatchReady
  BY <1>8 DEF StartReturn, MatchReady
<1>9. CASE GetNextAvailRes \/ PeekSleep \/ Peek \/ SpuriousWakeup
  BY <1>9 DEF GetNextAvailRes, PeekSleep, Peek, SpuriousWakeup
<1>10. CASE Exit \/ DestroyPool \/ PoolDestroyed
  BY <1>10 DEF Exit, DestroyPool, PoolDestroyed
<1>11. ASSUME NEW d \in Doc, DocStep(d) PROVE UNCHANGED Service!vars
  BY <1>11 DEF DocStep, StartDoc, LookUp, CountHit, Answer, SignalResult, RemoveDoc
<1>12. ASSUME NEW q \in Query, NEW w \in Word, AddStep(q, w)
       PROVE  UNCHANGED Service!vars
  BY <1>12 DEF AddStep, StartAdd, FinishAdd
<1>13. CASE UNCHANGED vars
  BY <1>13 DEF vars
<1> QED
  <2> HIDE DEF Service!vars
  <2> QED
    BY <1>1, <1>2, <1>3, <1>4, <1>5, <1>6, <1>7, <1>8, <1>9, <1>10, <1>11, <1>12,
       <1>13, QueryFields
    DEF Next, ClientStep, Terminated, Service!Next

\* The engine is the service of core.h: each document is answered once, and by the
\* queries active when it was pushed. StartQuery is its first step, EndQuery its
\* return, MatchDocument the submission, GetNextAvailRes the dequeue.
THEOREM EngineImplementsService ==
  ASSUME CollectsFirst
  PROVE  Spec => ImplementsService
<1>1. Init => Service!Init
  BY DEF Init, Service!Init
<1>2. /\ Types /\ CallInv /\ PoolInv /\ AnswerInv /\ ReadyInv /\ MatchInv /\ [Next]_vars
      => [Service!Next]_(Service!vars)
  BY EngineStepsService
<1> QED
  BY <1>1, <1>2, TypesCorrect, CallCorrect, PoolCorrect, ReadyCorrect, MatchCorrect, PTL
  DEF Spec, ImplementsService, Service!Spec

=============================================================================
