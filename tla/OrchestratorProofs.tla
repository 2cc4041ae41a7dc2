-------------------------- MODULE OrchestratorProofs --------------------------
(***************************************************************************)
(* Proofs about Orchestrator, for every number of ids, clients and         *)
(* prompts, every capacity, every set of faults and every bound.           *)
(***************************************************************************)
EXTENDS Orchestrator, FiniteSetTheorems, TLAPS

USE NoIdAssumption, BatchAssumption, CapacityAssumption, TopKAssumption,
    LimitsAssumption

-------------------------------------------------------------------------------
(* Type correctness                                                        *)

LEMMA ProceedType ==
  ASSUME client \in [Clients -> Query \cup {NoQuery}],
         NEW c \in Clients, NEW q \in Query \cup {NoQuery}, Proceed(c, q)
  PROVE  client' \in [Clients -> Query \cup {NoQuery}]
BY DEF Proceed

LEMMA AnswerType ==
  ASSUME client \in [Clients -> Query \cup {NoQuery}], NEW c \in Clients, Answer(c)
  PROVE  client' \in [Clients -> Query \cup {NoQuery}]
BY ProceedType DEF Answer

(* A client that is not idle has a query.                                  *)
LEMMA BusyType ==
  ASSUME client \in [Clients -> Query \cup {NoQuery}], NEW c \in Clients,
         client[c].pc # "idle"
  PROVE  client[c] \in Query
BY DEF NoQuery

LEMMA SpendType ==
  ASSUME spent \in [Events -> Nat], NEW e \in Events, Spend(e)
  PROVE  spent' \in [Events -> Nat]
BY DEF Spend, Events

(* What a remote call does to the fault budget.                            *)
LEMMA OutcomeType ==
  ASSUME spent \in [Events -> Nat], NEW k,
         Answered \/ Refused(k) \/ ReplyLost(k)
  PROVE  spent' \in [Events -> Nat]
<1>1. "fault" \in Events
  BY DEF Events
<1> QED
  BY <1>1, SpendType DEF Answered, Refused, ReplyLost

LEMMA CountType ==
  ASSUME stats \in Counters, NEW k \in {"hits", "misses", "evictions"}, Count(k)
  PROVE  stats' \in Counters
<1>1. stats[k] + 1 \in Nat
  BY DEF Counters
<1> QED
  BY <1>1 DEF Count, Counters

LEMMA BatchEndType ==
  ASSUME QueueTypeOK(Prompts), HasNew
  PROVE  /\ BatchEnd \in lastDelivered + 1 .. Len(stream)
         /\ lastDelivered + 1 \in 1 .. BatchEnd
BY DEF QueueTypeOK, HasNew, BatchEnd

LEMMA XAddType ==
  ASSUME QueueTypeOK(Prompts), NEW p \in Prompts, XAdd(p)
  PROVE  QueueTypeOK(Prompts)'
<1>1. stream' \in Seq(Prompts) /\ Len(stream') = Len(stream) + 1
  BY DEF QueueTypeOK, XAdd
<1> QED
  BY <1>1 DEF QueueTypeOK, XAdd

LEMMA XReadGroupType ==
  ASSUME QueueTypeOK(Prompts), XReadGroup
  PROVE  QueueTypeOK(Prompts)'
<1>1. BatchEnd \in lastDelivered + 1 .. Len(stream)
  BY BatchEndType DEF XReadGroup
<1>2. pending' \subseteq 1 .. BatchEnd
  BY <1>1 DEF QueueTypeOK, XReadGroup
<1> QED
  BY <1>1, <1>2 DEF QueueTypeOK, XReadGroup

LEMMA TypeInit == Init => TypeOK
BY DEF Init, TypeOK, StoreInit, StoreTypeOK, IndexInit, IndexTypeOK,
   QueueInit, QueueTypeOK, PolicyInit, PolicyTypeOK, NoCounts, Counters,
   WorkerTypeOK, WorkerSteps, FlushSteps

LEMMA QueryTypes ==
  ASSUME TypeOK, NEW c \in Clients, QueryStep(c)
  PROVE  TypeOK'
<1> USE DEF TypeOK, StoreTypeOK, storeVars, IndexTypeOK, indexVars, PolicyTypeOK,
         WorkerTypeOK, workerVars, flushVars, histVars
<1>1. CASE Search(c)
  <2>1. spent' \in [Events -> Nat]
    BY <1>1, OutcomeType DEF Search
  <2>2. client' \in [Clients -> Query \cup {NoQuery}]
    <3>1. CASE Answer(c)
      BY <3>1, AnswerType
    <3>2. ASSUME NEW S \in Answers(client[c].prompt)
          PROVE  [client[c] EXCEPT !.pc = "load", !.cand = S,
                    !.seen = Matching(client[c].prompt) \cap entries] \in Query
      <4>1. S \subseteq Ids /\ Matching(client[c].prompt) \cap entries \subseteq Ids
        BY DEF Answers, Matching
      <4>2. client[c] \in Query
        BY <1>1, BusyType DEF Search
      <4> QED BY <4>1, <4>2 DEF Query
    <3> QED BY <1>1, <3>1, <3>2, ProceedType DEF Search
  <2> QED BY <1>1, <2>1, <2>2 DEF Search, queueVars, QueueTypeOK
<1>2. CASE Load(c)
  <2>1. spent' \in [Events -> Nat]
    BY <1>2, OutcomeType DEF Load
  <2>2. client[c] \in Query
    BY <1>2, BusyType DEF Load
  <2>3. ASSUME NEW i
        PROVE  /\ [client[c] EXCEPT !.cand = @ \ {i}] \in Query
               /\ i \in client[c].cand =>
                    [client[c] EXCEPT !.cand = @ \ {i}, !.found = @ \cup {i}] \in Query
    BY <2>2 DEF Query
  <2>4. client' \in [Clients -> Query \cup {NoQuery}]
    BY <1>2, <2>3, ProceedType DEF Load
  <2>5. tracked' = tracked
    BY <1>2 DEF Load, OnHit
  <2> QED BY <1>2, <2>1, <2>4, <2>5 DEF Load, queueVars, QueueTypeOK
<1>3. CASE Hit(c)
  BY <1>3, AnswerType, CountType DEF Hit, queueVars, QueueTypeOK
<1>4. CASE Miss(c)
  <2>1. spent' \in [Events -> Nat]
    BY <1>4, OutcomeType DEF Miss
  <2>2. client' \in [Clients -> Query \cup {NoQuery}]
    <3>1. client[c] \in Query
      BY <1>4, BusyType DEF Miss, Deciding
    <3>2. [client[c] EXCEPT !.pc = "enqueue"] \in Query
      BY <3>1 DEF Query
    <3> QED BY <1>4, <3>2, AnswerType, ProceedType DEF Miss
  <2>3. stats' \in Counters
    BY <1>4, CountType DEF Miss
  <2> QED BY <1>4, <2>1, <2>2, <2>3 DEF Miss, queueVars, QueueTypeOK
<1>5. CASE Enqueue(c)
  <2>1. spent' \in [Events -> Nat]
    BY <1>5, OutcomeType DEF Enqueue
  <2>2. client' \in [Clients -> Query \cup {NoQuery}]
    BY <1>5, AnswerType DEF Enqueue
  <2>3. client[c].prompt \in Prompts
    BY <1>5, BusyType DEF Enqueue, Query
  <2>4. QueueTypeOK(Prompts)'
    <3>1. CASE XAdd(client[c].prompt)
      BY <2>3, <3>1, XAddType
    <3>2. CASE UNCHANGED queueVars
      BY <3>2 DEF queueVars, QueueTypeOK
    <3> QED BY <1>5, <3>1, <3>2 DEF Enqueue
  <2> QED BY <1>5, <2>1, <2>2, <2>4 DEF Enqueue
<1> QED BY <1>1, <1>2, <1>3, <1>4, <1>5 DEF QueryStep

LEMMA EndJobType ==
  ASSUME WorkerTypeOK, EndJob
  PROVE  WorkerTypeOK'
BY DEF WorkerTypeOK, EndJob, WorkerSteps

LEMMA StepNames ==
  /\ {"idle", "upsert", "save", "compensate", "insert", "size", "victim",
      "evictStore", "evictIndex", "forget", "ack"} \subseteq WorkerSteps
  /\ {"idle", "index", "list", "del", "policy", "stats"} \subseteq FlushSteps
BY DEF WorkerSteps, FlushSteps

LEMMA WorkerTypes ==
  ASSUME TypeOK, WorkerStep
  PROVE  TypeOK'
<1> USE StepNames DEF StoreTypeOK, storeVars, IndexTypeOK, indexVars, PolicyTypeOK,
         flushVars, histVars, FailJob
<1>1. CASE Fetch
  <2>1. spent' \in [Events -> Nat]
    BY <1>1, OutcomeType DEF Fetch, TypeOK
  <2>2. QueueTypeOK(Prompts)'
    BY <1>1, XReadGroupType DEF Fetch, TypeOK
  <2>3. WorkerTypeOK'
    BY <1>1, BatchEndType DEF Fetch, XReadGroup, QueueTypeOK, TypeOK, WorkerTypeOK
  <2> QED BY <1>1, <2>1, <2>2, <2>3 DEF Fetch, TypeOK
<1>2. CASE Upsert
  <2>1. spent' \in [Events -> Nat]
    BY <1>2, OutcomeType DEF Upsert, TypeOK
  <2>2. WorkerTypeOK'
    <3>1. CASE EndJob
      BY <3>1, EndJobType DEF TypeOK
    <3>2. ASSUME NEW id \in Ids, wpc' = "save", wid' = id, UNCHANGED <<cur, victim>>
          PROVE  WorkerTypeOK'
      BY <1>2, <3>2 DEF Upsert, TypeOK, WorkerTypeOK
    <3>3. \/ EndJob
          \/ \E id \in Ids : wpc' = "save" /\ wid' = id /\ UNCHANGED <<cur, victim>>
      BY <1>2 DEF Upsert
    <3> QED BY <3>1, <3>2, <3>3
  <2>3. mintedFor' \in [Ids -> Nat]
    BY <1>2 DEF Upsert, TypeOK, WorkerTypeOK
  <2>4. IndexTypeOK'
    BY <1>2 DEF Upsert, UpsertVector, TypeOK
  <2> QED BY <1>2, <2>1, <2>2, <2>3, <2>4 DEF Upsert, TypeOK, queueVars, QueueTypeOK
<1>3. CASE Save
  <2>1. spent' \in [Events -> Nat]
    BY <1>3, OutcomeType DEF Save, TypeOK
  <2>2. WorkerTypeOK' /\ wid \in Ids
    BY <1>3 DEF Save, Goto, TypeOK, WorkerTypeOK
  <2>3. StoreTypeOK'
    BY <1>3, <2>2 DEF Save, SaveEntry, TypeOK
  <2>4. admitted' \subseteq Nat \ {0}
    BY <1>3 DEF Save, TypeOK, WorkerTypeOK
  <2> QED BY <1>3, <2>1, <2>2, <2>3, <2>4 DEF Save, TypeOK, queueVars, QueueTypeOK
<1>4. CASE Compensate
  <2>1. spent' \in [Events -> Nat]
    BY <1>4, OutcomeType DEF Compensate, TypeOK
  <2>2. WorkerTypeOK'
    BY <1>4, EndJobType DEF Compensate, TypeOK
  <2> QED BY <1>4, <2>1, <2>2
          DEF Compensate, DeleteVector, DeleteNotFound, TypeOK, queueVars, QueueTypeOK
<1>5. CASE Insert
  <2>1. WorkerTypeOK' /\ wid \in Ids
    BY <1>5 DEF Insert, TypeOK, WorkerTypeOK
  <2> QED BY <1>5, <2>1 DEF Insert, OnInsert, TypeOK, queueVars, QueueTypeOK
<1>6. CASE CheckSize
  <2>1. spent' \in [Events -> Nat]
    BY <1>6, OutcomeType DEF CheckSize, TypeOK
  <2>2. WorkerTypeOK'
    BY <1>6, EndJobType DEF CheckSize, Goto, TypeOK, WorkerTypeOK
  <2> QED BY <1>6, <2>1, <2>2 DEF CheckSize, TypeOK, queueVars, QueueTypeOK
<1>7. CASE PickVictim
  <2>1. WorkerTypeOK'
    BY <1>7, EndJobType DEF PickVictim, TypeOK, WorkerTypeOK
  <2>2. tracked' = tracked
    BY <1>7 DEF PickVictim, Victim
  <2> QED BY <1>7, <2>1, <2>2 DEF PickVictim, TypeOK, queueVars, QueueTypeOK
<1>8. CASE EvictStore
  <2>1. spent' \in [Events -> Nat]
    BY <1>8, OutcomeType DEF EvictStore, TypeOK
  <2>2. WorkerTypeOK'
    BY <1>8, EndJobType DEF EvictStore, Goto, TypeOK, WorkerTypeOK
  <2> QED BY <1>8, <2>1, <2>2 DEF EvictStore, DeleteEntry, TypeOK, queueVars, QueueTypeOK
<1>9. CASE EvictIndex
  <2>1. spent' \in [Events -> Nat]
    BY <1>9, OutcomeType DEF EvictIndex, TypeOK
  <2>2. WorkerTypeOK'
    BY <1>9, EndJobType DEF EvictIndex, Goto, TypeOK, WorkerTypeOK
  <2> QED BY <1>9, <2>1, <2>2
          DEF EvictIndex, DeleteVector, DeleteNotFound, TypeOK, queueVars, QueueTypeOK
<1>10. CASE Forget
  <2>1. stats' \in Counters
    BY <1>10, CountType DEF Forget, TypeOK
  <2>2. WorkerTypeOK'
    BY <1>10 DEF Forget, TypeOK, WorkerTypeOK
  <2> QED BY <1>10, <2>1, <2>2 DEF Forget, OnDelete, TypeOK, queueVars, QueueTypeOK
<1>11. CASE Ack
  <2>1. spent' \in [Events -> Nat]
    BY <1>11, OutcomeType DEF Ack, TypeOK
  <2>2. QueueTypeOK(Prompts)'
    BY <1>11 DEF Ack, XAck, queueVars, QueueTypeOK, TypeOK
  <2>3. WorkerTypeOK'
    BY <1>11, EndJobType DEF Ack, TypeOK
  <2> QED BY <1>11, <2>1, <2>2, <2>3 DEF Ack, TypeOK
<1> QED
  BY <1>1, <1>2, <1>3, <1>4, <1>5, <1>6, <1>7, <1>8, <1>9, <1>10, <1>11
  DEF WorkerStep, JobStep

LEMMA FlushTypes ==
  ASSUME TypeOK, RequestFlush \/ FlushStep
  PROVE  TypeOK'
<1> USE StepNames DEF TypeOK, StoreTypeOK, storeVars, IndexTypeOK, indexVars, PolicyTypeOK,
         WorkerTypeOK, workerVars, histVars, queueVars, QueueTypeOK, EndFlush, FlushGoto
<1>1. CASE RequestFlush
  <2>1. spent' \in [Events -> Nat]
    BY <1>1, SpendType DEF RequestFlush, Events
  <2> QED BY <1>1, <2>1 DEF RequestFlush, Servable
<1>2. CASE FlushIndex
  <2>1. spent' \in [Events -> Nat]
    BY <1>2, OutcomeType DEF FlushIndex
  <2> QED BY <1>2, <2>1 DEF FlushIndex, FlushVectors
<1>3. CASE FlushList
  <2>1. spent' \in [Events -> Nat]
    BY <1>3, OutcomeType DEF FlushList
  <2> QED BY <1>3, <2>1 DEF FlushList
<1>4. CASE FlushDel
  <2>1. spent' \in [Events -> Nat]
    BY <1>4, OutcomeType DEF FlushDel
  <2> QED BY <1>4, <2>1 DEF FlushDel, DelListed
<1>5. CASE FlushTracked
  BY <1>5 DEF FlushTracked, FlushPolicy
<1>6. CASE FlushStats
  BY <1>6 DEF FlushStats, NoCounts, Counters
<1> QED BY <1>1, <1>2, <1>3, <1>4, <1>5, <1>6 DEF FlushStep

LEMMA ProcessTypes ==
  ASSUME TypeOK, StartupStep \/ Crash \/ RestartIndex
  PROVE  TypeOK'
<1> USE StepNames DEF TypeOK, StoreTypeOK, storeVars, IndexTypeOK, indexVars, PolicyTypeOK,
         WorkerTypeOK, workerVars, flushVars, histVars, queueVars, QueueTypeOK
<1>1. CASE ListEntries
  <2>1. spent' \in [Events -> Nat]
    BY <1>1, OutcomeType DEF ListEntries
  <2> QED BY <1>1, <2>1 DEF ListEntries, Listed
<1>2. CASE Rebuild
  <2>1. spent' \in [Events -> Nat]
    BY <1>2, OutcomeType DEF Rebuild
  <2> QED BY <1>2, <2>1 DEF Rebuild, RebuildVectors
<1>3. CASE Crash
  <2>1. spent' \in [Events -> Nat]
    BY <1>3, SpendType DEF Crash, Events
  <2>2. client' \in [Clients -> Query \cup {NoQuery}]
    BY <1>3 DEF Crash, FreshMemory
  <2>3. stats' \in Counters
    BY <1>3 DEF Crash, FreshMemory, NoCounts, Counters
  <2> QED BY <1>3, <2>1, <2>2, <2>3 DEF Crash, FreshMemory
<1>4. CASE RestartIndex
  <2>1. spent' \in [Events -> Nat]
    BY <1>4, SpendType DEF RestartIndex, Events
  <2> QED BY <1>4, <2>1 DEF RestartIndex, FlushVectors, procVars
<1> QED BY <1>1, <1>2, <1>3, <1>4 DEF StartupStep

LEMMA TypeStep == TypeOK /\ [Next]_vars => TypeOK'
<1> SUFFICES ASSUME TypeOK, [Next]_vars PROVE TypeOK'
  OBVIOUS
<1>1. ASSUME NEW c \in Clients, NEW p \in Prompts, Ask(c, p)
      PROVE  TypeOK'
  <2> USE DEF TypeOK, StoreTypeOK, storeVars, IndexTypeOK, indexVars, PolicyTypeOK,
           WorkerTypeOK, workerVars, flushVars, histVars, queueVars, QueueTypeOK
  <2>1. spent' \in [Events -> Nat]
    BY <1>1, SpendType DEF Ask, Events
  <2>2. [NoQuery EXCEPT !.pc = "search", !.prompt = p] \in Query
    BY DEF Query, NoQuery
  <2>3. client' \in [Clients -> Query \cup {NoQuery}]
    BY <1>1, <2>2, ProceedType DEF Ask
  <2> QED BY <1>1, <2>1, <2>3 DEF Ask
<1>2. CASE UNCHANGED vars
  BY <1>2 DEF TypeOK, StoreTypeOK, storeVars, IndexTypeOK, indexVars, PolicyTypeOK,
     WorkerTypeOK, procVars, histVars, queueVars, QueueTypeOK, vars
<1> QED
  BY <1>1, <1>2, QueryTypes, WorkerTypes, FlushTypes, ProcessTypes DEF Next, Poll

(* Every reachable state is well typed.                                    *)
THEOREM TypeCorrect == Spec => []TypeOK
BY TypeInit, TypeStep, PTL DEF Spec

-------------------------------------------------------------------------------
(***************************************************************************)
(* The inductive invariant IInv of Orchestrator, and what follows from it  *)
(* for every instance: the two safety invariants that hold whatever fails, *)
(* the action property of evictions, and the refinement of SemanticCache.  *)
(*                                                                         *)
(* Most steps leave the worker and the queue alone and only shrink the     *)
(* components (QuietStep); what is left are the steps of the worker, and   *)
(* the crash.                                                              *)
(***************************************************************************)

-------------------------------------------------------------------------------
(* Cardinalities                                                           *)

(* The debt of the cache is a finite set of stream positions.              *)
LEMMA PositionsFinite ==
  ASSUME NEW n \in Nat, NEW S \in SUBSET (1 .. n)
  PROVE  IsFiniteSet(S) /\ Cardinality(S) \in Nat
<1>1. IsFiniteSet(1 .. n)
  BY FS_Interval
<1>2. IsFiniteSet(S)
  BY <1>1, FS_Subset
<1> QED
  BY <1>2, FS_CardinalityType

LEMMA OwingFinite ==
  ASSUME TypeOK'
  PROVE  IsFiniteSet(Owing') /\ Cardinality(Owing') \in Nat
<1>1. lastDelivered' \in Nat /\ Owing' \in SUBSET (1 .. lastDelivered')
  BY DEF TypeOK, QueueTypeOK, Owing
<1> QED
  BY <1>1, PositionsFinite

(* A cache that does not grow while its debt does not shrink.              *)
LEMMA OverrunKept ==
  ASSUME TypeOK', IsFiniteSet(members), OverrunAccounted,
         members' \subseteq members, Owing \subseteq Owing'
  PROVE  IsFiniteSet(members') /\ OverrunAccounted'
<1>1. /\ IsFiniteSet(members')
      /\ Cardinality(members') <= Cardinality(members)
  BY FS_Subset
<1>2. /\ Cardinality(members) \in Nat
      /\ Cardinality(members') \in Nat
  BY <1>1, FS_CardinalityType
<1>3. IsFiniteSet(Owing') /\ Cardinality(Owing') \in Nat
  BY OwingFinite
<1>4. IsFiniteSet(Owing) /\ Cardinality(Owing) <= Cardinality(Owing')
  BY <1>3, FS_Subset
<1>5. Cardinality(Owing) \in Nat
  BY <1>4, FS_CardinalityType
<1> QED
  BY <1>1, <1>2, <1>3, <1>4, <1>5, CapacityAssumption DEF OverrunAccounted, Size

-------------------------------------------------------------------------------
(* Steps that leave the worker and the queue alone                         *)

Frame == <<lastDelivered, pending, wpc, cur, wid, victim, admitted, issued>>

LEMMA QuietStep ==
  ASSUME IInv, TypeOK', UNCHANGED Frame,
         up' # "up" => wpc = "idle",
         entries' \subseteq entries,
         members' = members \/ members' = {},
         wpc = "forget" => index' \subseteq index
  PROVE  IInv'
<1> USE DEF IInv, Frame
<1>1. IsFiniteSet(members') /\ OverrunAccounted'
  BY OverrunKept DEF Owing
<1>2. WorkerInStream'
  BY DEF WorkerInStream
<1>3. AdmittedInOrder'
  BY DEF AdmittedInOrder
<1>4. IdsAreFresh'
  BY DEF IdsAreFresh
<1>5. EvictionProgress'
  <2>1. CASE members' = members
    BY <2>1 DEF EvictionProgress, WithinCapacity, Size
  <2>2. CASE members' = {}
    <3>1. WithinCapacity'
      BY <2>2, FS_EmptySet, CapacityAssumption DEF WithinCapacity, Size
    <3> QED BY <2>2, <3>1 DEF EvictionProgress
  <2> QED BY <2>1, <2>2
<1>6. DeliveredAccounted'
  BY DEF DeliveredAccounted
<1> QED
  BY <1>1, <1>2, <1>3, <1>4, <1>5, <1>6

LEMMA QueryKeeps ==
  ASSUME IInv, TypeOK', NEW c \in Clients,
         QueryStep(c) \/ \E p \in Prompts : Ask(c, p)
  PROVE  IInv'
<1>1. /\ UNCHANGED <<entries, members, index, up>>
      /\ UNCHANGED Frame
  BY DEF QueryStep, Ask, Search, Load, Hit, Miss, Enqueue, XAdd, Frame,
         storeVars, indexVars, queueVars, workerVars, histVars
<1>2. up' # "up" => wpc = "idle"
  BY <1>1 DEF IInv, WorkerInStream
<1> QED
  BY <1>1, <1>2, QuietStep

LEMMA FlushKeeps ==
  ASSUME IInv, TypeOK', RequestFlush \/ FlushStep
  PROVE  IInv'
<1>1. UNCHANGED up /\ UNCHANGED Frame
  BY DEF RequestFlush, FlushStep, FlushIndex, FlushList, FlushDel, FlushTracked,
         FlushStats, FlushVectors, Frame, indexVars, queueVars, workerVars, histVars
<1>2. /\ entries' \subseteq entries
      /\ members' = members \/ members' = {}
  BY DEF RequestFlush, FlushStep, FlushIndex, FlushList, FlushDel, FlushTracked,
         FlushStats, DelListed, storeVars
<1>3. index' \subseteq index
  BY DEF RequestFlush, FlushStep, FlushIndex, FlushList, FlushDel, FlushTracked,
         FlushStats, FlushVectors, indexVars
<1>4. up' # "up" => wpc = "idle"
  BY <1>1 DEF IInv, WorkerInStream
<1> QED
  BY <1>1, <1>2, <1>3, <1>4, QuietStep

(* Only the rebuild at start-up adds to the index, before the worker runs. *)
LEMMA StartupKeeps ==
  ASSUME IInv, TypeOK', StartupStep \/ RestartIndex
  PROVE  IInv'
<1>1. UNCHANGED <<entries, members>> /\ UNCHANGED Frame
  BY DEF StartupStep, ListEntries, Rebuild, RebuildVectors, RestartIndex,
         FlushVectors, Frame, storeVars, indexVars, queueVars, workerVars,
         procVars, histVars
<1>2. \/ wpc = "idle"
      \/ up' = up /\ index' \subseteq index
  BY DEF IInv, WorkerInStream, StartupStep, ListEntries, Rebuild, RestartIndex,
         FlushVectors, procVars
<1>3. up' # "up" => wpc = "idle"
  BY <1>2 DEF IInv, WorkerInStream
<1> QED
  BY <1>1, <1>2, <1>3, QuietStep

-------------------------------------------------------------------------------
(* Steps that end a job, and the crash                                     *)

(* The worker leaves a job behind: it stays pending unless it was admitted *)
(* and the cache was seen within its capacity.                             *)
LEMMA EndJobKeeps ==
  ASSUME IInv, TypeOK', wpc # "idle", EndJob,
         UNCHANGED <<up, lastDelivered, admitted>>,
         entries' \subseteq entries, members' \subseteq members,
         issued \subseteq issued',
         \/ pending' = pending
         \/ wpc = "ack" /\ pending' = pending \ {cur} /\ members' = members
  PROVE  IInv'
<1> USE DEF IInv, EndJob
<1>1. cur \in Nat /\ lastDelivered \in Nat /\ cur <= lastDelivered
  BY DEF TypeOK, WorkerTypeOK, QueueTypeOK, WorkerInStream
<1>2. WorkerInStream'
  BY <1>1 DEF WorkerInStream
<1>3. AdmittedInOrder'
  BY <1>1 DEF AdmittedInOrder, TypeOK
<1>4. IdsAreFresh'
  BY DEF IdsAreFresh
<1>5. EvictionProgress'
  BY DEF EvictionProgress
<1>6. DeliveredAccounted'
  BY DEF DeliveredAccounted, AdmittedInOrder
<1>7. IsFiniteSet(members') /\ OverrunAccounted'
  <2>1. CASE pending' = pending
    BY <2>1, OverrunKept DEF Owing
  <2>2. CASE wpc = "ack" /\ members' = members
    <3>1. WithinCapacity'
      BY <2>2 DEF EvictionProgress, WithinCapacity, Size
    <3>2. Cardinality(members') \in Nat /\ Cardinality(Owing') \in Nat
      BY <2>2, FS_CardinalityType, OwingFinite
    <3> QED BY <2>2, <3>1, <3>2, CapacityAssumption
            DEF OverrunAccounted, WithinCapacity, Size
  <2> QED BY <2>1, <2>2
<1> QED
  BY <1>2, <1>3, <1>4, <1>5, <1>6, <1>7

LEMMA CrashKeeps ==
  ASSUME IInv, TypeOK', Crash
  PROVE  IInv'
<1> USE DEF IInv, Crash, FreshMemory, storeVars, indexVars, queueVars, histVars
<1>1. cur \in Nat /\ lastDelivered \in Nat /\ cur <= lastDelivered + 1
  BY DEF TypeOK, WorkerTypeOK, QueueTypeOK, WorkerInStream
<1>2. WorkerInStream'
  BY <1>1 DEF WorkerInStream
<1>3. AdmittedInOrder'
  <2>1. \A j \in admitted : j \in Nat /\ j <= lastDelivered
    BY <1>1 DEF AdmittedInOrder, WorkerInStream, TypeOK
  <2> QED BY <1>1, <2>1 DEF AdmittedInOrder
<1>4. IdsAreFresh' /\ EvictionProgress' /\ DeliveredAccounted'
  BY DEF IdsAreFresh, EvictionProgress, DeliveredAccounted
<1>5. IsFiniteSet(members') /\ OverrunAccounted'
  BY OverrunKept DEF Owing
<1> QED
  BY <1>2, <1>3, <1>4, <1>5

-------------------------------------------------------------------------------
(* The steps of a job                                                      *)

LEMMA FetchKeeps ==
  ASSUME IInv, TypeOK', Fetch
  PROVE  IInv'
<1> USE DEF IInv, Fetch, XReadGroup
<1>1. /\ cur = lastDelivered + 1
      /\ lastDelivered \in Nat
      /\ BatchEnd \in Nat
      /\ lastDelivered < BatchEnd
  <2>1. QueueTypeOK(Prompts)
    BY DEF TypeOK
  <2> QED BY <2>1, BatchEndType DEF QueueTypeOK, WorkerInStream
<1>2. \/ wpc' = "upsert" /\ cur' = lastDelivered + 1
      \/ wpc' = "idle" /\ cur' = BatchEnd + 1
  OBVIOUS
<1>3. WorkerInStream'
  BY <1>1, <1>2 DEF WorkerInStream
<1>4. AdmittedInOrder'
  <2>1. \A j \in admitted : j \in Nat /\ j < cur
    BY DEF AdmittedInOrder, TypeOK
  <2>2. \A j \in admitted' : j < cur'
    BY <1>1, <1>2, <2>1 DEF histVars
  <2> QED BY <1>2, <2>2 DEF AdmittedInOrder
<1>5. IdsAreFresh' /\ EvictionProgress'
  BY <1>2 DEF IdsAreFresh, EvictionProgress, storeVars, indexVars
<1>6. DeliveredAccounted'
  BY <1>1 DEF DeliveredAccounted, histVars
<1>7. IsFiniteSet(members') /\ OverrunAccounted'
  BY OverrunKept DEF Owing, storeVars, histVars
<1> QED
  BY <1>3, <1>4, <1>5, <1>6, <1>7

LEMMA UpsertKeeps ==
  ASSUME IInv, TypeOK', Upsert
  PROVE  IInv'
<1>1. CASE EndJob
  BY <1>1, EndJobKeeps DEF Upsert, UpsertVector, storeVars, queueVars, indexVars
<1>2. ASSUME NEW id \in Ids, UpsertVector(id), wpc' = "save", wid' = id,
             UNCHANGED <<cur, victim>>
      PROVE  IInv'
  <2> USE <1>2 DEF IInv, Upsert, UpsertVector, storeVars, queueVars
  <2>1. WorkerInStream' /\ AdmittedInOrder'
    BY DEF WorkerInStream, AdmittedInOrder
  <2>2. IdsAreFresh' /\ EvictionProgress' /\ DeliveredAccounted'
    BY DEF IdsAreFresh, EvictionProgress, DeliveredAccounted
  <2>3. IsFiniteSet(members') /\ OverrunAccounted'
    BY OverrunKept DEF Owing
  <2> QED BY <2>1, <2>2, <2>3
<1>3. \/ EndJob
      \/ \E id \in Ids : /\ UpsertVector(id)
                        /\ wpc' = "save"
                        /\ wid' = id
                        /\ UNCHANGED <<cur, victim>>
  BY DEF Upsert, FailJob
<1> QED
  BY <1>1, <1>2, <1>3

(* The one step that adds to the cache: its job is owed from then on.      *)
LEMMA SaveKeeps ==
  ASSUME IInv, TypeOK', Save
  PROVE  IInv'
<1> USE DEF IInv, Save, Goto, SaveEntry, queueVars, indexVars
<1>1. /\ UNCHANGED <<up, cur, wid, victim, lastDelivered, pending, issued>>
      /\ \/ wpc' = "insert" /\ admitted' = admitted \cup {cur}
         \/ wpc' = "compensate" /\ admitted' \in {admitted, admitted \cup {cur}}
  OBVIOUS
<1>2. cur \in Nat /\ lastDelivered \in Nat /\ cur \in pending /\ cur \notin admitted
  BY DEF TypeOK, WorkerTypeOK, QueueTypeOK, WorkerInStream, AdmittedInOrder
<1>3. WorkerInStream' /\ AdmittedInOrder'
  BY <1>1, <1>2 DEF WorkerInStream, AdmittedInOrder
<1>4. IdsAreFresh' /\ EvictionProgress' /\ DeliveredAccounted'
  BY <1>1 DEF IdsAreFresh, EvictionProgress, DeliveredAccounted, storeVars
<1>5. IsFiniteSet(members') /\ OverrunAccounted'
  <2>1. CASE UNCHANGED <<storeVars, admitted>>
    BY <2>1, OverrunKept DEF Owing, storeVars
  <2>2. CASE SaveEntry(wid) /\ admitted' = admitted \cup {cur}
    <3>1. /\ members' = members \cup {wid} /\ wid \notin members
          /\ Owing' = Owing \cup {cur} /\ cur \notin Owing
      BY <1>2, <2>2 DEF Owing, IdsAreFresh
    <3>2. /\ IsFiniteSet(members')
          /\ Cardinality(members') = Cardinality(members) + 1
      BY <3>1, FS_AddElement
    <3>3. IsFiniteSet(Owing)
      <4>1. Owing \in SUBSET (1 .. lastDelivered)
        BY DEF Owing, TypeOK, QueueTypeOK
      <4> QED BY <1>2, <4>1, PositionsFinite
    <3>4. Cardinality(Owing') = Cardinality(Owing) + 1
      BY <3>1, <3>3, FS_AddElement
    <3>5. Cardinality(members) \in Nat /\ Cardinality(Owing) \in Nat
      BY <3>3, FS_CardinalityType
    <3> QED BY <3>2, <3>4, <3>5, CapacityAssumption DEF OverrunAccounted, Size
  <2> QED BY <2>1, <2>2
<1> QED
  BY <1>3, <1>4, <1>5

(* From OnInsert on, a step of the worker only has its own progress to     *)
(* show.                                                                   *)
Enforcing == {"insert", "size", "victim", "evictStore", "evictIndex", "forget", "ack"}

LEMMA EnforceKeeps ==
  ASSUME IInv, TypeOK', wpc \in Enforcing, wpc' \in Enforcing,
         UNCHANGED <<up, cur, lastDelivered, pending, admitted, issued>>,
         members' \subseteq members, EvictionProgress'
  PROVE  IInv'
<1> USE DEF IInv, Enforcing
<1>1. WorkerInStream' /\ AdmittedInOrder' /\ IdsAreFresh' /\ DeliveredAccounted'
  BY DEF WorkerInStream, AdmittedInOrder, IdsAreFresh, DeliveredAccounted
<1>2. IsFiniteSet(members') /\ OverrunAccounted'
  BY OverrunKept DEF Owing
<1> QED
  BY <1>1, <1>2

LEMMA WorkerKeeps ==
  ASSUME IInv, TypeOK', WorkerStep
  PROVE  IInv'
<1> USE DEF FailJob, Goto, storeVars, indexVars, queueVars, histVars, Enforcing
<1>1. CASE Compensate
  BY <1>1, EndJobKeeps DEF Compensate, DeleteVector, DeleteNotFound
<1>2. CASE Insert
  <2>1. EvictionProgress'
    BY <1>2 DEF Insert, EvictionProgress
  <2> QED BY <1>2, <2>1, EnforceKeeps DEF Insert
<1>3. CASE CheckSize
  <2>1. CASE EndJob
    BY <1>3, <2>1, EndJobKeeps DEF CheckSize
  <2>2. CASE wpc' = (IF WithinCapacity THEN "ack" ELSE "victim") /\ UNCHANGED cur
    <3>1. EvictionProgress'
      BY <1>3, <2>2 DEF CheckSize, EvictionProgress, WithinCapacity, Size
    <3> QED BY <1>3, <2>2, <3>1, EnforceKeeps DEF CheckSize
  <2> QED BY <1>3, <2>1, <2>2 DEF CheckSize
<1>4. CASE PickVictim
  <2>1. CASE EndJob
    BY <1>4, <2>1, EndJobKeeps DEF PickVictim
  <2>2. CASE wpc' = "evictStore" /\ UNCHANGED cur
    <3>1. EvictionProgress'
      BY <1>4, <2>2 DEF PickVictim, EvictionProgress, WithinCapacity, Size, IInv
    <3> QED BY <1>4, <2>2, <3>1, EnforceKeeps DEF PickVictim
  <2> QED BY <1>4, <2>1, <2>2 DEF PickVictim
<1>5. CASE EvictStore
  <2>1. CASE EndJob
    BY <1>5, <2>1, EndJobKeeps DEF EvictStore, DeleteEntry
  <2>2. CASE DeleteEntry(victim) /\ wpc' = "evictIndex" /\ UNCHANGED <<cur, victim>>
    <3>1. EvictionProgress'
      BY <1>5, <2>2 DEF DeleteEntry, EvictionProgress
    <3> QED BY <1>5, <2>2, <3>1, EnforceKeeps DEF EvictStore, DeleteEntry
  <2> QED BY <1>5, <2>1, <2>2 DEF EvictStore
<1>6. CASE EvictIndex
  <2>1. CASE EndJob
    BY <1>6, <2>1, EndJobKeeps DEF EvictIndex, DeleteVector, DeleteNotFound
  <2>2. CASE DeleteVector(victim) /\ wpc' = "forget" /\ UNCHANGED <<cur, victim>>
    <3>1. EvictionProgress'
      BY <1>6, <2>2 DEF EvictIndex, DeleteVector, EvictionProgress, IInv
    <3> QED BY <1>6, <2>2, <3>1, EnforceKeeps DEF EvictIndex, DeleteVector
  <2> QED BY <1>6, <2>1, <2>2 DEF EvictIndex
<1>7. CASE Forget
  <2>1. EvictionProgress'
    BY <1>7 DEF Forget, EvictionProgress
  <2> QED BY <1>7, <2>1, EnforceKeeps DEF Forget
<1>8. CASE Ack
  <2>1. pending' = pending \/ pending' = pending \ {cur}
    BY <1>8 DEF Ack, XAck
  <2> QED BY <1>8, <2>1, EndJobKeeps DEF Ack, XAck
<1> QED
  BY <1>1, <1>2, <1>3, <1>4, <1>5, <1>6, <1>7, <1>8, FetchKeeps, UpsertKeeps,
     SaveKeeps DEF WorkerStep, JobStep

-------------------------------------------------------------------------------
(* The invariant, and the invariants it contains                           *)

LEMMA InvariantInit == Init => IInv
<1> SUFFICES ASSUME Init PROVE IInv
  OBVIOUS
<1>1. TypeOK
  BY TypeInit
<1>2. members = {} /\ IsFiniteSet(members) /\ Cardinality(members) = 0
  BY FS_EmptySet DEF Init, StoreInit
<1>3. Owing = {} /\ Cardinality(Owing) = 0
  BY FS_EmptySet DEF Init, Owing
<1>4. WorkerInStream /\ AdmittedInOrder
  BY DEF Init, QueueInit, WorkerInStream, AdmittedInOrder
<1>5. IdsAreFresh /\ EvictionProgress
  BY <1>2 DEF Init, IdsAreFresh, EvictionProgress
<1>6. DeliveredAccounted
  BY DEF Init, QueueInit, DeliveredAccounted
<1>7. OverrunAccounted
  BY <1>2, <1>3, CapacityAssumption DEF OverrunAccounted, Size
<1> QED
  BY <1>1, <1>2, <1>4, <1>5, <1>6, <1>7 DEF IInv

LEMMA StutterKeeps ==
  ASSUME IInv, TypeOK', UNCHANGED vars
  PROVE  IInv'
BY QuietStep DEF IInv, WorkerInStream, vars, procVars, histVars, storeVars,
   indexVars, queueVars, Frame

LEMMA InvariantStep == IInv /\ [Next]_vars => IInv'
<1> SUFFICES ASSUME IInv, [Next]_vars PROVE IInv'
  OBVIOUS
<1>1. TypeOK'
  BY TypeStep DEF IInv
<1> QED
  BY <1>1, QueryKeeps, WorkerKeeps, FlushKeeps, StartupKeeps, CrashKeeps, StutterKeeps
  DEF Next, Poll

(* IInv holds in every reachable state.                                    *)
THEOREM InvariantHolds == Spec => []IInv
BY InvariantInit, InvariantStep, PTL DEF Spec

(* Whatever fails, in any order: a job the stream delivered is on the      *)
(* pending list until its answer was saved (the error paths of updateCache *)
(* and the acknowledgement in RedisStreamQueue.Run).                       *)
THEOREM NoJobLost == Spec => []DeliveredAccounted
<1>1. IInv => DeliveredAccounted
  BY DEF IInv
<1> QED
  BY <1>1, InvariantHolds, PTL

(* Whatever fails, the id set of Redis exceeds CACHE_CAPACITY by no more   *)
(* than the saved jobs that are still pending (enforceCapacity).           *)
THEOREM OverrunBounded == Spec => []OverrunAccounted
<1>1. IInv => OverrunAccounted
  BY DEF IInv
<1> QED
  BY <1>1, InvariantHolds, PTL

-------------------------------------------------------------------------------
(* Evictions                                                               *)

LEMMA EvictionStep ==
  ASSUME IInv, [Next]_vars, stats'.evictions > stats.evictions
  PROVE  victim \notin entries' \cup members' \cup index' \cup tracked'
<1> USE DEF IInv, TypeOK, Counters
<1>1. stats \in Counters
  BY DEF IInv, TypeOK
<1>2. stats' # stats
  BY <1>1
<1>3. Forget
  <2>1. ASSUME NEW c \in Clients, QueryStep(c) \/ \E p \in Prompts : Ask(c, p)
        PROVE  FALSE
    <3>1. stats' = stats \/ Count("hits") \/ Count("misses")
      BY <2>1 DEF QueryStep, Ask, Search, Load, Hit, Miss, Enqueue
    <3>2. Count("hits") \/ Count("misses") => stats'.evictions = stats.evictions
      BY <1>1 DEF Count, Counters
    <3> QED BY <1>1, <3>1, <3>2 DEF Counters
  <2>2. ASSUME RequestFlush \/ FlushStep PROVE FALSE
    BY <1>1, <2>2 DEF RequestFlush, FlushStep, FlushIndex, FlushList, FlushDel,
       FlushTracked, FlushStats, NoCounts
  <2>3. ASSUME StartupStep \/ RestartIndex \/ Crash PROVE FALSE
    BY <1>1, <2>3 DEF StartupStep, ListEntries, Rebuild, RestartIndex, Crash,
       FreshMemory, NoCounts, procVars
  <2>4. ASSUME WorkerStep PROVE Forget
    BY <1>2, <2>4 DEF WorkerStep, JobStep, Fetch, Upsert, Save, Compensate,
       Insert, CheckSize, PickVictim, EvictStore, EvictIndex, Ack
  <2>5. ~UNCHANGED vars
    BY <1>2 DEF vars, procVars
  <2> QED BY <2>1, <2>2, <2>3, <2>4, <2>5 DEF Next, Poll
<1> QED
  BY <1>3 DEF Forget, OnDelete, EvictionProgress, storeVars, indexVars

(* Whatever fails, an eviction is counted only when its victim is gone     *)
(* from the store, the id set, the index and the policy (enforceCapacity,  *)
(* the order of its steps).                                                *)
THEOREM EvictionsReal == Spec => EvictionsAreReal
<1>1. IInv /\ [Next]_vars =>
        [ stats'.evictions > stats.evictions =>
            victim \notin entries' \cup members' \cup index' \cup tracked' ]_vars
  BY EvictionStep
<1> QED
  BY <1>1, InvariantHolds, PTL DEF Spec, EvictionsAreReal

-------------------------------------------------------------------------------
(* Refinement of SemanticCache                                             *)

LEMMA FitsWithin == SC!Fits <=> WithinCapacity
<1>1. SC!Cardinality(members) = Cardinality(members)
  BY DEF SC!Cardinality, Cardinality
<1> QED
  BY <1>1 DEF SC!Fits, WithinCapacity, Size

LEMMA CacheStep ==
  ASSUME IInv, IInv', [Next]_vars
  PROVE  [SC!CacheNext]_(SC!cacheVars)
<1> USE DEF SC!cacheVars
<1>1. ASSUME NEW c \in Clients, QueryStep(c) \/ \E p \in Prompts : Ask(c, p)
      PROVE  UNCHANGED SC!cacheVars
  BY <1>1 DEF QueryStep, Ask, Search, Load, Hit, Miss, Enqueue, XAdd, Owing,
     storeVars, queueVars, histVars
<1>2. ASSUME RequestFlush \/ FlushStep
      PROVE  UNCHANGED SC!cacheVars \/ SC!Purge
  BY <1>2 DEF RequestFlush, FlushStep, FlushIndex, FlushList, FlushDel,
     FlushTracked, FlushStats, DelListed, SC!Purge, Owing, storeVars, queueVars,
     histVars
<1>3. ASSUME StartupStep \/ RestartIndex \/ Crash \/ UNCHANGED vars
      PROVE  UNCHANGED SC!cacheVars
  BY <1>3 DEF StartupStep, ListEntries, Rebuild, RestartIndex, Crash, Owing,
     vars, storeVars, queueVars, histVars
<1>4. ASSUME Fetch
      PROVE  UNCHANGED SC!cacheVars
  <2>1. Owing' = Owing
    BY <1>4, BatchEndType DEF Fetch, XReadGroup, Owing, IInv, TypeOK, QueueTypeOK,
       AdmittedInOrder, WorkerInStream, histVars
  <2> QED BY <1>4, <2>1 DEF Fetch, storeVars, histVars
<1>5. ASSUME Save
      PROVE  UNCHANGED SC!cacheVars \/ SC!CacheNext
  <2>1. CASE UNCHANGED <<storeVars, admitted>>
    BY <1>5, <2>1 DEF Save, Owing, storeVars, queueVars
  <2>2. CASE SaveEntry(wid) /\ admitted' = admitted \cup {cur}
    <3>1. wid \in Ids \ members /\ cur \in pending \ admitted /\ pending' = pending
      BY <1>5 DEF Save, IInv, TypeOK, WorkerTypeOK, QueueTypeOK, WorkerInStream,
         AdmittedInOrder, IdsAreFresh, queueVars
    <3>2. SC!Admit(wid, cur) /\ cur \in admitted'
      BY <2>2, <3>1 DEF SC!Admit, SaveEntry, Owing
    <3> QED BY <3>1, <3>2 DEF SC!CacheNext
  <2> QED BY <1>5, <2>1, <2>2 DEF Save
<1>6. ASSUME EvictStore
      PROVE  UNCHANGED SC!cacheVars \/ SC!CacheNext
  <2>1. UNCHANGED <<admitted, Owing>>
    BY <1>6 DEF EvictStore, Owing, queueVars, histVars
  <2>2. CASE UNCHANGED members
    BY <2>1, <2>2
  <2>3. CASE DeleteEntry(victim) /\ victim \in members
    <3>1. SC!Evict(victim)
      BY <1>6, <2>1, <2>3, FitsWithin DEF EvictStore, IInv, EvictionProgress,
         DeleteEntry, SC!Evict
    <3> QED BY <2>3, <3>1 DEF SC!CacheNext
  <2> QED BY <1>6, <2>2, <2>3 DEF EvictStore, DeleteEntry, storeVars
<1>7. ASSUME Ack
      PROVE  UNCHANGED SC!cacheVars \/ SC!CacheNext
  <2>1. UNCHANGED <<members, admitted>>
    BY <1>7 DEF Ack, storeVars, histVars
  <2>2. CASE XAck(cur)
    <3>1. cur \in Owing /\ WithinCapacity
      BY <1>7 DEF Ack, IInv, TypeOK, WorkerTypeOK, QueueTypeOK, WorkerInStream,
         AdmittedInOrder, EvictionProgress, Owing
    <3>2. SC!Settle(cur)
      BY <2>1, <2>2, <3>1, FitsWithin DEF SC!Settle, XAck, Owing
    <3> QED BY <3>1, <3>2 DEF SC!CacheNext
  <2>3. CASE UNCHANGED queueVars
    BY <2>1, <2>3 DEF Owing, queueVars
  <2> QED BY <1>7, <2>2, <2>3 DEF Ack
<1>8. ASSUME \/ Upsert \/ Compensate \/ Insert \/ CheckSize \/ PickVictim
             \/ EvictIndex \/ Forget
      PROVE  UNCHANGED SC!cacheVars
  BY <1>8 DEF Upsert, Compensate, Insert, CheckSize, PickVictim, EvictIndex,
     Forget, Owing, storeVars, queueVars, histVars
<1>9. SC!Purge => SC!CacheNext
  BY DEF SC!CacheNext
<1> QED
  BY <1>1, <1>2, <1>3, <1>4, <1>5, <1>6, <1>7, <1>8, <1>9
  DEF Next, Poll, WorkerStep, JobStep

(* The orchestrator implements SemanticCache, whatever fails: admissions   *)
(* happen once, entries leave only over capacity or by a flush, and a job  *)
(* is settled only while the cache is within its capacity.                 *)
THEOREM CacheImplemented == Spec => ImplementsCache
<1>1. Init => SC!CacheInit
  BY DEF Init, StoreInit, SC!CacheInit, Owing
<1>2. IInv /\ IInv' /\ [Next]_vars => [SC!CacheNext]_(SC!cacheVars)
  BY CacheStep
<1> QED
  BY <1>1, <1>2, InvariantHolds, PTL DEF Spec, ImplementsCache, SC!CacheSpec

-------------------------------------------------------------------------------
(* Agreement of the components                                             *)

(* ComponentsAgree is not inductive.  What it leaves out: what the worker  *)
(* knows of the id it has, and that store, id set and policy are the same  *)
(* when the index is rebuilt from them.  It is lost with the first flush,  *)
(* restart of the index or lost reply, and by nothing else.                *)
Calm == spent["flush"] = 0 /\ spent["indexRestart"] = 0

Unspoilt ==
  /\ Calm
  /\ spent["fault"] = 0 \/ Faults \subseteq Components \X {"refused"}

Agreement ==
  /\ fpc = "idle"
  /\ entries = members
  /\ up = "rebuilding" => tracked = members
  /\ tracked \subseteq issued
  /\ StoredIsTracked
  /\ TrackedIsIndexed
  /\ wpc \in {"save", "compensate"} => wid \in issued \ (members \cup tracked)
  /\ wpc \in {"save", "insert"} => wid \in index \cap issued
  /\ wpc \in {"evictStore", "evictIndex", "forget"} => victim \in tracked
  /\ wpc = "victim" => ~WithinCapacity

(* What a behaviour has spent, it has spent for good.                      *)
LEMMA SpentOnce ==
  ASSUME TypeOK, [Next]_vars
  PROVE  spent' = spent \/ \E e \in Events : Spend(e)
<1>1. "query" \in Events /\ "flush" \in Events /\ "fault" \in Events
      /\ "crash" \in Events /\ "indexRestart" \in Events
  BY DEF Events
<1>2. ASSUME NEW c \in Clients, QueryStep(c) \/ \E p \in Prompts : Ask(c, p)
      PROVE  spent' = spent \/ \E e \in Events : Spend(e)
  BY <1>1, <1>2 DEF QueryStep, Ask, Search, Load, Hit, Miss, Enqueue, Answered,
     Refused, ReplyLost
<1>3. ASSUME Fetch \/ Upsert \/ Save \/ Compensate \/ Insert \/ CheckSize
      PROVE  spent' = spent \/ \E e \in Events : Spend(e)
  BY <1>1, <1>3 DEF Fetch, Upsert, Save, Compensate, Insert, CheckSize, Answered,
     Refused, ReplyLost
<1>4. ASSUME PickVictim \/ EvictStore \/ EvictIndex \/ Forget \/ Ack
      PROVE  spent' = spent \/ \E e \in Events : Spend(e)
  BY <1>1, <1>4 DEF PickVictim, EvictStore, EvictIndex, Forget, Ack, Answered,
     Refused, ReplyLost
<1>5. ASSUME RequestFlush \/ FlushStep
      PROVE  spent' = spent \/ \E e \in Events : Spend(e)
  BY <1>1, <1>5 DEF RequestFlush, FlushStep, FlushIndex, FlushList, FlushDel,
     FlushTracked, FlushStats, Answered, Refused, ReplyLost
<1>6. ASSUME StartupStep \/ Crash \/ RestartIndex
      PROVE  spent' = spent \/ \E e \in Events : Spend(e)
  BY <1>1, <1>6 DEF StartupStep, ListEntries, Rebuild, Crash, RestartIndex,
     Answered, Refused, ReplyLost
<1> QED
  BY <1>2, <1>3, <1>4, <1>5, <1>6 DEF Next, Poll, WorkerStep, JobStep, vars

LEMMA SpentGrows ==
  ASSUME TypeOK, [Next]_vars, NEW e \in Events
  PROVE  spent[e] \in Nat /\ spent'[e] \in Nat /\ spent[e] <= spent'[e]
<1>1. spent \in [Events -> Nat]
  BY DEF TypeOK
<1>2. spent' = spent \/ \E k \in Events : spent' = [spent EXCEPT ![k] = @ + 1]
  BY SpentOnce DEF Spend
<1> QED
  BY <1>1, <1>2

LEMMA SpentEvent ==
  ASSUME TypeOK, NEW e \in Events, Spend(e)
  PROVE  spent'[e] # 0
BY DEF TypeOK, Spend

LEMMA UnspoiltBefore ==
  ASSUME TypeOK, [Next]_vars
  PROVE  /\ Calm' => Calm
         /\ Unspoilt' => Unspoilt
         /\ Undisturbed' => Undisturbed
<1>1. "flush" \in Events /\ "indexRestart" \in Events
      /\ "fault" \in Events /\ "crash" \in Events
  BY DEF Events
<1>2. \A e \in Events : spent'[e] = 0 => spent[e] = 0
  BY SpentGrows
<1> QED
  BY <1>1, <1>2 DEF Calm, Unspoilt, Undisturbed

(* What did not happen in a step after which nothing is spoilt.            *)
LEMMA UnspoiltStep ==
  ASSUME TypeOK
  PROVE  /\ Calm' => ~Spend("flush") /\ ~Spend("indexRestart")
         /\ Unspoilt' => \A k : ~ReplyLost(k)
         /\ Undisturbed' => ~Spend("crash") /\ \A k : ~ReplyLost(k) /\ ~Refused(k)
<1>1. "flush" \in Events /\ "indexRestart" \in Events
      /\ "fault" \in Events /\ "crash" \in Events
  BY DEF Events
<1>2. \A e \in Events : Spend(e) => spent'[e] # 0
  BY SpentEvent
<1>3. \A k : <<k, "replyLost">> \notin Components \X {"refused"}
  OBVIOUS
<1> QED
  BY <1>1, <1>2, <1>3 DEF Calm, Unspoilt, Undisturbed, ReplyLost, Refused

AgreementVars == <<entries, members, index, issued, tracked, up, wpc, wid, victim, fpc>>

LEMMA AgreementKept ==
  ASSUME Agreement, UNCHANGED AgreementVars
  PROVE  Agreement'
BY DEF Agreement, AgreementVars, StoredIsTracked, TrackedIsIndexed, WithinCapacity, Size

LEMMA AgreementQuery ==
  ASSUME NEW c \in Clients, QueryStep(c) \/ \E p \in Prompts : Ask(c, p)
  PROVE  UNCHANGED AgreementVars
BY DEF QueryStep, Ask, Search, Load, Hit, Miss, Enqueue, OnHit, AgreementVars,
       storeVars, indexVars, queueVars, workerVars, flushVars, histVars

LEMMA AgreementStart ==
  ASSUME IInv, Agreement, StartupStep
  PROVE  Agreement'
<1> USE DEF Agreement, StoredIsTracked, TrackedIsIndexed, IInv, WorkerInStream, IdsAreFresh,
            storeVars, indexVars, workerVars, flushVars
<1>1. CASE ListEntries
  BY <1>1 DEF ListEntries, Listed
<1>2. CASE Rebuild
  BY <1>2 DEF Rebuild, RebuildVectors
<1> QED
  BY <1>1, <1>2 DEF StartupStep

LEMMA AgreementCrash ==
  ASSUME Agreement, Crash
  PROVE  Agreement'
BY DEF Agreement, StoredIsTracked, TrackedIsIndexed, Crash, FreshMemory, storeVars, indexVars

(* The worker takes up a job, up to OnInsert.                              *)
LEMMA AgreementAdmit ==
  ASSUME IInv, Agreement, \A k : ~ReplyLost(k), Upsert \/ Save \/ Compensate \/ Insert
  PROVE  Agreement'
<1>0. up = "up" /\ up' = "up" /\ fpc' = "idle"
  BY DEF IInv, WorkerInStream, Agreement, Upsert, Save, Compensate, Insert, flushVars
<1>1. CASE Upsert
  BY <1>0, <1>1 DEF Agreement, StoredIsTracked, TrackedIsIndexed, Upsert, UpsertVector, EndJob,
     FailJob, storeVars, indexVars, IInv, IdsAreFresh
<1>2. CASE Save
  BY <1>0, <1>2 DEF Agreement, StoredIsTracked, TrackedIsIndexed, Save, SaveEntry, Goto,
     storeVars, indexVars, IInv, IdsAreFresh
<1>3. CASE Compensate
  BY <1>0, <1>3 DEF Agreement, StoredIsTracked, TrackedIsIndexed, Compensate, DeleteVector,
     DeleteNotFound, EndJob, FailJob, storeVars, indexVars
<1>4. CASE Insert
  BY <1>0, <1>4 DEF Agreement, StoredIsTracked, TrackedIsIndexed, Insert, OnInsert,
     storeVars, indexVars, IInv, IdsAreFresh
<1> QED
  BY <1>1, <1>2, <1>3, <1>4

(* The worker enforces the capacity.                                       *)
LEMMA AgreementEnforce ==
  ASSUME IInv, Agreement, \A k : ~ReplyLost(k),
         CheckSize \/ PickVictim \/ EvictStore \/ EvictIndex \/ Forget
  PROVE  Agreement'
<1>0. up = "up" /\ up' = "up" /\ fpc' = "idle"
  BY DEF IInv, WorkerInStream, Agreement, CheckSize, PickVictim, EvictStore, EvictIndex,
         Forget, flushVars
<1> USE DEF Agreement, StoredIsTracked, TrackedIsIndexed, WithinCapacity, Size,
            EndJob, FailJob, Goto, storeVars, indexVars
<1>1. CASE CheckSize
  BY <1>0, <1>1 DEF CheckSize
<1>2. CASE PickVictim
  BY <1>0, <1>2 DEF PickVictim, Victim
<1>3. CASE EvictStore
  BY <1>0, <1>3 DEF EvictStore, DeleteEntry
<1>4. CASE EvictIndex
  BY <1>0, <1>4 DEF EvictIndex, DeleteVector, DeleteNotFound
<1>5. CASE Forget
  <2>1. victim \notin members
    BY <1>5 DEF Forget, IInv, EvictionProgress
  <2> QED BY <1>0, <1>5, <2>1 DEF Forget, OnDelete
<1> QED
  BY <1>1, <1>2, <1>3, <1>4, <1>5

LEMMA AgreementStep ==
  ASSUME IInv, Unspoilt => Agreement, [Next]_vars, Unspoilt'
  PROVE  Agreement'
<1>1. TypeOK /\ Agreement /\ Calm'
  BY UnspoiltBefore DEF IInv, Unspoilt
<1>2. /\ ~Spend("flush") /\ ~Spend("indexRestart")
      /\ \A k : ~ReplyLost(k)
  BY <1>1, UnspoiltStep
<1>3. ~RequestFlush /\ ~RestartIndex /\ ~FlushStep
  BY <1>1, <1>2 DEF RequestFlush, RestartIndex, FlushStep, FlushIndex, FlushList,
     FlushDel, FlushTracked, FlushStats, Agreement
<1>4. CASE Fetch
  BY <1>1, <1>2, <1>4 DEF Fetch, Agreement, StoredIsTracked, TrackedIsIndexed, storeVars,
     indexVars, flushVars
<1>5. CASE Ack
  BY <1>1, <1>5 DEF Ack, EndJob, Agreement, StoredIsTracked, TrackedIsIndexed, storeVars,
     indexVars, flushVars
<1>6. UNCHANGED vars => UNCHANGED AgreementVars
  BY DEF vars, AgreementVars, storeVars, indexVars, procVars
<1> QED
  BY <1>1, <1>2, <1>3, <1>4, <1>5, <1>6, AgreementKept, AgreementQuery, AgreementStart,
     AgreementCrash, AgreementAdmit, AgreementEnforce
  DEF Next, Poll, WorkerStep, JobStep

LEMMA AgreementInit == Init => Agreement
BY DEF Init, StoreInit, IndexInit, PolicyInit, Agreement, StoredIsTracked, TrackedIsIndexed

LEMMA AgreementGivesAll ==
  ASSUME IInv, Agreement
  PROVE  ComponentsAgree
<1>1. StoredIsTracked /\ TrackedIsIndexed
  BY DEF Agreement
<1>2. EvictionNotRefused
  BY DEF Agreement, TrackedIsIndexed, EvictionNotRefused, IInv, WorkerInStream
<1>3. VictimFound
  <2>1. ASSUME wpc = "victim" PROVE members # {}
    BY <2>1, FS_EmptySet DEF Agreement, WithinCapacity, Size
  <2> QED BY <2>1 DEF VictimFound, Agreement, StoredIsTracked, IInv, WorkerInStream
<1> QED
  BY <1>1, <1>2, <1>3 DEF ComponentsAgree

LEMMA AgreementHolds == Spec => [](IInv /\ (Unspoilt => Agreement))
<1>1. Init => (Unspoilt => Agreement)
  BY AgreementInit
<1>2. IInv /\ (Unspoilt => Agreement) /\ [Next]_vars => (Unspoilt => Agreement)'
  BY AgreementStep
<1> QED
  BY <1>1, <1>2, InvariantInit, InvariantStep, PTL DEF Spec

(* Through refused calls, crashes and restarts, whatever their order, the  *)
(* policy tracks every counted entry and the index has every tracked one,  *)
(* so that enforceCapacity always finds a victim and the vector store      *)
(* never answers an eviction with 404: as long as nothing was flushed, the *)
(* index has not restarted by itself and no reply was lost.                *)
THEOREM ComponentsKeepAgreeing == Spec => [](Unspoilt => ComponentsAgree)
<1>1. IInv /\ (Unspoilt => Agreement) => (Unspoilt => ComponentsAgree)
  BY AgreementGivesAll
<1> QED
  BY <1>1, AgreementHolds, PTL

-------------------------------------------------------------------------------
(* The capacity, as long as nothing has failed                             *)

(* Between jobs there is room, and no job is given up.                     *)
Settled ==
  /\ wpc \in {"idle", "upsert", "save"} => WithinCapacity
  /\ wpc # "compensate"

LEMMA SettledStep ==
  ASSUME IInv, Unspoilt => Agreement, Calm /\ Undisturbed => Settled,
         [Next]_vars, Calm', Undisturbed'
  PROVE  Settled'
<1>1. TypeOK /\ Settled /\ Unspoilt'
  BY UnspoiltBefore DEF IInv, Unspoilt, Undisturbed
<1>2. Agreement
  BY <1>1, UnspoiltBefore
<1>3. /\ ~Spend("flush") /\ ~Spend("indexRestart") /\ ~Spend("crash")
      /\ \A k : ~ReplyLost(k) /\ ~Refused(k)
  BY <1>1, UnspoiltStep
<1>4. ~RequestFlush /\ ~RestartIndex /\ ~FlushStep /\ ~Crash
  BY <1>2, <1>3 DEF RequestFlush, RestartIndex, FlushStep, FlushIndex, FlushList,
     FlushDel, FlushTracked, FlushStats, Agreement, Crash
<1>5. CASE UNCHANGED <<members, wpc>>
  BY <1>1, <1>5 DEF Settled, WithinCapacity, Size
<1>6. CASE Fetch \/ Upsert \/ Save \/ Insert \/ CheckSize
  BY <1>1, <1>3, <1>6 DEF Fetch, Upsert, Save, Insert, CheckSize, FailJob, Goto, Settled,
     WithinCapacity, Size, storeVars
<1>7. CASE PickVictim \/ EvictStore \/ EvictIndex \/ Forget
  <2>1. /\ wpc = "victim" => tracked # {}
        /\ wpc = "evictIndex" => victim \in index
    BY <1>2, AgreementGivesAll DEF ComponentsAgree, VictimFound, EvictionNotRefused
  <2> QED BY <1>3, <1>7, <2>1 DEF PickVictim, Victim, EvictStore, EvictIndex, DeleteNotFound,
     Forget, Goto, Settled
<1>8. CASE Ack
  BY <1>8 DEF Ack, EndJob, Settled, WithinCapacity, Size, storeVars, IInv, EvictionProgress
<1>9. CASE Compensate
  BY <1>1, <1>9 DEF Compensate, Settled
<1>10. ASSUME StartupStep \/ UNCHANGED vars \/ \E c \in Clients :
                QueryStep(c) \/ \E p \in Prompts : Ask(c, p)
       PROVE  UNCHANGED <<members, wpc>>
  BY <1>10, AgreementQuery DEF AgreementVars, StartupStep, ListEntries, Rebuild, vars,
     procVars, storeVars, workerVars
<1> QED
  BY <1>4, <1>5, <1>6, <1>7, <1>8, <1>9, <1>10 DEF Next, Poll, WorkerStep, JobStep

(* As long as nothing was flushed or failed and the index has not          *)
(* restarted, the cache is within CACHE_CAPACITY whenever the worker waits *)
(* for a job: enforceCapacity never ends early (service.go:392).           *)
THEOREM SettledWithin == Spec => [](Calm => SettledWithinCapacity)
<1>1. Init => (Calm /\ Undisturbed => Settled)
  BY FS_EmptySet, CapacityAssumption DEF Init, StoreInit, Settled, WithinCapacity, Size
<1>2. IInv /\ (Unspoilt => Agreement) /\ (Calm /\ Undisturbed => Settled) /\ [Next]_vars
        => (Calm /\ Undisturbed => Settled)'
  BY SettledStep
<1>3. (Calm /\ Undisturbed => Settled) => (Calm => SettledWithinCapacity)
  BY DEF Settled, SettledWithinCapacity, WithinCapacity
<1> QED
  BY <1>1, <1>2, <1>3, AgreementHolds, PTL DEF Spec

-------------------------------------------------------------------------------
(* What was cached is found                                                *)

(* Without failures and flushes the index is ahead of the store by at most *)
(* the entry the worker has not finished saving or evicting.               *)
Halfway ==
  IF wpc = "save" THEN {wid} ELSE IF wpc = "evictIndex" THEN {victim} ELSE {}

IndexFollows ==
  /\ fpc = "idle"
  /\ wpc # "compensate"
  /\ entries = members
  /\ index \subseteq entries \cup Halfway
  /\ up = "rebuilding" => tracked \subseteq entries

(* A query that has not found anything yet has an id left to load that was *)
(* servable, or one of those is gone.  No id that was servable is saved    *)
(* again.                                                                  *)
Finding(q) ==
  \/ q.seen = {}
  \/ q.found # {}
  \/ q.cand \cap q.seen # {}
  \/ \E i \in q.seen : i \notin entries

QueriesFind ==
  \A c \in Clients :
    /\ client[c].seen \subseteq issued
    /\ wpc = "save" => wid \notin client[c].seen
    /\ client[c].pc = "load" => Finding(client[c])

Flawless == spent["flush"] = 0 /\ Undisturbed

(* Of at least two matches of which at most one is not in the store, a     *)
(* search for two or more returns one that is.                             *)
LEMMA SearchFindsSaved ==
  ASSUME TopK >= 2, NEW p \in Prompts, NEW S \in Answers(p), NEW x,
         IsFiniteSet(Matching(p)),
         Matching(p) \subseteq entries \cup {x},
         Matching(p) \cap entries # {}
  PROVE  S \cap entries # {}
<1> DEFINE M == Matching(p)
<1>1. /\ S \subseteq M
      /\ Cardinality(S) = IF Cardinality(M) < TopK THEN Cardinality(M) ELSE TopK
  BY DEF Answers
<1>2. IsFiniteSet(S) /\ Cardinality(S) \in Nat /\ Cardinality(M) \in Nat
  BY <1>1, FS_Subset, FS_CardinalityType
<1> SUFFICES ASSUME S \cap entries = {} PROVE FALSE
  OBVIOUS
<1>3. S \subseteq {x}
  BY <1>1
<1>4. Cardinality(S) <= 1
  <2>1. IsFiniteSet({x}) /\ Cardinality({x}) = 1
    BY FS_Singleton
  <2>2. Cardinality(S) <= Cardinality({x})
    BY ONLY <1>3, <2>1, FS_Subset
  <2> QED BY <2>1, <2>2
<1>5. Cardinality(M) = Cardinality(S)
  BY <1>1, <1>2, <1>4
<1>6. S = M
  BY <1>1, <1>5, FS_Subset
<1> QED
  BY <1>6

LEMMA IndexFinite ==
  ASSUME IInv, IndexFollows, NEW p \in Prompts
  PROVE  IsFiniteSet(Matching(p))
<1>1. IsFiniteSet(Halfway)
  BY FS_EmptySet, FS_Singleton DEF Halfway
<1>2. IsFiniteSet(entries \cup Halfway)
  BY <1>1, FS_Union DEF IInv, IndexFollows
<1>3. Matching(p) \subseteq entries \cup Halfway
  BY DEF Matching, IndexFollows
<1> QED
  BY <1>2, <1>3, FS_Subset
LEMMA FlawlessStep ==
  ASSUME TypeOK, [Next]_vars, Flawless'
  PROVE  /\ Flawless
         /\ ~Spend("flush") /\ ~Spend("crash")
         /\ \A k : ~ReplyLost(k) /\ ~Refused(k)
<1>1. "flush" \in Events
  BY DEF Events
<1>2. spent'["flush"] = 0 => spent["flush"] = 0
  BY <1>1, SpentGrows
<1>3. ~Spend("flush")
  BY <1>1, SpentEvent DEF Flawless
<1> QED
  BY <1>2, <1>3, UnspoiltBefore, UnspoiltStep DEF Flawless

LEMMA IndexFollowsStep ==
  ASSUME IInv, IndexFollows, [Next]_vars, Flawless'
  PROVE  IndexFollows'
<1>1. TypeOK
  BY DEF IInv
<1>2. ~Spend("flush") /\ ~Spend("crash") /\ \A k : ~ReplyLost(k) /\ ~Refused(k)
  BY <1>1, FlawlessStep
<1>3. ~RequestFlush /\ ~FlushStep /\ ~Crash
  BY <1>2 DEF RequestFlush, FlushStep, FlushIndex, FlushList, FlushDel, FlushTracked,
     FlushStats, IndexFollows, Crash
<1>4. up # "up" => wpc = "idle"
  BY DEF IInv, WorkerInStream
<1> USE DEF IndexFollows, Halfway, storeVars, indexVars, flushVars
<1>5. CASE UNCHANGED AgreementVars
  BY <1>5 DEF AgreementVars
<1>6. CASE StartupStep
  BY <1>2, <1>4, <1>6 DEF StartupStep, ListEntries, Listed, Rebuild, RebuildVectors, workerVars
<1>7. CASE RestartIndex
  BY <1>7 DEF RestartIndex, FlushVectors, procVars
<1>8. CASE Fetch \/ Upsert \/ Save \/ Insert \/ CheckSize
  BY <1>2, <1>4, <1>8 DEF Fetch, Upsert, UpsertVector, Save, SaveEntry, Insert, CheckSize,
     FailJob, Goto
<1>9. CASE PickVictim \/ EvictStore \/ EvictIndex \/ Forget \/ Ack
  BY <1>2, <1>4, <1>9 DEF PickVictim, EvictStore, DeleteEntry, EvictIndex, DeleteVector,
     DeleteNotFound, Forget, Ack, EndJob, FailJob, Goto
<1>10. ~Compensate
  BY DEF Compensate
<1>11. UNCHANGED vars => UNCHANGED AgreementVars
  BY DEF vars, AgreementVars, procVars
<1> QED
  BY <1>3, <1>5, <1>6, <1>7, <1>8, <1>9, <1>10, <1>11, AgreementQuery
  DEF Next, Poll, WorkerStep, JobStep

(* Everything but a query leaves the queries alone, and what it saves has  *)
(* not been seen before.                                                   *)
LEMMA FindingKept ==
  ASSUME QueriesFind, UNCHANGED client,
         issued \subseteq issued',
         entries' \subseteq entries \cup (IF wpc = "save" THEN {wid} ELSE {}),
         wpc' = "save" => (wpc = "save" /\ wid' = wid) \/ wid' \notin issued
  PROVE  QueriesFind'
BY DEF QueriesFind, Finding

LEMMA OthersKeepFinding ==
  ASSUME IInv, IndexFollows, QueriesFind, Flawless', TypeOK, [Next]_vars,
         WorkerStep \/ StartupStep \/ RestartIndex \/ Poll \/ UNCHANGED vars
  PROVE  QueriesFind'
<1>1. UNCHANGED client /\ issued \subseteq issued'
  BY DEF WorkerStep, JobStep, Fetch, Upsert, UpsertVector, Save, Compensate, DeleteVector,
     DeleteNotFound, Insert, CheckSize, PickVictim, EvictStore, EvictIndex, Forget, Ack,
     StartupStep, ListEntries, Rebuild, RebuildVectors, RestartIndex, FlushVectors, Poll,
     vars, procVars, indexVars
<1>2. entries' \subseteq entries \cup (IF wpc = "save" THEN {wid} ELSE {})
  BY DEF WorkerStep, JobStep, Fetch, Upsert, Save, SaveEntry, Compensate,
     Insert, CheckSize, PickVictim, EvictStore, DeleteEntry, EvictIndex, Forget, Ack,
     StartupStep, ListEntries, Rebuild, RestartIndex, Poll, vars, storeVars
<1>3. wpc' = "save" => (wpc = "save" /\ wid' = wid) \/ wid' \notin issued
  BY DEF WorkerStep, JobStep, Fetch, Upsert, UpsertVector, Save, Compensate,
     Insert, CheckSize, PickVictim, EvictStore, EvictIndex, Forget, Ack,
     StartupStep, ListEntries, Rebuild, RestartIndex, Poll, vars, procVars, workerVars,
     Goto, FailJob, EndJob
<1> QED
  BY <1>1, <1>2, <1>3, FindingKept

LEMMA SearchFinding ==
  ASSUME TopK >= 2, IInv, IndexFollows, NEW c \in Clients, client[c] \in Query,
         NEW S \in Answers(client[c].prompt), NEW q,
         q = [client[c] EXCEPT !.pc = "load", !.cand = S,
                !.seen = Matching(client[c].prompt) \cap entries]
  PROVE  /\ q.seen \subseteq issued
         /\ wpc = "save" => wid \notin q.seen
         /\ Finding(q)
<1> DEFINE M == Matching(client[c].prompt)
<1>1. client[c].prompt \in Prompts
  BY DEF Query
<1>2. q.cand = S /\ q.seen = M \cap entries
  BY DEF Query
<1>3. M \subseteq entries \cup Halfway /\ IsFiniteSet(M)
  BY <1>1, IndexFinite DEF Matching, IndexFollows
<1>4. \E x : Halfway \subseteq {x}
  BY DEF Halfway
<1>5. M \cap entries # {} => S \cap entries # {}
  BY <1>1, <1>3, <1>4, SearchFindsSaved
<1>6. S \subseteq M
  BY DEF Answers
<1>7. Finding(q)
  BY <1>2, <1>5, <1>6 DEF Finding
<1>8. q.seen \subseteq issued /\ (wpc = "save" => wid \notin q.seen)
  BY <1>2 DEF IInv, IdsAreFresh, IndexFollows
<1> QED
  BY <1>7, <1>8

LEMMA QueriesKeepFinding ==
  ASSUME TopK >= 2, IInv, IndexFollows, QueriesFind, \A k : ~Refused(k),
         NEW c \in Clients, QueryStep(c) \/ \E p \in Prompts : Ask(c, p)
  PROVE  QueriesFind'
<1>1. UNCHANGED <<entries, issued, wpc, wid>>
  BY AgreementQuery DEF AgreementVars
<1> SUFFICES ASSUME NEW d \in Clients
             PROVE  /\ client'[d].seen \subseteq issued
                    /\ wpc = "save" => wid \notin client'[d].seen
                    /\ client'[d].pc = "load" => Finding(client'[d])
  BY <1>1 DEF QueriesFind, Finding
<1>2. client \in [Clients -> Query \cup {NoQuery}]
  BY DEF IInv, TypeOK
<1>3. \E q : client' = [client EXCEPT ![c] = q]
  BY DEF QueryStep, Ask, Search, Load, Hit, Miss, Enqueue, Proceed, Answer
<1>4. CASE d # c
  BY <1>2, <1>3, <1>4 DEF QueriesFind
<1>5. CASE d = c /\ client'[c].seen = {}
  BY <1>5 DEF Finding
<1>6. ASSUME Search(c) \/ (\E p \in Prompts : Ask(c, p)) \/ Hit(c) \/ Enqueue(c), d = c
      PROVE  \/ client'[c].seen = {}
             \/ /\ client'[c].seen \subseteq issued
                /\ wpc = "save" => wid \notin client'[c].seen
                /\ client'[c].pc = "load" => Finding(client'[c])
  <2>1. NoQuery.seen = {} /\ \A p : [NoQuery EXCEPT !.pc = "search", !.prompt = p].seen = {}
    BY DEF NoQuery
  <2>2. CASE Search(c)
    <3>1. client[c] \in Query
      BY <1>2, <2>2, BusyType DEF Search
    <3>2. PICK S \in Answers(client[c].prompt) :
             client'[c] = [client[c] EXCEPT !.pc = "load", !.cand = S,
                             !.seen = Matching(client[c].prompt) \cap entries]
      BY <1>2, <2>2 DEF Search, Proceed
    <3> QED BY <3>1, <3>2, SearchFinding
  <2>3. CASE (\E p \in Prompts : Ask(c, p)) \/ Hit(c) \/ Enqueue(c)
    BY <1>2, <2>1, <2>3 DEF Ask, Hit, Enqueue, Proceed, Answer
  <2> QED BY <1>6, <2>2, <2>3
<1>7. ASSUME Miss(c), d = c
      PROVE  /\ client'[c].seen = client[c].seen
             /\ client'[c].pc = "enqueue"
  <2>1. client[c] \in Query
    BY <1>2, <1>7, BusyType DEF Miss, Deciding
  <2> QED BY <1>2, <1>7, <2>1 DEF Miss, Proceed, Query
<1>8. ASSUME Load(c), d = c
      PROVE  client'[c].seen = client[c].seen /\ Finding(client'[c])
  <2>1. client[c] \in Query /\ client[c].pc = "load"
    BY <1>2, <1>8, BusyType DEF Load
  <2>2. PICK i \in client[c].cand :
          \/ /\ Stored(i)
             /\ client'[c] = [client[c] EXCEPT !.cand = @ \ {i}, !.found = @ \cup {i}]
          \/ /\ ~Stored(i)
             /\ client'[c] = [client[c] EXCEPT !.cand = @ \ {i}]
    BY <1>2, <1>8 DEF Load, Proceed
  <2>3. Finding(client[c])
    BY <2>1 DEF QueriesFind
  <2>4. CASE Stored(i)
    <3>1. /\ client'[c].seen = client[c].seen
          /\ client'[c].found = client[c].found \cup {i}
      BY <2>1, <2>2, <2>4 DEF Query
    <3> QED
      BY <3>1 DEF Finding
  <2>5. CASE ~Stored(i)
    <3>1. /\ client'[c].seen = client[c].seen /\ client'[c].found = client[c].found
          /\ client'[c].cand = client[c].cand \ {i}
      BY <2>1, <2>2, <2>5 DEF Query
    <3>2. i \notin entries
      BY <2>5 DEF Stored
    <3> QED
      BY <2>3, <3>1, <3>2 DEF Finding
  <2> QED BY <2>4, <2>5
<1> QED
  BY <1>4, <1>5, <1>6, <1>7, <1>8 DEF QueryStep, QueriesFind

LEMMA FindingStep ==
  ASSUME TopK >= 2, IInv, Flawless => IndexFollows /\ QueriesFind, [Next]_vars, Flawless'
  PROVE  IndexFollows' /\ QueriesFind'
<1>1. TypeOK
  BY DEF IInv
<1>2. /\ IndexFollows /\ QueriesFind
      /\ ~Spend("flush") /\ ~Spend("crash")
      /\ \A k : ~ReplyLost(k) /\ ~Refused(k)
  BY <1>1, FlawlessStep
<1>3. ~RequestFlush /\ ~FlushStep /\ ~Crash
  BY <1>2 DEF RequestFlush, FlushStep, FlushIndex, FlushList, FlushDel, FlushTracked,
     FlushStats, IndexFollows, Crash
<1> QED
  BY <1>1, <1>2, <1>3, IndexFollowsStep, OthersKeepFinding, QueriesKeepFinding DEF Next

(* With CACHE_TOP_K of at least 2, and until the first failure or flush: a *)
(* query that misses although its prompt was servable when it searched has *)
(* lost an entry of it to an eviction in between (handleQuery).  With the  *)
(* default of 1 this does not hold: the one match the search returns may   *)
(* be a vector whose reply is not saved yet.                               *)
THEOREM CachedPromptsHit ==
  ASSUME TopK >= 2
  PROVE  Spec => [](spent["flush"] = 0 => CachedPromptHits)
<1>1. Init => (Flawless => IndexFollows /\ QueriesFind)
  BY DEF Init, StoreInit, IndexInit, IndexFollows, QueriesFind, Halfway, NoQuery
<1>2. IInv /\ (Flawless => IndexFollows /\ QueriesFind) /\ [Next]_vars
        => (Flawless => IndexFollows /\ QueriesFind)'
  BY FindingStep
<1>3. (Flawless => IndexFollows /\ QueriesFind) => (spent["flush"] = 0 => CachedPromptHits)
  BY DEF Flawless, QueriesFind, Finding, Deciding, CachedPromptHits
<1> QED
  BY <1>1, <1>2, <1>3, InvariantHolds, InvariantInit, InvariantStep, PTL DEF Spec

-------------------------------------------------------------------------------
(* A flush holds                                                           *)

(* FlushedStayGone is not inductive: it does not say why a rebuild or a    *)
(* save cannot bring back what the running flush is about to promise away. *)
(* Ids are never minted twice, the doomed ones are taken from the index    *)
(* first, and only what is in the id set is rebuilt.                       *)
FlushInv ==
  /\ index \cup entries \cup members \cup doomed \cup purged \subseteq issued
  /\ wpc = "save" => wid \in issued \ (entries \cup members \cup doomed \cup purged)
  /\ fpc \in {"list", "del", "policy", "stats"} => doomed \cap index = {}
  /\ fpc \in {"policy", "stats"} => doomed \cap members = {}
  /\ purged \cap (index \cup members) = {}
  /\ up = "rebuilding" => tracked \subseteq issued \ purged
  /\ up # "up" => fpc = "idle"

LEMMA FlushInvQuery ==
  ASSUME FlushInv, NEW c \in Clients, QueryStep(c) \/ \E p \in Prompts : Ask(c, p)
  PROVE  FlushInv'
<1>1. UNCHANGED AgreementVars /\ UNCHANGED <<doomed, purged>>
  BY AgreementQuery DEF QueryStep, Ask, Search, Load, Hit, Miss, Enqueue, flushVars, histVars
<1> QED
  BY <1>1 DEF FlushInv, AgreementVars

LEMMA FlushInvWorker ==
  ASSUME IInv, FlushInv, WorkerStep
  PROVE  FlushInv'
<1>1. UNCHANGED <<up, fpc, doomed, purged>> /\ up = "up"
  BY DEF WorkerStep, JobStep, Fetch, Upsert, Save, Compensate, Insert, CheckSize, PickVictim,
     EvictStore, EvictIndex, Forget, Ack, flushVars, histVars, IInv, WorkerInStream
<1> USE DEF FlushInv, storeVars, indexVars, FailJob, EndJob, Goto
<1>2. CASE Upsert
  BY <1>1, <1>2 DEF Upsert, UpsertVector
<1>3. CASE Save
  BY <1>1, <1>3 DEF Save, SaveEntry
<1>4. CASE Compensate \/ EvictIndex
  BY <1>1, <1>4 DEF Compensate, EvictIndex, DeleteVector, DeleteNotFound
<1>5. CASE EvictStore
  BY <1>1, <1>5 DEF EvictStore, DeleteEntry
<1>6. CASE Fetch \/ Insert \/ CheckSize \/ PickVictim \/ Forget \/ Ack
  BY <1>1, <1>6 DEF Fetch, Insert, CheckSize, PickVictim, Forget, Ack
<1> QED
  BY <1>2, <1>3, <1>4, <1>5, <1>6 DEF WorkerStep, JobStep

LEMMA FlushInvFlush ==
  ASSUME FlushInv, RequestFlush \/ FlushStep
  PROVE  FlushInv'
<1>1. UNCHANGED <<up, wpc, wid, issued>>
  BY DEF RequestFlush, FlushStep, FlushIndex, FlushList, FlushDel, FlushTracked, FlushStats,
     FlushVectors, workerVars, indexVars
<1>2. fpc # "idle" => up = "up"
  BY DEF FlushInv
<1> USE DEF FlushInv, storeVars, indexVars, histVars, EndFlush, FlushGoto
<1>3. CASE RequestFlush
  BY <1>1, <1>3 DEF RequestFlush, Servable
<1>4. CASE FlushIndex
  BY <1>1, <1>2, <1>4 DEF FlushIndex, FlushVectors
<1>5. CASE FlushList
  BY <1>1, <1>2, <1>5 DEF FlushList
<1>6. CASE FlushDel
  BY <1>1, <1>2, <1>6 DEF FlushDel, DelListed
<1>7. CASE FlushTracked
  BY <1>1, <1>2, <1>7 DEF FlushTracked
<1>8. CASE FlushStats
  BY <1>1, <1>2, <1>8 DEF FlushStats
<1> QED
  BY <1>3, <1>4, <1>5, <1>6, <1>7, <1>8 DEF FlushStep

LEMMA FlushInvStart ==
  ASSUME IInv, FlushInv, StartupStep \/ RestartIndex \/ Crash
  PROVE  FlushInv'
<1> USE DEF FlushInv, storeVars, indexVars, histVars
<1>1. CASE ListEntries
  BY <1>1 DEF ListEntries, Listed, workerVars, flushVars
<1>2. CASE Rebuild
  BY <1>2 DEF Rebuild, RebuildVectors, workerVars, flushVars
<1>3. CASE RestartIndex
  BY <1>3 DEF RestartIndex, FlushVectors, procVars
<1>4. CASE Crash
  BY <1>4 DEF Crash, FreshMemory
<1> QED
  BY <1>1, <1>2, <1>3, <1>4 DEF StartupStep

(* Whatever fails, crashes or restarts, and however often: an id that a    *)
(* flush promised away (service.go:500) is never servable again, and no    *)
(* start-up rebuilds it.                                                   *)
THEOREM FlushHolds == Spec => []FlushedStayGone
<1>1. Init => FlushInv
  BY DEF Init, StoreInit, IndexInit, FlushInv
<1>2. IInv /\ FlushInv /\ [Next]_vars => FlushInv'
  <2>1. UNCHANGED vars /\ FlushInv => FlushInv'
    BY DEF vars, storeVars, indexVars, procVars, histVars, FlushInv
  <2> QED BY <2>1, FlushInvQuery, FlushInvWorker, FlushInvFlush, FlushInvStart DEF Next, Poll
<1>3. FlushInv => FlushedStayGone
  BY DEF FlushInv, FlushedStayGone, Servable, Listed
<1> QED
  BY <1>1, <1>2, <1>3, InvariantHolds, InvariantInit, InvariantStep, PTL DEF Spec
===============================================================================
