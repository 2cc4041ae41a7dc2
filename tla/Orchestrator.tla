----------------------------- MODULE Orchestrator -----------------------------
(***************************************************************************)
(* The cache orchestrator (internal/orchestrator/service.go) with the      *)
(* components it coordinates: the vector store, the reply store, the job   *)
(* stream and the eviction policy.  Three kinds of process run in it: one  *)
(* goroutine per query, the cache worker, and the handler of POST /flush;  *)
(* no lock is held from one remote call to the next (the write gate        *)
(* excludes only the plugin platform), so each remote call is a step.      *)
(*                                                                         *)
(* Similarity is abstracted to equality: a prompt of the model stands for  *)
(* a class of prompts within the threshold of one another, and the vector  *)
(* of an id is the class of the job it was minted for.                     *)
(***************************************************************************)
EXTENDS RedisStore, VectorStore, JobStream, EvictionPolicy

CONSTANTS
  Prompts,    \* the classes of prompts
  NoPrompt,   \* the prompt of a client without a query
  Clients,    \* queries in flight at the same time
  Capacity,   \* CACHE_CAPACITY; 0 disables eviction
  TopK,       \* CACHE_TOP_K
  Faults,     \* pairs <<component, outcome>> a remote call may end with
  Limits      \* how often each unbounded event happens in a behaviour

Components == {"embedder", "llm", "vectorStore", "store", "queue"}

(* A failing call was either not executed, or was executed although its    *)
(* caller is told it failed: a broken connection or an expired deadline.   *)
(* Of a call that only reads both leave the same, so "refused" is both.    *)
Outcomes == {"refused", "replyLost"}

Events == {"query", "flush", "fault", "crash", "indexRestart"}

ASSUME CapacityAssumption == Capacity \in Nat
ASSUME TopKAssumption == TopK \in Nat \ {0}
ASSUME FaultsAssumption == Faults \subseteq Components \X Outcomes
ASSUME LimitsAssumption == Limits \in [Events -> Nat]

VARIABLES
  up,        \* the orchestrator process: "down", "rebuilding" or "up"
  client,    \* the queries in flight
  wpc,       \* what the worker does next
  cur,       \* stream position of the job the worker has or waits for
  wid,       \* updateCache's id
  victim,    \* enforceCapacity's victimID
  fpc,       \* what the flush handler does next
  doomed,    \* ids servable when the running flush was requested, until
             \* store.Flush is refused (history)
  listed,    \* keys the running flush read with SMEMBERS
  stats,     \* the counters behind GET /stats
  spent,     \* how often each event of Limits has happened
  mintedFor, \* job whose upsert returned the id, 0 for none (history)
  admitted,  \* jobs whose entry reached the store (history)
  purged     \* ids a flush that replied "flushed" promised away (history)

procVars == <<up, client, wpc, cur, wid, victim, fpc, doomed, listed, stats>>
histVars == <<mintedFor, admitted, purged>>
vars == <<storeVars, indexVars, queueVars, tracked, procVars, spent, histVars>>

clientVars == client
workerVars == <<wpc, cur, wid, victim>>
flushVars == <<fpc, doomed, listed>>

-------------------------------------------------------------------------------
(* Types                                                                   *)

WorkerSteps ==
  {"idle", "upsert", "save", "compensate", "insert", "size", "victim",
   "evictStore", "evictIndex", "forget", "ack"}

FlushSteps == {"idle", "index", "list", "del", "policy", "stats"}

NoQuery ==
  [pc |-> "idle", prompt |-> NoPrompt, cand |-> {}, found |-> {}, seen |-> {}]

(* A query in flight: the matches to load, those found, and the matching   *)
(* ids that were servable when it searched (history).                      *)
Query ==
  [pc : {"search", "load", "enqueue"}, prompt : Prompts,
   cand : SUBSET Ids, found : SUBSET Ids, seen : SUBSET Ids]

Counters == [hits : Nat, misses : Nat, evictions : Nat]

(* The worker holds an id exactly between its upsert and OnInsert, and a   *)
(* victim exactly while it evicts one.                                     *)
WorkerTypeOK ==
  /\ wpc \in WorkerSteps
  /\ cur \in Nat \ {0}
  /\ wid \in IF wpc \in {"save", "compensate", "insert"} THEN Ids ELSE {NoId}
  /\ victim \in IF wpc \in {"evictStore", "evictIndex", "forget"} THEN Ids ELSE {NoId}

(* The type invariant.                                                     *)
TypeOK ==
  /\ StoreTypeOK
  /\ IndexTypeOK
  /\ QueueTypeOK(Prompts)
  /\ PolicyTypeOK
  /\ up \in {"down", "rebuilding", "up"}
  /\ client \in [Clients -> Query \cup {NoQuery}]
  /\ WorkerTypeOK
  /\ fpc \in FlushSteps
  /\ doomed \subseteq Ids
  /\ listed \subseteq Ids
  /\ stats \in Counters
  /\ spent \in [Events -> Nat]
  /\ mintedFor \in [Ids -> Nat]
  /\ admitted \subseteq Nat \ {0}
  /\ purged \subseteq Ids

-------------------------------------------------------------------------------
(* Helpers                                                                 *)

Spend(e) ==
  /\ spent[e] < Limits[e]
  /\ spent' = [spent EXCEPT ![e] = @ + 1]

Answered == UNCHANGED spent
Refused(c) == <<c, "refused">> \in Faults /\ Spend("fault")
ReplyLost(c) == <<c, "replyLost">> \in Faults /\ Spend("fault")

NoCounts == [hits |-> 0, misses |-> 0, evictions |-> 0]
Count(c) == stats' = [stats EXCEPT ![c] = @ + 1]

(* Ids whose vector is within the threshold of the prompt.                 *)
Matching(p) ==
  {i \in index : mintedFor[i] \in DOMAIN stream /\ stream[mintedFor[i]] = p}

AnswersOneShort(p) ==
  {S \in SUBSET Matching(p) :
     Cardinality(S) = IF Cardinality(Matching(p)) < TopK - 1
                        THEN Cardinality(Matching(p))
                        ELSE TopK - 1}

(* What a search may return: the TopK nearest matches.  Among more than    *)
(* TopK vectors of one class, the distances decide, in any way.            *)
Answers(p) ==
  {S \in SUBSET Matching(p) :
     Cardinality(S) = IF Cardinality(Matching(p)) < TopK
                        THEN Cardinality(Matching(p))
                        ELSE TopK}

Servable == index \cap entries

WithinCapacityPlusOne == Capacity = 0 \/ Size <= Capacity + 1

(* enforceCapacity has nothing to do.                                      *)
WithinCapacity == Capacity = 0 \/ Size <= Capacity

-------------------------------------------------------------------------------
(* handleQuery, one query per client at a time                             *)

Proceed(c, q) == client' = [client EXCEPT ![c] = q]

Answer(c) == Proceed(c, NoQuery)

Ask(c, p) ==
  /\ up = "up"
  /\ client[c].pc = "idle"
  /\ Spend("query")
  /\ Proceed(c, [NoQuery EXCEPT !.pc = "search", !.prompt = p])
  /\ UNCHANGED <<storeVars, indexVars, queueVars, tracked, up, workerVars,
                 flushVars, stats, histVars>>

(* An embedding or a search that fails answers 502.                        *)
Search(c) ==
  /\ client[c].pc = "search"
  /\ \/ /\ Answered
        /\ \E S \in Answers(client[c].prompt) :
             Proceed(c, [client[c] EXCEPT !.pc = "load", !.cand = S,
                           !.seen = Matching(client[c].prompt) \cap entries])
     \/ /\ Refused("embedder") \/ Refused("vectorStore")
        /\ Answer(c)
  /\ UNCHANGED <<storeVars, indexVars, queueVars, tracked, up, workerVars,
                 flushVars, stats, histVars>>

LoadSkipsNothing(c) ==
  /\ client[c].pc = "load"
  /\ Answered
  /\ \E i \in client[c].cand :
       /\ Stored(i)
       /\ OnHit(i)
       /\ Proceed(c, [client[c] EXCEPT !.cand = @ \ {i}, !.found = @ \cup {i}])
  /\ UNCHANGED <<storeVars, indexVars, queueVars, up, workerVars,
                 flushVars, stats, histVars>>

(* A failing GET is an entry that is not there.                            *)
Load(c) ==
  /\ client[c].pc = "load"
  /\ \E i \in client[c].cand :
       \/ /\ Answered
          /\ Stored(i)
          /\ OnHit(i)
          /\ Proceed(c, [client[c] EXCEPT !.cand = @ \ {i}, !.found = @ \cup {i}])
       \/ /\ (Answered /\ ~Stored(i)) \/ Refused("store")
          /\ Proceed(c, [client[c] EXCEPT !.cand = @ \ {i}])
          /\ UNCHANGED tracked
  /\ UNCHANGED <<storeVars, indexVars, queueVars, up, workerVars,
                 flushVars, stats, histVars>>

Deciding(c) == client[c].pc = "load" /\ client[c].cand = {}

Hit(c) ==
  /\ Deciding(c)
  /\ client[c].found # {}
  /\ Count("hits")
  /\ Answer(c)
  /\ UNCHANGED <<storeVars, indexVars, queueVars, tracked, up, workerVars,
                 flushVars, spent, histVars>>

(* A miss asks the LLM; its failure answers 502 and is not counted.        *)
Miss(c) ==
  /\ Deciding(c)
  /\ client[c].found = {}
  /\ \/ /\ Answered
        /\ Count("misses")
        /\ Proceed(c, [client[c] EXCEPT !.pc = "enqueue"])
     \/ /\ Refused("llm")
        /\ Answer(c)
        /\ UNCHANGED stats
  /\ UNCHANGED <<storeVars, indexVars, queueVars, tracked, up, workerVars,
                 flushVars, histVars>>

(* A failing enqueue is logged; the reply is sent all the same.            *)
Enqueue(c) ==
  /\ client[c].pc = "enqueue"
  /\ \/ /\ Answered \/ ReplyLost("queue")
        /\ XAdd(client[c].prompt)
     \/ /\ Refused("queue")
        /\ UNCHANGED queueVars
  /\ Answer(c)
  /\ UNCHANGED <<storeVars, indexVars, tracked, up, workerVars, flushVars,
                 stats, histVars>>

QueryStep(c) == Search(c) \/ Load(c) \/ Hit(c) \/ Miss(c) \/ Enqueue(c)

-------------------------------------------------------------------------------
(* The cache worker: RedisStreamQueue.Run and updateCache                  *)

Goto(step) == wpc' = step /\ UNCHANGED <<cur, wid, victim>>

EndJobSkipsLast ==
  /\ wpc' = IF cur + 1 < lastDelivered THEN "upsert" ELSE "idle"
  /\ cur' = cur + 1
  /\ wid' = NoId
  /\ victim' = NoId

(* The handler returned: Run takes the next message of its batch.          *)
EndJob ==
  /\ wpc' = IF cur < lastDelivered THEN "upsert" ELSE "idle"
  /\ cur' = cur + 1
  /\ wid' = NoId
  /\ victim' = NoId

(* A handler error leaves the job pending.                                 *)
FailJob == EndJob

Fetch ==
  /\ up = "up"
  /\ wpc = "idle"
  /\ XReadGroup
  /\ \/ Answered /\ wpc' = "upsert" /\ cur' = lastDelivered + 1
     \/ ReplyLost("queue") /\ wpc' = "idle" /\ cur' = BatchEnd + 1
  /\ UNCHANGED <<storeVars, indexVars, tracked, up, client, wid, victim,
                 flushVars, stats, histVars>>

(* XREADGROUP blocks for a second, finds nothing or fails, and is retried. *)
Poll ==
  /\ up = "up"
  /\ wpc = "idle"
  /\ ~HasNew
  /\ UNCHANGED vars

Upsert ==
  /\ wpc = "upsert"
  /\ \/ \E id \in Ids :
          /\ UpsertVector(id)
          /\ mintedFor' = [mintedFor EXCEPT ![id] = cur]
          /\ \/ /\ Answered
                /\ wpc' = "save"
                /\ wid' = id
                /\ UNCHANGED <<cur, victim>>
             \/ ReplyLost("vectorStore") /\ FailJob
     \/ Refused("vectorStore") /\ FailJob /\ UNCHANGED <<indexVars, mintedFor>>
  /\ UNCHANGED <<storeVars, queueVars, tracked, up, client, flushVars, stats,
                 admitted, purged>>

Save ==
  /\ wpc = "save"
  /\ \/ /\ SaveEntry(wid)
        /\ admitted' = admitted \cup {cur}
        /\ \/ Answered /\ Goto("insert")
           \/ ReplyLost("store") /\ Goto("compensate")
     \/ Refused("store") /\ Goto("compensate") /\ UNCHANGED <<storeVars, admitted>>
  /\ UNCHANGED <<indexVars, queueVars, tracked, up, client, flushVars, stats,
                 mintedFor, purged>>

(* The vector of an entry that was not saved is deleted; whether that      *)
(* worked is not looked at.                                                *)
Compensate ==
  /\ wpc = "compensate"
  /\ \/ Answered /\ (DeleteVector(wid) \/ DeleteNotFound(wid))
     \/ Refused("vectorStore") /\ UNCHANGED indexVars
  /\ FailJob
  /\ UNCHANGED <<storeVars, queueVars, tracked, up, client, flushVars, stats,
                 histVars>>

Insert ==
  /\ wpc = "insert"
  /\ OnInsert(wid)
  /\ wpc' = "size"
  /\ wid' = NoId
  /\ UNCHANGED <<storeVars, indexVars, queueVars, up, client, cur, victim,
                 flushVars, stats, spent, histVars>>

(* enforceCapacity, each round of its loop                                 *)
CheckSize ==
  /\ wpc = "size"
  /\ \/ Answered /\ Goto(IF WithinCapacity THEN "ack" ELSE "victim")
     \/ Refused("store") /\ FailJob
  /\ UNCHANGED <<storeVars, indexVars, queueVars, tracked, up, client,
                 flushVars, stats, histVars>>

PickVictim ==
  /\ wpc = "victim"
  /\ \/ \E id \in Ids :
          /\ Victim(id, TRUE)
          /\ victim' = id
          /\ wpc' = "evictStore"
          /\ UNCHANGED <<cur, wid>>
     \/ Victim(NoId, FALSE) /\ FailJob
  /\ UNCHANGED <<storeVars, indexVars, queueVars, up, client, flushVars, stats,
                 spent, histVars>>

EvictStore ==
  /\ wpc = "evictStore"
  /\ \/ /\ DeleteEntry(victim)
        /\ \/ Answered /\ Goto("evictIndex")
           \/ ReplyLost("store") /\ FailJob
     \/ Refused("store") /\ FailJob /\ UNCHANGED storeVars
  /\ UNCHANGED <<indexVars, queueVars, tracked, up, client, flushVars, stats,
                 histVars>>

(* The client turns a 404 into an error like any other status but 200.     *)
EvictIndex ==
  /\ wpc = "evictIndex"
  /\ \/ /\ DeleteVector(victim)
        /\ \/ Answered /\ Goto("forget")
           \/ ReplyLost("vectorStore") /\ FailJob
     \/ DeleteNotFound(victim) /\ Answered /\ FailJob
     \/ Refused("vectorStore") /\ FailJob /\ UNCHANGED indexVars
  /\ UNCHANGED <<storeVars, queueVars, tracked, up, client, flushVars, stats,
                 histVars>>

Forget ==
  /\ wpc = "forget"
  /\ OnDelete(victim)
  /\ Count("evictions")
  /\ wpc' = "size"
  /\ victim' = NoId
  /\ UNCHANGED <<storeVars, indexVars, queueVars, up, client, cur, wid,
                 flushVars, spent, histVars>>

(* The result of XACK is not looked at either.                             *)
Ack ==
  /\ wpc = "ack"
  /\ \/ XAck(cur) /\ Answered
     \/ Refused("queue") /\ UNCHANGED queueVars
  /\ EndJob
  /\ UNCHANGED <<storeVars, indexVars, tracked, up, client, flushVars, stats,
                 histVars>>

JobStep ==
  \/ Upsert \/ Save \/ Compensate \/ Insert \/ CheckSize \/ PickVictim
  \/ EvictStore \/ EvictIndex \/ Forget \/ Ack

WorkerStep == Fetch \/ JobStep

-------------------------------------------------------------------------------
(* handleFlush and FlushCache, outside the write gate                      *)

FlushGoto(step) == fpc' = step /\ UNCHANGED <<doomed, listed>>

RequestFlush ==
  /\ up = "up"
  /\ fpc = "idle"
  /\ Spend("flush")
  /\ fpc' = "index"
  /\ doomed' = Servable
  /\ UNCHANGED <<storeVars, indexVars, queueVars, tracked, up, client,
                 workerVars, listed, stats, histVars>>

EndFlush ==
  /\ fpc' = "idle"
  /\ doomed' = {}
  /\ listed' = {}

FlushIndex ==
  /\ fpc = "index"
  /\ \/ Answered /\ FlushVectors /\ FlushGoto("list")
     \/ ReplyLost("vectorStore") /\ FlushVectors /\ EndFlush
     \/ Refused("vectorStore") /\ EndFlush /\ UNCHANGED indexVars
  /\ UNCHANGED <<storeVars, queueVars, tracked, up, client, workerVars, stats,
                 histVars>>

(* An error of store.Flush is only logged.                                 *)
FlushList ==
  /\ fpc = "list"
  /\ \/ Answered /\ listed' = members /\ fpc' = "del" /\ UNCHANGED doomed
     \/ Refused("store") /\ fpc' = "policy" /\ doomed' = {} /\ UNCHANGED listed
  /\ UNCHANGED <<storeVars, indexVars, queueVars, tracked, up, client,
                 workerVars, stats, histVars>>

FlushDel ==
  /\ fpc = "del"
  /\ \/ (Answered \/ ReplyLost("store")) /\ DelListed(listed) /\ UNCHANGED doomed
     \/ Refused("store") /\ doomed' = {} /\ UNCHANGED storeVars
  /\ fpc' = "policy"
  /\ UNCHANGED listed
  /\ UNCHANGED <<indexVars, queueVars, tracked, up, client, workerVars, stats,
                 histVars>>

FlushTracked ==
  /\ fpc = "policy"
  /\ FlushPolicy
  /\ FlushGoto("stats")
  /\ UNCHANGED <<storeVars, indexVars, queueVars, up, client, workerVars,
                 stats, spent, histVars>>

FlushStats ==
  /\ fpc = "stats"
  /\ stats' = NoCounts
  /\ purged' = purged \cup doomed
  /\ EndFlush
  /\ UNCHANGED <<storeVars, indexVars, queueVars, tracked, up, client,
                 workerVars, spent, mintedFor, admitted>>

FlushStep == FlushIndex \/ FlushList \/ FlushDel \/ FlushTracked \/ FlushStats

-------------------------------------------------------------------------------
(* Start-up, crashes, and a restart of the vector-store service alone      *)

(* Everything in the orchestrator's memory, as a new process finds it.     *)
FreshMemory ==
  /\ tracked' = {}
  /\ client' = [c \in Clients |-> NoQuery]
  /\ wpc' = "idle"
  /\ cur' = lastDelivered + 1
  /\ wid' = NoId
  /\ victim' = NoId
  /\ fpc' = "idle"
  /\ doomed' = {}
  /\ listed' = {}
  /\ stats' = NoCounts

(* rebuildFromStore: List, and OnInsert of every entry.  The capacity is   *)
(* not enforced.                                                           *)
ListEntries ==
  /\ up = "down"
  /\ \/ Answered /\ up' = "rebuilding" /\ tracked' = Listed
     \/ Refused("store") /\ UNCHANGED <<up, tracked>>
  /\ UNCHANGED <<storeVars, indexVars, queueVars, client, workerVars,
                 flushVars, stats, histVars>>

(* rebuildVectorStoreWithRetry: one attempt.  A failed one is repeated,    *)
(* until 30 seconds are over and the process ends.                         *)
Rebuild ==
  /\ up = "rebuilding"
  /\ \/ RebuildVectors(tracked) /\ Answered /\ up' = "up" /\ UNCHANGED tracked
     \/ /\ \/ RebuildVectors(tracked) /\ ReplyLost("vectorStore")
           \/ Refused("vectorStore") /\ UNCHANGED indexVars
        /\ \/ UNCHANGED <<up, tracked>>
           \/ up' = "down" /\ tracked' = {}
  /\ UNCHANGED <<storeVars, queueVars, client, workerVars, flushVars, stats,
                 histVars>>

Crash ==
  /\ up # "down"
  /\ Spend("crash")
  /\ up' = "down"
  /\ FreshMemory
  /\ UNCHANGED <<storeVars, indexVars, queueVars, histVars>>

RestartIndex ==
  /\ Spend("indexRestart")
  /\ FlushVectors
  /\ UNCHANGED <<storeVars, queueVars, tracked, procVars, histVars>>

-------------------------------------------------------------------------------
Init ==
  /\ StoreInit
  /\ IndexInit
  /\ QueueInit
  /\ PolicyInit
  /\ up = "down"
  /\ client = [c \in Clients |-> NoQuery]
  /\ wpc = "idle"
  /\ cur = 1
  /\ wid = NoId
  /\ victim = NoId
  /\ fpc = "idle"
  /\ doomed = {}
  /\ listed = {}
  /\ stats = NoCounts
  /\ spent = [e \in Events |-> 0]
  /\ mintedFor = [i \in Ids |-> 0]
  /\ admitted = {}
  /\ purged = {}

StartupStep == ListEntries \/ Rebuild

Next ==
  \/ \E c \in Clients, p \in Prompts : Ask(c, p)
  \/ \E c \in Clients : QueryStep(c)
  \/ WorkerStep \/ Poll
  \/ RequestFlush \/ FlushStep
  \/ StartupStep
  \/ Crash \/ RestartIndex

Spec == Init /\ [][Next]_vars

(* Every call a running process makes returns: the vector-store client     *)
(* gives up after 10 seconds, Redis calls after 5, and a process that is   *)
(* down is restarted (docker-compose.prod.yml, restart: unless-stopped).   *)
Fairness ==
  /\ \A c \in Clients : WF_vars(QueryStep(c))
  /\ WF_vars(WorkerStep)
  /\ WF_vars(FlushStep)
  /\ WF_vars(StartupStep)

FairSpec == Spec /\ Fairness

-------------------------------------------------------------------------------
(* Properties that hold whatever fails                                     *)

(* The ids and the jobs of the abstract cache: what the id set of Redis    *)
(* counts, and the admitted jobs that were not acknowledged.               *)
Owing == admitted \cap pending

SC == INSTANCE SemanticCache WITH cached <- members, owing <- Owing

(* The orchestrator implements the abstract cache: a job is admitted at    *)
(* most once, an eviction only happens while the cache is over capacity,   *)
(* and a job is acknowledged only after the size was seen within it.       *)
ImplementsCache == SC!CacheSpec

(* The number of counted entries exceeds CACHE_CAPACITY by no more than    *)
(* the jobs that were saved and are still on the pending list.             *)
OverrunAccounted ==
  Capacity > 0 => Size <= Capacity + Cardinality(Owing)

(* A job the stream delivered is on the pending list until its entry was   *)
(* saved: no error path of updateCache acknowledges a lost answer.         *)
DeliveredAccounted == 1 .. lastDelivered \subseteq pending \cup admitted

(* When an eviction is counted, nothing of the victim is left in any of    *)
(* the components (docs/USER_GUIDE.md:440, `evictions`).                   *)
EvictionsAreReal ==
  [][ stats'.evictions > stats.evictions =>
        victim \notin entries' \cup members' \cup index' \cup tracked' ]_vars

(* An id that a flush promised away is never servable again, nor rebuilt   *)
(* after a restart, once the flush has answered "flushed" (service.go:500) *)
(* and unless store.Flush was refused, of which the caller is not told.    *)
FlushedStayGone == purged \cap Servable = {} /\ purged \cap Listed = {}

-------------------------------------------------------------------------------
(* Agreement of the components                                             *)

(* Every counted entry can be evicted: the policy tracks it, or the worker *)
(* is about to tell the policy.                                            *)
StoredIsTracked ==
  up = "up" => members \subseteq
                 tracked \cup (IF wpc = "insert" THEN {wid} ELSE {})

(* Every tracked id is in the index, except the victim whose eviction the  *)
(* worker is about to record.                                              *)
TrackedIsIndexed ==
  up = "up" => tracked \subseteq
                 index \cup (IF wpc = "forget" THEN {victim} ELSE {})

(* A healthy vector store does not answer an eviction with 404             *)
(* (consistency_test.go:256, self-healing of an interrupted eviction).     *)
EvictionNotRefused == wpc = "evictIndex" => victim \in index

(* The error "policy has no victim" cannot happen.                         *)
VictimFound == wpc = "victim" => tracked # {}

(* Policy, index and store keep agreeing, through refused calls, crashes   *)
(* and restarts, so that every eviction finds a victim (service.go:411)    *)
(* and the index still has it (client.go:187), as long as nothing is       *)
(* flushed and no reply is lost.                                           *)
ComponentsAgree == StoredIsTracked /\ TrackedIsIndexed /\ EvictionNotRefused /\ VictimFound

(* The store's size counts every entry it holds.                           *)
EveryEntryCounted == entries \subseteq members

(* No call has failed and the process has not crashed.                     *)
Undisturbed == spent["fault"] = 0 /\ spent["crash"] = 0

(* Whenever the worker waits for jobs the cache is within its capacity     *)
(* (service.go:392), as long as nothing has failed.                        *)
SettledWithinCapacity ==
  Undisturbed /\ wpc = "idle" /\ Capacity > 0 => Size <= Capacity

(* As long as nothing has failed, a query that misses although its prompt  *)
(* was servable when it searched lost an entry of it to an eviction in     *)
(* between.  This takes a CACHE_TOP_K of at least 2: the only match of a   *)
(* search for one may be a vector whose reply is not saved yet.            *)
CachedPromptHits ==
  \A c \in Clients :
    Undisturbed /\ Deciding(c) /\ client[c].found = {} /\ client[c].seen # {}
      => \E i \in client[c].seen : i \notin entries

-------------------------------------------------------------------------------
(* Liveness                                                                *)

(* Every query is answered, by a reply or by an error.                     *)
QueriesAnswered ==
  \A c \in Clients : client[c].pc # "idle" ~> client[c].pc = "idle"

(* Every queued job is eventually handled and left behind: a job that      *)
(* fails, or an eviction that cannot finish, does not hold up the queue.   *)
JobsHandled ==
  \A j \in 1 .. Limits["query"] : Len(stream) >= j ~> cur > j
-------------------------------------------------------------------------------
(* The inductive invariant behind the properties that hold whatever fails  *)

(* Where the worker stands in the stream: what it has been given and has   *)
(* not finished with is on the pending list.                               *)
WorkerInStream ==
  /\ up # "up" => wpc = "idle"
  /\ wpc = "idle" => cur = lastDelivered + 1
  /\ wpc # "idle" => cur <= lastDelivered
  /\ cur .. lastDelivered \subseteq pending

(* Jobs are admitted in the order of the stream, and a job of which        *)
(* updateCache returns no error was admitted.                              *)
AdmittedInOrder ==
  /\ \A j \in admitted :
       \/ j < cur
       \/ j = cur /\ wpc \notin {"idle", "upsert", "save"}
  /\ wpc \in {"insert", "size", "victim", "evictStore", "evictIndex", "forget", "ack"}
       => cur \in admitted

(* An upsert returns an id no entry has.                                   *)
IdsAreFresh ==
  /\ members \subseteq issued
  /\ wpc = "save" => wid \in issued \ members

(* What enforceCapacity has established, at each of its steps: while the   *)
(* worker evicts, nothing but a flush changes the size.                    *)
EvictionProgress ==
  /\ wpc \in {"victim", "evictStore"} => ~WithinCapacity \/ members = {}
  /\ wpc \in {"evictIndex", "forget"} => victim \notin entries \cup members
  /\ wpc = "forget" => victim \notin index
  /\ wpc = "ack" => WithinCapacity

(* Every step of the orchestrator keeps this, from any state in which it   *)
(* holds.                                                                  *)
IInv ==
  /\ TypeOK
  /\ IsFiniteSet(members)
  /\ WorkerInStream
  /\ AdmittedInOrder
  /\ IdsAreFresh
  /\ EvictionProgress
  /\ DeliveredAccounted
  /\ OverrunAccounted
===============================================================================
