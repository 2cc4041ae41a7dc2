----------------------------- MODULE QueueSwitch ------------------------------
(***************************************************************************)
(* The queue slot (internal/plugins/dynamic/queue.go): senders add jobs to *)
(* the current queue, every queue has a worker of its own, a switch starts *)
(* a worker on the new queue, and a goroutine per switch                   *)
(* (manager/activate.go) waits for the old queue to drain and stops its    *)
(* worker.  The built-in queue is JobStream; every activation of a plugin  *)
(* makes a new adapter over the plugin's LeaseQueue.                       *)
(***************************************************************************)
EXTENDS JobStream, LeaseQueue

CONSTANTS
  Builtin,    \* the built-in queue
  Adapters,   \* adapter objects
  NoQueue,
  Faults,     \* pairs <<call, outcome>> a remote call may end with
  Limits      \* how often each unbounded event happens in a behaviour

Calls == {"enqueue", "lease", "settle", "setActive"}
Outcomes == {"refused", "replyLost"}
Events == {"switch", "mishap"}   \* a mishap: a fault, failure, lapse or crash
Queues == Adapters \cup {Builtin}
MaxTries == 3   \* of an ack or a nack by the adapter

ASSUME QueueAssumption ==
  /\ Builtin \notin Adapters
  /\ NoQueue \notin Queues
  /\ Queues \cap {"new", "accepted", "failed"} = {}
  /\ Faults \subseteq Calls \X Outcomes
  /\ Limits \in [Events -> Nat]

VARIABLES
  up,         \* the process runs
  cur,        \* the queue that takes new jobs
  selected,   \* the registry's choice: the built-in queue or not
  replaced,   \* the queue a switch replaced, until the switch is committed
  unused,     \* adapters not made yet
  worker,     \* the worker last started on each queue
  drains,     \* how many goroutines wait for each queue to drain
  sender,     \* of each job: "new", the queue its sender read, or how it ended
  applied,    \* how often each job's handler succeeded
  spent,      \* how often each event of Limits has happened
  lapsed,     \* leases that ran out, as <<job, token>> (history)
  returned,   \* a queue came back while it was drained (history)
  cut,        \* queues whose drain ended before they were empty (history)
  missed      \* jobs added to a queue that was not current any more (history)

storeVars == <<queueVars, leaseVars>>
slotVars == <<up, cur, selected, replaced, unused>>
historyVars == <<lapsed, returned, cut, missed>>
vars == <<storeVars, slotVars, worker, drains, sender, applied, spent, historyVars>>

NoWorker == [pc |-> "none", cancelled |-> FALSE, tries |-> 0, hand |-> << >>]

(* A worker that has just started.                                         *)
Fresh == [NoWorker EXCEPT !.pc = "read"]

Worker ==
  [pc : {"none", "read", "handle", "ack", "nack", "done"}, cancelled : BOOLEAN,
   tries : 0 .. MaxTries, hand : Seq([job : Jobs, ref : Nat])]

(* The type invariant.                                                     *)
TypeOK ==
  /\ QueueTypeOK(Jobs)
  /\ LeaseTypeOK
  /\ up \in BOOLEAN
  /\ cur \in Queues
  /\ selected \in {"builtin", "plugin"}
  /\ replaced \in Queues \cup {NoQueue}
  /\ unused \subseteq Adapters
  /\ worker \in [Queues -> Worker]
  /\ drains \in [Queues -> Nat]
  /\ sender \in [Jobs -> Queues \cup {"new", "accepted", "failed"}]
  /\ applied \in [Jobs -> Nat]
  /\ spent \in [Events -> Nat]
  /\ lapsed \subseteq Jobs \X Nat
  /\ returned \in BOOLEAN
  /\ cut \subseteq Queues
  /\ missed \subseteq Jobs

Spend(e) ==
  /\ spent[e] < Limits[e]
  /\ spent' = [spent EXCEPT ![e] = @ + 1]

Answered == UNCHANGED spent
Refused(c) == <<c, "refused">> \in Faults /\ Spend("mishap")
ReplyLost(c) == <<c, "replyLost">> \in Faults /\ Spend("mishap")

-------------------------------------------------------------------------------
(* Senders: Enqueue reads the current queue and then calls it              *)

ReadCurrent(j) ==
  /\ up
  /\ sender[j] = "new"
  /\ sender' = [sender EXCEPT ![j] = cur]
  /\ UNCHANGED <<storeVars, slotVars, worker, drains, applied, spent, historyVars>>

Put(q, j) ==
  IF q = Builtin THEN XAdd(j) /\ UNCHANGED leaseVars
                 ELSE AddJob(j) /\ UNCHANGED queueVars

Enqueue(j) ==
  /\ up
  /\ sender[j] \in Queues
  /\ LET q == sender[j] IN
       /\ \/ Answered /\ Put(q, j) /\ sender' = [sender EXCEPT ![j] = "accepted"]
          \/ ReplyLost("enqueue") /\ Put(q, j) /\ sender' = [sender EXCEPT ![j] = "failed"]
          \/ /\ Refused("enqueue")
             /\ UNCHANGED storeVars
             /\ sender' = [sender EXCEPT ![j] = "failed"]
       /\ missed' = IF q = cur THEN missed ELSE missed \cup {j}
  /\ UNCHANGED <<slotVars, worker, drains, applied, lapsed, returned, cut>>

-------------------------------------------------------------------------------
(* Workers                                                                 *)

Working(q) == worker[q].pc \in {"read", "handle", "ack", "nack"}
At(q, pc) == up /\ worker[q].pc = pc
Goto(q, pc) == worker' = [worker EXCEPT ![q].pc = pc, ![q].tries = 0]

(* startLocked.                                                            *)
Started(q) ==
  IF Working(q) THEN worker ELSE [worker EXCEPT ![q] = Fresh]

WorkerUnchanged == UNCHANGED <<slotVars, drains, sender, returned, cut, missed>>

(* A batch of the stream, or a lease.  A read that is under way when its   *)
(* worker is cancelled may still end: the stream's client waits for the    *)
(* reply, the adapter's does not, so the lease is then nobody's.           *)
Fetched(q, batch) ==
  worker' = [worker EXCEPT ![q] = [@ EXCEPT !.pc = "handle", !.hand = batch]]

Batch == [i \in 1 .. BatchEnd - lastDelivered |->
            [job |-> stream[lastDelivered + i], ref |-> lastDelivered + i]]

FetchBatch ==
  /\ At(Builtin, "read")
  /\ XReadGroup
  /\ Fetched(Builtin, Batch)
  /\ UNCHANGED <<leaseVars, applied, spent, lapsed>>
  /\ WorkerUnchanged

FetchLease(q, j) ==
  /\ q # Builtin
  /\ At(q, "read")
  /\ Lease(j)
  /\ \/ /\ ~worker[q].cancelled
        /\ Answered
        /\ Fetched(q, <<[job |-> j, ref |-> attempts[j] + 1]>>)
     \/ ReplyLost("lease") /\ UNCHANGED worker
     \/ worker[q].cancelled /\ Answered /\ Goto(q, "done")
  /\ UNCHANGED <<queueVars, applied, lapsed>>
  /\ WorkerUnchanged

StopReading(q) ==
  /\ At(q, "read")
  /\ worker[q].cancelled
  /\ Goto(q, "done")
  /\ UNCHANGED <<storeVars, applied, spent, lapsed>>
  /\ WorkerUnchanged

InHand(q) == Head(worker[q].hand)

(* The head of the hand is done with.  The stream's worker goes through    *)
(* its batch before it looks at its context again.                         *)
NextInHand(q) ==
  LET rest == Tail(worker[q].hand)
      pc == CASE rest # << >> -> "handle"
              [] rest = << >> /\ worker[q].cancelled -> "done"
              [] OTHER -> "read"
  IN  worker' = [worker EXCEPT ![q] = [@ EXCEPT !.pc = pc, !.tries = 0, !.hand = rest]]

(* The handler runs on a context of its own.  A job of the stream that     *)
(* fails stays pending, a leased one is given back.                        *)
Handle(q) ==
  /\ At(q, "handle")
  /\ \/ /\ Answered
        /\ applied' = [applied EXCEPT ![InHand(q).job] = @ + 1]
        /\ Goto(q, "ack")
     \/ /\ Spend("mishap")
        /\ UNCHANGED applied
        /\ IF q = Builtin THEN NextInHand(q) ELSE Goto(q, "nack")
  /\ UNCHANGED <<storeVars, lapsed>>
  /\ WorkerUnchanged

AckStream ==
  /\ At(Builtin, "ack")
  /\ \/ Answered /\ XAck(InHand(Builtin).ref)
     \/ Refused("settle") /\ UNCHANGED queueVars
  /\ NextInHand(Builtin)
  /\ UNCHANGED <<leaseVars, applied, lapsed>>
  /\ WorkerUnchanged

RetryUncounted(q) == UNCHANGED worker

(* An ack or a nack is tried again unless the lease was lost.              *)
Retry(q) ==
  IF worker[q].tries + 1 < MaxTries THEN worker' = [worker EXCEPT ![q].tries = @ + 1]
                                    ELSE NextInHand(q)

SettleLease(q) ==
  /\ q # Builtin
  /\ up
  /\ worker[q].pc \in {"ack", "nack"}
  /\ LET j == InHand(q).job
         t == InHand(q).ref
     IN  \/ /\ Answered
            /\ Settle(worker[q].pc, j, t)
            /\ IF Answer(j, t) = "unknown" THEN Retry(q) ELSE NextInHand(q)
         \/ ReplyLost("settle") /\ Settle(worker[q].pc, j, t) /\ Retry(q)
         \/ Refused("settle") /\ UNCHANGED leaseVars /\ Retry(q)
  /\ UNCHANGED <<queueVars, applied, lapsed>>
  /\ WorkerUnchanged

WorkerStep(q) ==
  \/ StopReading(q)
  \/ Handle(q)
  \/ SettleLease(q)
  \/ q = Builtin /\ (FetchBatch \/ AckStream)
  \/ \E j \in Jobs : FetchLease(q, j)

Holds(q, j) == Working(q) /\ \E i \in DOMAIN worker[q].hand : worker[q].hand[i].job = j

(* A lease runs out: at any time while somebody holds the job, for sure    *)
(* when nobody does.                                                       *)
LeaseLapses(j) ==
  /\ Expire(j)
  /\ IF \E q \in Adapters : Holds(q, j) THEN Spend("mishap") ELSE Answered
  /\ lapsed' = lapsed \cup {<<j, token[j]>>}
  /\ UNCHANGED <<queueVars, worker, applied>>
  /\ WorkerUnchanged

-------------------------------------------------------------------------------
(* Switches, one at a time under the slot's lock                           *)

SwapUnchanged == UNCHANGED <<storeVars, sender, applied, lapsed, cut, missed>>

(* A worker of q that somebody will stop, or is stopping.                  *)
Leaving(q) == drains[q] > 0 \/ (Working(q) /\ worker[q].cancelled)

SwapStopsOld(q) ==
  /\ cur' = q
  /\ worker' = [Started(q) EXCEPT ![cur].cancelled = TRUE]
  /\ returned' = (returned \/ Leaving(q))

Swap(q) ==
  /\ cur' = q
  /\ worker' = Started(q)
  /\ returned' = (returned \/ Leaving(q))

Switch(q) ==
  /\ up
  /\ replaced = NoQueue
  /\ q # cur
  /\ q \in unused \cup {Builtin}
  /\ Spend("switch")
  /\ Swap(q)
  /\ replaced' = cur
  /\ unused' = unused \ {q}
  /\ UNCHANGED <<up, selected, drains>>
  /\ SwapUnchanged

CommitDrainsNew ==
  /\ up
  /\ replaced # NoQueue
  /\ Answered
  /\ selected' = IF cur = Builtin THEN "builtin" ELSE "plugin"
  /\ drains' = [drains EXCEPT ![cur] = @ + 1]
  /\ replaced' = NoQueue
  /\ UNCHANGED <<up, cur, unused, worker, returned>>
  /\ SwapUnchanged

(* The registry has the choice; the old queue is drained.                  *)
CommitSwitch ==
  /\ up
  /\ replaced # NoQueue
  /\ Answered
  /\ selected' = IF cur = Builtin THEN "builtin" ELSE "plugin"
  /\ drains' = [drains EXCEPT ![replaced] = @ + 1]
  /\ replaced' = NoQueue
  /\ UNCHANGED <<up, cur, unused, worker, returned>>
  /\ SwapUnchanged

(* The choice could not be recorded: the old queue comes back, and nobody  *)
(* stops the worker of the other one.                                      *)
UndoSwitch ==
  /\ up
  /\ replaced # NoQueue
  /\ Refused("setActive")
  /\ Swap(replaced)
  /\ replaced' = NoQueue
  /\ UNCHANGED <<up, selected, unused, drains>>
  /\ SwapUnchanged

Depth(q) ==
  IF q = Builtin THEN Len(stream) - lastDelivered + Cardinality(pending) ELSE Len(order)

(* The goroutine of a switch sees an empty queue, or its window is over:   *)
(* it cancels whatever worker the queue has by now.                        *)
Drain(q) ==
  /\ up
  /\ drains[q] > 0
  /\ drains' = [drains EXCEPT ![q] = @ - 1]
  /\ worker' = [worker EXCEPT ![q].cancelled = (@ \/ Working(q))]
  /\ cut' = IF Depth(q) = 0 THEN cut ELSE cut \cup {q}
  /\ UNCHANGED <<storeVars, slotVars, sender, applied, spent, lapsed, returned, missed>>

-------------------------------------------------------------------------------
(* Process starts and crashes                                              *)

(* Both queues keep their jobs; a leased one waits for its lease to lapse, *)
(* one the stream delivered waits for ever.                                *)
Crash ==
  /\ up
  /\ Spend("mishap")
  /\ up' = FALSE
  /\ replaced' = NoQueue
  /\ unused' = Adapters
  /\ worker' = [q \in Queues |-> NoWorker]
  /\ drains' = [q \in Queues |-> 0]
  /\ sender' = [j \in Jobs |-> IF sender[j] \in Queues THEN "failed" ELSE sender[j]]
  /\ cut' = cut \cup {q \in Queues : q # cur \/ replaced # NoQueue}
  /\ UNCHANGED <<storeVars, cur, selected, applied, lapsed, returned, missed>>

(* Restore comes before the workers: Run starts that of the selected queue.*)
Restart ==
  /\ ~up
  /\ up' = TRUE
  /\ \E q \in Queues :
       /\ (q = Builtin) <=> (selected = "builtin")
       /\ cur' = q
       /\ unused' = unused \ {q}
       /\ worker' = [worker EXCEPT ![q] = Fresh]
  /\ UNCHANGED <<storeVars, selected, replaced, drains, sender, applied, spent,
                 historyVars>>

-------------------------------------------------------------------------------
StartWith(senders, used) ==
  /\ QueueInit
  /\ LeaseInit
  /\ up = TRUE
  /\ cur = Builtin
  /\ selected = "builtin"
  /\ replaced = NoQueue
  /\ unused = Adapters
  /\ worker = [q \in Queues |-> IF q = Builtin THEN Fresh ELSE NoWorker]
  /\ drains = [q \in Queues |-> 0]
  /\ sender = senders
  /\ applied = [j \in Jobs |-> 0]
  /\ spent = used
  /\ lapsed = {}
  /\ returned = FALSE
  /\ cut = {}
  /\ missed = {}

Init == StartWith([j \in Jobs |-> "new"], [e \in Events |-> 0])

Next ==
  \/ \E j \in Jobs : ReadCurrent(j) \/ Enqueue(j) \/ LeaseLapses(j)
  \/ \E q \in Queues : WorkerStep(q) \/ Switch(q) \/ Drain(q)
  \/ CommitSwitch \/ UndoSwitch
  \/ Crash \/ Restart

(* Calls have deadlines, leases and drain windows end, and the process is  *)
(* restarted.                                                              *)
Fairness ==
  /\ \A j \in Jobs : WF_vars(Enqueue(j)) /\ WF_vars(LeaseLapses(j) /\ Answered)
  /\ \A q \in Queues : WF_vars(WorkerStep(q)) /\ WF_vars(Drain(q))
  /\ WF_vars(CommitSwitch)
  /\ WF_vars(Restart)

Spec == Init /\ [][Next]_vars
FairSpec == Spec /\ Fairness

-------------------------------------------------------------------------------
(* Properties                                                              *)

InStream(j) == \E i \in 1 .. Len(stream) : stream[i] = j /\ (i > lastDelivered \/ i \in pending)

(* No queue forgets an accepted job that was not applied, whatever is      *)
(* switched, drained, retried or restarted (queue.go:151-154,              *)
(* redis_stream.go:142).                                                   *)
NothingDropped ==
  \A j \in Jobs : sender[j] = "accepted" /\ applied[j] = 0 => j \in Kept \/ InStream(j)

(* The queues are well formed and drop nothing.                            *)
QueuesKeepJobs == TypeOK /\ NothingDropped

(* Two workers handle one job at the same time only if the lease of one of *)
(* them has run out: a late ack or nack does not free a job that somebody  *)
(* else holds by now (sdk/examples/queue/main.go:81).                      *)
HandledByOneUnlessLapsed ==
  \A q, r \in Queues :
    /\ q # r
    /\ worker[q].pc = "handle"
    /\ worker[r].pc = "handle"
    /\ InHand(q).job = InHand(r).job
    => \E i \in {InHand(q), InHand(r)} : <<i.job, i.ref>> \in lapsed

(* A job is applied a second time only after a lease on it ran out: acks   *)
(* outlive the cancellation of their worker (queue.go:130), and a retried  *)
(* one does no harm.                                                       *)
AppliedOnceUnlessLapsed ==
  \A j \in Jobs : applied[j] > 1 => \E t \in 1 .. attempts[j] : <<j, t>> \in lapsed

(* Without a lapsed lease a job has one handler at a time, and one         *)
(* application in all.                                                     *)
OneHandlerUnlessLapsed == HandledByOneUnlessLapsed /\ AppliedOnceUnlessLapsed

(* Run starts a worker for the current queue, and Swap starts one for the  *)
(* new queue (dynamic/queue.go:14): the current queue has a worker, and it *)
(* is not told to stop.                                                    *)
CurrentHasWorker ==
  up => Working(cur) /\ ~worker[cur].cancelled

(* The same, as long as no queue comes back while it is being drained.     *)
CurrentKeepsWorker == ~returned => CurrentHasWorker

(* j waits in a queue that nobody reads.                                   *)
Unread(j) ==
  \/ /\ j \in Kept
     /\ \A q \in Adapters : ~Holds(q, j) /\ (~Working(q) \/ worker[q].cancelled)
  \/ /\ \E i \in lastDelivered + 1 .. Len(stream) : stream[i] = j
     /\ ~Working(Builtin) \/ worker[Builtin].cancelled

(* A job waits in a queue without a worker only if a window or a crash cut *)
(* a drain short, its sender had read the old queue before the switch, or  *)
(* a queue came back while it was drained.                                 *)
LeftBehindOnlyIfCut ==
  \A j \in Jobs : up /\ Unread(j) => cut # {} \/ j \in missed \/ returned

(* A job that the plugin's queue has is handled while the plugin's queue   *)
(* is the current one, however often its lease is lost.                    *)
LeasedJobsHandled ==
  \A j \in Jobs :
    j \in Kept ~> j \notin Kept \/ returned \/ (up /\ cur = Builtin)
===============================================================================
