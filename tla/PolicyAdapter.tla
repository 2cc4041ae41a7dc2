----------------------------- MODULE PolicyAdapter -----------------------------
(***************************************************************************)
(* An eviction policy that runs as a plugin: the adapter the cache calls   *)
(* (internal/plugins/protocol/policy.go) and an LRU plugin                 *)
(* (sdk/examples/policy/main.go).  Hits, insertions and deletions are      *)
(* queued and sent in batches by a goroutine of their own; Victim and      *)
(* Flush queue a barrier first and wait until it has passed.               *)
(***************************************************************************)
EXTENDS Naturals, Sequences, SequencesExt, CacheIds

CONSTANTS
  EventBuffer,   \* 4096 in the code
  MaxBatch,      \* 128 in the code
  MaxEvents,     \* how many events the cache has
  MaxTroubles    \* how many calls fail or wait too long

ASSUME PolicyAdapterAssumption ==
  /\ {EventBuffer, MaxBatch} \subseteq Nat \ {0}
  /\ {MaxEvents, MaxTroubles} \subseteq Nat

VARIABLES
  queue,      \* events and barriers not yet taken
  batch,      \* what the sender is posting
  late,       \* a batch whose post was given up, and which may still arrive
  plugin,     \* the ids of the plugin, most recently used first
  ask,        \* the progress of a Victim or Flush
  reported,   \* events counted as dropped or failed
  closed,
  happened,   \* number of events
  troubles,
  exact,      \* the ids as they would be with every event applied (history)
  untold      \* a flush failed, or events overlapped it (history)

policyVars ==
  <<queue, batch, late, plugin, ask, reported, closed, happened, troubles, exact, untold>>

Ops == {"hit", "insert", "delete"}
Event == [op : Ops, id : Ids]

(* A barrier belongs to one caller; it is stale once that has given up.    *)
Barrier == [op |-> "barrier", id |-> NoId]
StaleBarrier == [op |-> "stale", id |-> NoId]
Abandoned(s) == [i \in DOMAIN s |-> IF s[i] = Barrier THEN StaleBarrier ELSE s[i]]

IdleAsk == [pc |-> "idle", op |-> "victim", synced |-> FALSE, alone |-> FALSE, answer |-> NoId]

PolicyTypeOK ==
  /\ queue \in Seq(Event \cup {Barrier, StaleBarrier}) /\ Len(queue) <= EventBuffer
  /\ batch \in Seq(Event \cup {Barrier, StaleBarrier})
  /\ late \in Seq(Event \cup {Barrier, StaleBarrier})
  /\ plugin \in Seq(Ids) /\ IsInjective(plugin)
  /\ ask \in [pc : {"idle", "sync", "wait", "call", "told"}, op : {"victim", "flush"},
              synced : BOOLEAN, alone : BOOLEAN, answer : Ids \cup {NoId}]
  /\ reported \in Nat
  /\ closed \in {"open", "closing", "closed"}
  /\ happened \in Nat /\ troubles \in Nat
  /\ exact \in Seq(Ids)
  /\ untold \in BOOLEAN

PolicyInit ==
  /\ queue = <<>> /\ batch = <<>> /\ late = <<>>
  /\ plugin = <<>> /\ exact = <<>>
  /\ ask = IdleAsk
  /\ reported = 0 /\ happened = 0 /\ troubles = 0
  /\ closed = "open"
  /\ untold = FALSE

Trouble == troubles < MaxTroubles /\ troubles' = troubles + 1

-------------------------------------------------------------------------------
(* The plugin: apply, victim and flush                                     *)

ApplyEventStacks(order, e) ==
  IF e.op = "delete" THEN RemoveFirst(order, e.id) ELSE <<e.id>> \o order

ApplyEvent(order, e) ==
  LET here == Contains(order, e.id) IN
    CASE e.op = "delete"            -> RemoveFirst(order, e.id)
      [] e.op = "hit" /\ ~here      -> order
      [] OTHER                      -> <<e.id>> \o RemoveFirst(order, e.id)

(* A barrier is not sent.                                                  *)
Deliver(order, q) == IF q.op \in Ops THEN ApplyEvent(order, q) ELSE order

ApplyAll(order, s) ==
  LET after[n \in 0 .. Len(s)] == IF n = 0 THEN order ELSE Deliver(after[n - 1], s[n])
  IN after[Len(s)]

PickVictim(order) == IF order = <<>> THEN NoId ELSE Last(order)

-------------------------------------------------------------------------------
(* OnHit does not wait for room; OnInsert and OnDelete give up after a     *)
(* while.  An event that finds no room is counted.                         *)
Notify(e) ==
  /\ closed = "open"
  /\ happened < MaxEvents
  /\ happened' = happened + 1
  /\ exact' = ApplyEvent(exact, e)
  /\ IF Len(queue) < EventBuffer
       THEN queue' = Append(queue, e) /\ UNCHANGED <<reported, troubles>>
       ELSE /\ reported' = reported + 1
            /\ IF e.op = "hit" THEN UNCHANGED troubles ELSE Trouble
            /\ UNCHANGED queue
  /\ ask' = [ask EXCEPT !.alone = FALSE]
  /\ UNCHANGED <<batch, late, plugin, closed, untold>>

Events(s) == {i \in DOMAIN s : s[i].op \in Ops}

(* The sender takes what is there: no more than MaxBatch events, and       *)
(* nothing past a barrier unless that came first.  To close, it takes all. *)
Takeable(n) ==
  closed = "closing" \/
    /\ Cardinality(Events(SubSeq(queue, 1, n - 1))) < MaxBatch
    /\ \A i \in 2 .. n - 1 : queue[i].op \in Ops

TakePassingBarriers ==
  /\ closed # "closed"
  /\ batch = <<>> /\ queue # <<>>
  /\ LET n == Max({k \in 1 .. Len(queue) : Takeable(k)}) IN
       /\ batch' = SubSeq(queue, 1, n)
       /\ queue' = SubSeq(queue, n + 1, Len(queue))
  /\ ask' = IF Contains(batch', Barrier) THEN [ask EXCEPT !.pc = "call", !.synced = TRUE]
                                         ELSE ask
  /\ UNCHANGED <<late, plugin, reported, closed, happened, troubles, exact, untold>>

Take ==
  /\ closed # "closed"
  /\ batch = <<>> /\ queue # <<>>
  /\ LET n == Max({k \in 1 .. Len(queue) : Takeable(k)}) IN
       /\ batch' = SubSeq(queue, 1, n)
       /\ queue' = SubSeq(queue, n + 1, Len(queue))
  /\ UNCHANGED <<late, plugin, ask, reported, closed, happened, troubles, exact, untold>>

(* The barriers of a batch are let pass after the batch was posted, or its *)
(* post has failed.                                                        *)
Passed == Contains(batch, Barrier)

Post ==
  /\ batch # <<>>
  /\ \/ /\ plugin' = ApplyAll(plugin, batch)
        /\ UNCHANGED <<reported, troubles, late>>
     \/ /\ Events(batch) # {}
        /\ Trouble
        /\ reported' = reported + Cardinality(Events(batch))
        /\ \/ plugin' \in {plugin, ApplyAll(plugin, batch)} /\ UNCHANGED late
           \/ late' = batch /\ UNCHANGED plugin
  /\ batch' = <<>>
  /\ ask' = IF Passed THEN [ask EXCEPT !.pc = "call", !.synced = TRUE] ELSE ask
  /\ UNCHANGED <<queue, closed, happened, exact, untold>>

ArriveLate ==
  /\ late # <<>>
  /\ plugin' = ApplyAll(plugin, late)
  /\ late' = <<>>
  /\ UNCHANGED <<queue, batch, ask, reported, closed, happened, troubles, exact, untold>>

-------------------------------------------------------------------------------
(* Victim and Flush, which the cache calls one at a time                   *)

BeginAsk(op) ==
  /\ closed = "open"
  /\ ask.pc = "idle"
  /\ ask' = [IdleAsk EXCEPT !.pc = "sync", !.op = op, !.alone = TRUE]
  /\ UNCHANGED <<queue, batch, late, plugin, reported, closed, happened, troubles, exact, untold>>

SyncEvents ==
  /\ ask.pc = "sync"
  /\ Len(queue) < EventBuffer
  /\ queue' = Append(queue, Barrier)
  /\ ask' = [ask EXCEPT !.pc = "wait"]
  /\ UNCHANGED <<batch, late, plugin, reported, closed, happened, troubles, exact, untold>>

(* The barrier finds no room or does not pass in time, or the adapter is   *)
(* being closed.                                                           *)
SyncGivesUp ==
  /\ ask.pc \in {"sync", "wait"}
  /\ IF closed # "open" /\ ask.pc = "sync" THEN UNCHANGED troubles ELSE Trouble
  /\ ask' = [ask EXCEPT !.pc = "call"]
  /\ queue' = Abandoned(queue) /\ batch' = Abandoned(batch)
  /\ UNCHANGED <<late, plugin, reported, closed, happened, exact, untold>>

CallVictim ==
  /\ ask.pc = "call" /\ ask.op = "victim"
  /\ \/ ask' = [ask EXCEPT !.pc = "told", !.answer = PickVictim(plugin)] /\ UNCHANGED troubles
     \/ Trouble /\ ask' = IdleAsk
  /\ UNCHANGED <<queue, batch, late, plugin, reported, closed, happened, exact, untold>>

CallFlush ==
  /\ ask.pc = "call" /\ ask.op = "flush"
  /\ \/ plugin' = <<>> /\ UNCHANGED troubles
     \/ Trouble /\ plugin' \in {plugin, <<>>}
  /\ exact' = <<>>
  /\ untold' = (untold \/ queue # <<>> \/ batch # <<>> \/ late # <<>> \/ troubles' # troubles)
  /\ ask' = IdleAsk
  /\ UNCHANGED <<queue, batch, late, reported, closed, happened>>

EndAsk ==
  /\ ask.pc = "told"
  /\ ask' = IdleAsk
  /\ UNCHANGED <<queue, batch, late, plugin, reported, closed, happened, troubles, exact, untold>>

(* Close waits until the sender has delivered what is queued.              *)
Close ==
  /\ closed = "open"
  /\ closed' = "closing"
  /\ UNCHANGED <<queue, batch, late, plugin, ask, reported, happened, troubles, exact, untold>>

Closed ==
  /\ closed = "closing"
  /\ queue = <<>> /\ batch = <<>>
  /\ closed' = "closed"
  /\ UNCHANGED <<queue, batch, late, plugin, ask, reported, happened, troubles, exact, untold>>

PolicyNext ==
  \/ \E e \in Event : Notify(e)
  \/ Take \/ Post \/ ArriveLate
  \/ \E op \in {"victim", "flush"} : BeginAsk(op)
  \/ SyncEvents \/ SyncGivesUp \/ CallVictim \/ CallFlush \/ EndAsk
  \/ Close \/ Closed

PolicySpec == PolicyInit /\ [][PolicyNext]_policyVars

-------------------------------------------------------------------------------
(* Unless a lost event is reported or a flush went wrong: once all events  *)
(* are delivered the plugin orders the ids as the cache's calls did, also  *)
(* after a Close; and a Victim whose barrier passed, with no event of      *)
(* another caller since, gets the id a local policy would give             *)
(* (policy.go:24-29).                                                      *)
PolicyKeepsUp ==
  reported = 0 /\ ~untold =>
    /\ queue = <<>> /\ batch = <<>> => plugin = exact
    /\ closed = "closed" => plugin = exact
    /\ ask.pc = "told" /\ ask.synced /\ ask.alone => ask.answer = PickVictim(exact)
===============================================================================
