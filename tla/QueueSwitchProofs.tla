--------------------------- MODULE QueueSwitchProofs ---------------------------
(***************************************************************************)
(* A switch of the queue drops no job, lets two workers handle one job     *)
(* only after a lease on it ran out, never leaves the current queue        *)
(* without a worker unless it comes back while it is drained, and leaves   *)
(* no job behind in a queue whose drain was not cut short: for any number  *)
(* of jobs, adapters, switches, failing calls and crashes.                 *)
(***************************************************************************)
EXTENDS QueueSwitch, FiniteSetTheorems, SequenceTheorems, TLAPS

(* A worker has jobs in hand exactly while it handles or settles one; an   *)
(* adapter's worker has one at a time.                                     *)
HandsInOrder ==
  \A q \in Queues :
    /\ worker[q].pc \in {"none", "read", "done"} => worker[q].hand = << >>
    /\ worker[q].pc \in {"handle", "ack", "nack"} => worker[q].hand # << >>
    /\ worker[q].pc = "nack" => q # Builtin
    /\ q # Builtin => Len(worker[q].hand) <= 1

TypeInv == TypeOK /\ HandsInOrder

(* Between two switches nobody drains the current queue, which is not the  *)
(* one that was replaced; nothing works while the process is down.         *)
CurrentInv ==
  /\ replaced # cur
  /\ ~up => replaced = NoQueue /\ \A q \in Queues : drains[q] = 0 /\ ~Working(q)
  /\ ~returned /\ up =>
       /\ Working(cur) /\ ~worker[cur].cancelled /\ drains[cur] = 0
       /\ replaced # NoQueue =>
            /\ Working(replaced) /\ ~worker[replaced].cancelled
            /\ drains[replaced] = 0

(* Once a job is given to a queue its sender gives it to no other: the     *)
(* stream and the plugin's queue share no job, and neither has one twice.  *)
Given(j) == sender[j] \in {"accepted", "failed"}

Distinct(s) == \A i, k \in 1 .. Len(s) : s[i] = s[k] => i = k

PlacesInv ==
  /\ Distinct(order) /\ Distinct(stream)
  /\ \A j \in Kept : Given(j)
  /\ \A i \in 1 .. Len(stream) :
       Given(stream[i]) /\ attempts[stream[i]] = 0 /\ stream[i] \notin Kept
  /\ \A j \in Jobs : token[j] <= attempts[j]
  /\ \A j \in Jobs : attempts[j] > 0 \/ applied[j] > 0 => Given(j)
  /\ \A j \in hidden : token[j] > 0
  /\ \A p \in lapsed : p[2] \in 1 .. attempts[p[1]]

(* What the stream's worker has in hand was delivered, each at its place;  *)
(* what it has not come to was never applied.                              *)
StreamInv ==
  LET hand == worker[Builtin].hand
      pc == worker[Builtin].pc
  IN  /\ \A i \in DOMAIN hand :
           /\ hand[i].ref \in 1 .. lastDelivered
           /\ stream[hand[i].ref] = hand[i].job
      /\ \A i, k \in DOMAIN hand : hand[i].ref = hand[k].ref => i = k
      /\ \A i \in DOMAIN hand : pc = "handle" \/ i > 1 => applied[hand[i].job] = 0
      /\ \A i \in lastDelivered + 1 .. Len(stream) : applied[stream[i]] = 0

(* What an adapter's worker has in hand was leased to it alone; while it   *)
(* handles it the lease is the current one or has run out.                 *)
Unlapsed(j) == \A p \in lapsed : p[1] # j

LeaseHeld(q) ==
  worker[q].hand # << >> =>
    LET j == InHand(q).job
        t == InHand(q).ref
    IN  /\ t \in 1 .. attempts[j]
        /\ \A r \in Adapters \ {q} :
             worker[r].hand # << >> /\ InHand(r).job = j => InHand(r).ref # t
        /\ worker[q].pc = "handle" =>
             <<j, t>> \in lapsed \/ (token[j] = t /\ j \in hidden)
        /\ worker[q].pc = "handle" /\ Unlapsed(j) => applied[j] = 0
        /\ worker[q].pc = "nack" /\ token[j] = t /\ Unlapsed(j) => applied[j] = 0

AppliedOnce(j) ==
  Unlapsed(j) => /\ applied[j] <= 1
                 /\ j \in Kept \ hidden => applied[j] = 0

LeaseInv == (\A q \in Adapters : LeaseHeld(q)) /\ (\A j \in Jobs : AppliedOnce(j))

(* A job is acknowledged only after it was applied.                        *)
AckedInv ==
  /\ \A q \in Queues : worker[q].pc = "ack" => applied[InHand(q).job] > 0
  /\ NothingDropped

(* As long as no drain was cut short, a queue with jobs has a worker that  *)
(* nobody stops; without adapters nothing is in a plugin's queue.          *)
AttendedInv ==
  /\ Adapters = {} => Kept = {}
  /\ cut = {} /\ ~up => Adapters = {}
  /\ cut = {} /\ ~returned /\ up =>
       /\ Kept \ missed # {} =>
            \E q \in Adapters : Working(q) /\ ~worker[q].cancelled
       /\ (\E i \in lastDelivered + 1 .. Len(stream) : stream[i] \notin missed) =>
            Working(Builtin) /\ ~worker[Builtin].cancelled

DeliveryInv == PlacesInv /\ StreamInv /\ LeaseInv /\ AckedInv

IInv == TypeInv /\ CurrentInv /\ DeliveryInv /\ AttendedInv

-------------------------------------------------------------------------------
(* Queues, workers and the steps of one worker                             *)

LEMMA QueueFacts ==
  /\ Builtin \in Queues /\ Builtin \notin Adapters /\ Adapters \subseteq Queues
  /\ NoQueue \notin Queues /\ Queues = Adapters \cup {Builtin}
  /\ Queues \cap {"new", "accepted", "failed"} = {}
  /\ BatchSize \in Nat \ {0} /\ MaxTries = 3
  BY QueueAssumption, BatchAssumption DEF Queues, MaxTries

LEMMA FreshWorker ==
  /\ NoWorker \in Worker /\ NoWorker.pc = "none" /\ NoWorker.hand = << >>
  /\ Fresh \in Worker /\ Fresh.pc = "read" /\ Fresh.hand = << >> /\ ~Fresh.cancelled
<1>1. /\ NoWorker \in Worker /\ NoWorker.pc = "none" /\ NoWorker.hand = << >>
      /\ NoWorker.cancelled = FALSE /\ NoWorker.tries = 0
  BY DEF NoWorker, Worker, MaxTries
<1>2. Fresh.pc = "read" /\ Fresh.cancelled = FALSE /\ Fresh.tries = 0 /\ Fresh.hand = << >>
  BY DEF NoWorker, Fresh
<1>3. Fresh \in Worker
  BY <1>1 DEF Fresh, Worker
<1> QED
  BY <1>1, <1>2, <1>3

(* The worker of q changes to w and no other does.                         *)
BecomesWorker(q, w) ==
  worker' \in [Queues -> Worker] /\ worker'[q] = w /\ \A r \in Queues \ {q} : worker'[r] = worker[r]

LEMMA GotoKeeps ==
  ASSUME NEW q \in Queues, NEW pc \in {"read", "handle", "ack", "nack", "done"},
         worker \in [Queues -> Worker], Goto(q, pc)
  PROVE  /\ BecomesWorker(q, worker'[q])
         /\ worker'[q].pc = pc /\ worker'[q].hand = worker[q].hand
         /\ worker'[q].cancelled = worker[q].cancelled
<1>0. worker[q] \in Worker
  OBVIOUS
<1> DEFINE w == [worker[q] EXCEPT !.pc = pc, !.tries = 0]
<1>1. worker' = [worker EXCEPT ![q] = w]
  BY DEF Goto
<1>2. /\ w.pc = pc /\ w.hand = worker[q].hand /\ w.cancelled = worker[q].cancelled
  BY <1>0 DEF Worker
<1>3. /\ w.pc \in {"none", "read", "handle", "ack", "nack", "done"} /\ w.cancelled \in BOOLEAN
      /\ w.tries \in 0 .. MaxTries /\ w.hand \in Seq([job : Jobs, ref : Nat])
  BY <1>0 DEF Worker, MaxTries
<1>4. w \in Worker
  BY <1>0, <1>3 DEF Worker
<1> HIDE DEF w
<1> QED
  BY <1>1, <1>2, <1>4 DEF BecomesWorker

LEMMA FetchedKeeps ==
  ASSUME NEW q \in Queues, NEW batch \in Seq([job : Jobs, ref : Nat]),
         worker \in [Queues -> Worker], Fetched(q, batch)
  PROVE  /\ BecomesWorker(q, worker'[q])
         /\ worker'[q].pc = "handle" /\ worker'[q].hand = batch
         /\ worker'[q].cancelled = worker[q].cancelled
<1> DEFINE w == [worker[q] EXCEPT !.pc = "handle", !.hand = batch]
<1>1. worker' = [worker EXCEPT ![q] = w]
  BY DEF Fetched
<1>2. w \in Worker /\ w.pc = "handle" /\ w.hand = batch /\ w.cancelled = worker[q].cancelled
  BY DEF Worker
<1> HIDE DEF w
<1> QED
  BY <1>1, <1>2 DEF BecomesWorker

(* The rest of a hand.                                                     *)
LEMMA RestOfHand ==
  ASSUME NEW h \in Seq([job : Jobs, ref : Nat]), h # << >>
  PROVE  /\ Tail(h) \in Seq([job : Jobs, ref : Nat])
         /\ Head(h) = h[1] /\ Head(h) \in [job : Jobs, ref : Nat]
         /\ Len(h) \in Nat \ {0} /\ Len(Tail(h)) = Len(h) - 1
         /\ DOMAIN Tail(h) = 1 .. Len(h) - 1 /\ DOMAIN h = 1 .. Len(h)
         /\ \A i \in 1 .. Len(h) - 1 : Tail(h)[i] = h[i + 1]
<1>1. /\ Tail(h) \in Seq([job : Jobs, ref : Nat]) /\ Len(Tail(h)) = Len(h) - 1
      /\ Len(h) \in Nat \ {0} /\ Head(h) = h[1] /\ Head(h) \in [job : Jobs, ref : Nat]
      /\ \A i \in 1 .. Len(h) - 1 : Tail(h)[i] = h[i + 1]
  <2>1. /\ Tail(h) \in Seq([job : Jobs, ref : Nat]) /\ Len(Tail(h)) = Len(h) - 1
        /\ Head(h) \in [job : Jobs, ref : Nat]
        /\ \A i \in 1 .. Len(Tail(h)) : Tail(h)[i] = h[i + 1]
    BY HeadTailProperties
  <2>2. Len(h) \in Nat \ {0} /\ Head(h) = h[1]
    BY EmptySeq
  <2> QED
    BY <2>1, <2>2
<1>2. DOMAIN Tail(h) = 1 .. Len(h) - 1 /\ DOMAIN h = 1 .. Len(h)
  BY <1>1, LenProperties
<1> QED
  BY <1>1, <1>2

LEMMA NextKeeps ==
  ASSUME NEW q \in Queues, worker \in [Queues -> Worker], worker[q].hand # << >>,
         NextInHand(q)
  PROVE  /\ BecomesWorker(q, worker'[q])
         /\ worker'[q].pc \in {"handle", "done", "read"}
         /\ worker'[q].hand = Tail(worker[q].hand)
         /\ worker'[q].cancelled = worker[q].cancelled
         /\ worker'[q].pc = "handle" <=> Tail(worker[q].hand) # << >>
         /\ worker'[q].pc = "done" => worker[q].cancelled
<1> DEFINE rest == Tail(worker[q].hand)
           pc == CASE rest # << >> -> "handle"
                   [] rest = << >> /\ worker[q].cancelled -> "done"
                   [] OTHER -> "read"
           w == [worker[q] EXCEPT !.pc = pc, !.tries = 0, !.hand = rest]
<1>1. worker' = [worker EXCEPT ![q] = w]
  BY DEF NextInHand
<1>2. worker[q] \in Worker /\ worker[q].hand \in Seq([job : Jobs, ref : Nat])
  BY DEF Worker
<1>3. rest \in Seq([job : Jobs, ref : Nat])
  BY <1>2, RestOfHand
<1>4. /\ pc \in {"handle", "done", "read"}
      /\ pc = "handle" <=> rest # << >>
      /\ pc = "done" => worker[q].cancelled
  OBVIOUS
<1> HIDE DEF rest, pc
<1>5. /\ w.pc = pc /\ w.hand = rest /\ w.cancelled = worker[q].cancelled
  BY <1>2 DEF Worker
<1>6. w \in Worker
  <2>1. /\ w.pc \in {"none", "read", "handle", "ack", "nack", "done"} /\ w.cancelled \in BOOLEAN
        /\ w.tries \in 0 .. MaxTries /\ w.hand \in Seq([job : Jobs, ref : Nat])
    BY <1>2, <1>3, <1>4 DEF Worker, MaxTries
  <2> QED
    BY <2>1, <1>2 DEF Worker
<1> HIDE DEF w
<1>7. BecomesWorker(q, w) /\ worker'[q] = w
  BY <1>1, <1>6 DEF BecomesWorker
<1> QED
  BY <1>4, <1>5, <1>7 DEF rest

LEMMA RetryKeeps ==
  ASSUME NEW q \in Queues, worker \in [Queues -> Worker], worker[q].hand # << >>, Retry(q)
  PROVE  \/ NextInHand(q)
         \/ /\ BecomesWorker(q, worker'[q])
            /\ worker'[q].pc = worker[q].pc /\ worker'[q].hand = worker[q].hand
            /\ worker'[q].cancelled = worker[q].cancelled
<1> DEFINE w == [worker[q] EXCEPT !.tries = @ + 1]
<1>1. CASE worker[q].tries + 1 < MaxTries
  <2>1. worker' = [worker EXCEPT ![q] = w]
    BY <1>1 DEF Retry
  <2>2. /\ w.pc = worker[q].pc /\ w.hand = worker[q].hand
        /\ w.cancelled = worker[q].cancelled
    BY DEF Worker
  <2>3. worker[q].tries + 1 \in 0 .. MaxTries /\ worker[q] \in Worker
    <3>1. worker[q] \in Worker
      OBVIOUS
    <3>2. worker[q].tries \in 0 .. 3
      BY <3>1 DEF Worker, MaxTries
    <3> QED
      BY <1>1, <3>1, <3>2 DEF MaxTries
  <2>4. w \in Worker
    BY <2>3 DEF Worker
  <2> HIDE DEF w
  <2> QED
    BY <2>1, <2>2, <2>4 DEF BecomesWorker
<1>2. CASE ~(worker[q].tries + 1 < MaxTries)
  BY <1>2 DEF Retry
<1> QED
  BY <1>1, <1>2

LEMMA StartedKeeps ==
  ASSUME NEW q \in Queues, worker \in [Queues -> Worker], worker' = Started(q)
  PROVE  /\ BecomesWorker(q, worker'[q])
         /\ Working(q) => worker'[q] = worker[q]
         /\ ~Working(q) => worker'[q] = Fresh
  BY FreshWorker DEF Started, BecomesWorker

LEMMA DrainKeeps ==
  ASSUME NEW q \in Queues, worker \in [Queues -> Worker],
         worker' = [worker EXCEPT ![q].cancelled = (@ \/ Working(q))]
  PROVE  /\ BecomesWorker(q, worker'[q])
         /\ worker'[q].pc = worker[q].pc /\ worker'[q].hand = worker[q].hand
<1> DEFINE w == [worker[q] EXCEPT !.cancelled = (@ \/ Working(q))]
<1>1. worker' = [worker EXCEPT ![q] = w]
  OBVIOUS
<1>2. w \in Worker /\ w.pc = worker[q].pc /\ w.hand = worker[q].hand
  BY DEF Worker
<1> HIDE DEF w
<1> QED
  BY <1>1, <1>2 DEF BecomesWorker

-------------------------------------------------------------------------------
(* The two queues                                                          *)

LEMMA BatchRange ==
  ASSUME QueueTypeOK(Jobs), HasNew
  PROVE  /\ BatchEnd \in lastDelivered + 1 .. Len(stream) /\ Len(stream) \in Nat
         /\ lastDelivered \in Nat
<1>1. Len(stream) \in Nat /\ lastDelivered \in 0 .. Len(stream)
  BY DEF QueueTypeOK
<1> QED
  BY <1>1, QueueFacts DEF HasNew, BatchEnd

LEMMA StreamTypes ==
  ASSUME QueueTypeOK(Jobs)
  PROVE  /\ \A j \in Jobs : XAdd(j) => QueueTypeOK(Jobs)'
         /\ XReadGroup => QueueTypeOK(Jobs)'
         /\ \A k \in Nat : XAck(k) => QueueTypeOK(Jobs)'
         /\ XReadGroup => Batch \in Seq([job : Jobs, ref : Nat]) /\ Batch # << >>
<1>1. /\ stream \in Seq(Jobs) /\ Len(stream) \in Nat /\ lastDelivered \in 0 .. Len(stream)
      /\ pending \subseteq 1 .. lastDelivered
  BY DEF QueueTypeOK
<1>2. ASSUME NEW j \in Jobs, XAdd(j) PROVE QueueTypeOK(Jobs)'
  <2>1. stream' \in Seq(Jobs) /\ Len(stream') = Len(stream) + 1
    BY <1>1, <1>2, AppendProperties DEF XAdd
  <2> QED
    BY <1>1, <1>2, <2>1 DEF XAdd, QueueTypeOK
<1>3. ASSUME XReadGroup PROVE QueueTypeOK(Jobs)'
  <2>1. /\ BatchEnd \in lastDelivered + 1 .. Len(stream)
        /\ lastDelivered' = BatchEnd /\ stream' = stream
        /\ pending' = pending \cup (lastDelivered + 1) .. BatchEnd
    BY <1>3, BatchRange DEF XReadGroup
  <2> HIDE DEF BatchEnd
  <2>2. lastDelivered' \in 0 .. Len(stream') /\ pending' \subseteq 1 .. lastDelivered'
    BY <1>1, <2>1
  <2> QED
    BY <1>1, <2>1, <2>2 DEF QueueTypeOK
<1>4. ASSUME NEW k \in Nat, XAck(k) PROVE QueueTypeOK(Jobs)'
  BY <1>1, <1>4 DEF XAck, QueueTypeOK
<1>5. ASSUME XReadGroup PROVE Batch \in Seq([job : Jobs, ref : Nat]) /\ Batch # << >>
  <2>1. BatchEnd \in lastDelivered + 1 .. Len(stream)
    BY <1>5, BatchRange DEF XReadGroup
  <2>2. BatchEnd - lastDelivered \in Nat \ {0}
    BY <1>1, <2>1
  <2>3. \A i \in 1 .. BatchEnd - lastDelivered :
          /\ lastDelivered + i \in 1 .. Len(stream) /\ lastDelivered + i \in Nat
          /\ stream[lastDelivered + i] \in Jobs
    BY <1>1, <2>1
  <2> DEFINE e(i) == [job |-> stream[lastDelivered + i], ref |-> lastDelivered + i]
             n == BatchEnd - lastDelivered
  <2>4. \A i \in 1 .. n : e(i) \in [job : Jobs, ref : Nat]
    BY <2>3
  <2>5. Batch = [i \in 1 .. n |-> e(i)]
    BY DEF Batch
  <2> HIDE DEF e, n
  <2>6. n \in Nat \ {0}
    BY <2>2 DEF n
  <2>7. [i \in 1 .. n |-> e(i)] \in Seq([job : Jobs, ref : Nat])
    BY <2>4, <2>6, IsASeq
  <2>8. Batch # << >>
    BY <2>5, <2>6
  <2> QED
    BY <2>5, <2>7, <2>8
<1> QED
  BY <1>2, <1>3, <1>4, <1>5

(* A job leaves the plugin's queue, and the others stay in their order.    *)
LEMMA Removing ==
  ASSUME NEW s \in Seq(Jobs), NEW i \in 1 .. Len(s)
  PROVE  /\ RemoveAt(s, i) \in Seq(Jobs)
         /\ Len(RemoveAt(s, i)) = Len(s) - 1
         /\ \A k \in 1 .. Len(s) - 1 : RemoveAt(s, i)[k] = IF k < i THEN s[k] ELSE s[k + 1]
<1> DEFINE a == SubSeq(s, 1, i - 1)
           b == SubSeq(s, i + 1, Len(s))
<1>1. Len(s) \in Nat /\ \A k \in 1 .. Len(s) : s[k] \in Jobs
  OBVIOUS
<1>2. /\ a \in Seq(Jobs) /\ Len(a) = i - 1
      /\ \A k \in 1 .. i - 1 : a[k] = s[k]
  <2>1. 1 \in Int /\ i - 1 \in Int /\ \A k \in 1 .. i - 1 : s[k] \in Jobs
    BY <1>1
  <2>2. /\ a \in Seq(Jobs) /\ Len(a) = (IF 1 <= i - 1 THEN i - 1 - 1 + 1 ELSE 0)
        /\ \A k \in 1 .. i - 1 - 1 + 1 : a[k] = s[1 + k - 1]
    BY <2>1, SubSeqProperties
  <2> QED
    BY <1>1, <2>2
<1>3. /\ b \in Seq(Jobs) /\ Len(b) = Len(s) - i
      /\ \A k \in 1 .. Len(s) - i : b[k] = s[i + k]
  <2>1. i + 1 \in Int /\ Len(s) \in Int /\ \A k \in i + 1 .. Len(s) : s[k] \in Jobs
    BY <1>1
  <2>2. /\ b \in Seq(Jobs) /\ Len(b) = (IF i + 1 <= Len(s) THEN Len(s) - (i + 1) + 1 ELSE 0)
        /\ \A k \in 1 .. Len(s) - (i + 1) + 1 : b[k] = s[i + 1 + k - 1]
    BY <2>1, SubSeqProperties
  <2> QED
    BY <1>1, <2>2
<1> HIDE DEF a, b
<1>4. RemoveAt(s, i) = a \o b
  BY DEF RemoveAt, a, b
<1>5. /\ a \o b \in Seq(Jobs) /\ Len(a \o b) = Len(a) + Len(b)
      /\ \A k \in 1 .. Len(a) + Len(b) :
           (a \o b)[k] = IF k <= Len(a) THEN a[k] ELSE b[k - Len(a)]
  BY <1>2, <1>3, ConcatProperties
<1>6. Len(a) + Len(b) = Len(s) - 1
  BY <1>1, <1>2, <1>3
<1>7. ASSUME NEW k \in 1 .. Len(s) - 1
      PROVE  (a \o b)[k] = IF k < i THEN s[k] ELSE s[k + 1]
  <2>1. CASE k < i
    <3>1. k <= Len(a) /\ k \in 1 .. i - 1
      BY <1>1, <1>2, <2>1
    <3> QED
      BY <1>2, <1>5, <1>6, <2>1, <3>1
  <2>2. CASE ~(k < i)
    <3>1. ~(k <= Len(a)) /\ k - Len(a) \in 1 .. Len(s) - i /\ i + (k - Len(a)) = k + 1
      BY <1>1, <1>2, <2>2
    <3> QED
      BY <1>3, <1>5, <1>6, <2>2, <3>1
  <2> QED
    BY <2>1, <2>2
<1> QED
  BY <1>4, <1>5, <1>6, <1>7

LEMMA LeaseTypes ==
  ASSUME LeaseTypeOK, NEW j \in Jobs
  PROVE  /\ AddJob(j) => LeaseTypeOK'
         /\ Lease(j) => LeaseTypeOK'
         /\ \A action, t : Settle(action, j, t) => LeaseTypeOK'
         /\ Expire(j) => LeaseTypeOK'
<1>1. /\ order \in Seq(Jobs) /\ attempts \in [Jobs -> Nat] /\ token \in [Jobs -> Nat]
      /\ hidden \subseteq Jobs
  BY DEF LeaseTypeOK
<1>2. ASSUME AddJob(j) PROVE LeaseTypeOK'
  <2>1. order' \in Seq(Jobs)
    BY <1>1, <1>2, AppendProperties DEF AddJob
  <2> QED
    BY <1>1, <1>2, <2>1 DEF AddJob, LeaseTypeOK
<1>3. ASSUME Lease(j) PROVE LeaseTypeOK'
  BY <1>1, <1>3 DEF Lease, LeaseTypeOK
<1>4. ASSUME AckJob(j) PROVE LeaseTypeOK'
  <2>1. order' \in Seq(Jobs)
    BY <1>1, <1>4, Removing DEF AckJob
  <2> QED
    BY <1>1, <1>4, <2>1 DEF AckJob, LeaseTypeOK
<1>5. ASSUME NackJob(j) PROVE LeaseTypeOK'
  BY <1>1, <1>5 DEF NackJob, LeaseTypeOK
<1>6. ASSUME NEW action, NEW t, Settle(action, j, t) PROVE LeaseTypeOK'
  BY <1>1, <1>4, <1>5, <1>6 DEF Settle, leaseVars, LeaseTypeOK
<1>7. ASSUME Expire(j) PROVE LeaseTypeOK'
  BY <1>1, <1>7 DEF Expire, LeaseTypeOK
<1> QED
  BY <1>2, <1>3, <1>6, <1>7

-------------------------------------------------------------------------------
(* Types and hands                                                         *)

LEMMA TypesOf ==
  ASSUME TypeInv
  PROVE  /\ QueueTypeOK(Jobs) /\ LeaseTypeOK /\ up \in BOOLEAN /\ cur \in Queues
         /\ selected \in {"builtin", "plugin"} /\ replaced \in Queues \cup {NoQueue}
         /\ unused \subseteq Adapters /\ worker \in [Queues -> Worker]
         /\ drains \in [Queues -> Nat]
         /\ sender \in [Jobs -> Queues \cup {"new", "accepted", "failed"}]
         /\ applied \in [Jobs -> Nat] /\ spent \in [Events -> Nat]
         /\ lapsed \subseteq Jobs \X Nat /\ returned \in BOOLEAN
         /\ cut \subseteq Queues /\ missed \subseteq Jobs
  BY DEF TypeInv, TypeOK

LEMMA Spending ==
  ASSUME TypeInv, \/ Answered \/ \E e \in Events : Spend(e)
                  \/ \E c : Refused(c) \/ ReplyLost(c)
  PROVE  spent' \in [Events -> Nat]
<1>1. spent \in [Events -> Nat] /\ "mishap" \in Events
  BY TypesOf DEF Events
<1>2. ASSUME NEW e \in Events, Spend(e) PROVE spent' \in [Events -> Nat]
  BY <1>1, <1>2 DEF Spend
<1> QED
  BY <1>1, <1>2 DEF Answered, Refused, ReplyLost

(* What a worker has in hand is a job under the name it was fetched by.    *)
LEMMA HandOf ==
  ASSUME TypeInv, NEW q \in Queues
  PROVE  /\ worker[q].hand \in Seq([job : Jobs, ref : Nat])
         /\ worker[q].hand # << >> =>
              /\ InHand(q) = worker[q].hand[1] /\ InHand(q) \in [job : Jobs, ref : Nat]
              /\ InHand(q).job \in Jobs /\ InHand(q).ref \in Nat
              /\ Len(worker[q].hand) \in Nat \ {0}
         /\ worker[q].hand # << >> <=> worker[q].pc \in {"handle", "ack", "nack"}
<1>1. worker[q] \in Worker
  BY TypesOf
<1>2. worker[q].hand \in Seq([job : Jobs, ref : Nat])
  BY <1>1 DEF Worker
<1>3. ASSUME worker[q].hand # << >>
      PROVE  /\ InHand(q) = worker[q].hand[1] /\ InHand(q) \in [job : Jobs, ref : Nat]
             /\ Len(worker[q].hand) \in Nat \ {0}
  BY <1>2, <1>3, RestOfHand DEF InHand
<1>4. worker[q].hand # << >> <=> worker[q].pc \in {"handle", "ack", "nack"}
  BY <1>1 DEF Worker, TypeInv, HandsInOrder
<1> QED
  BY <1>2, <1>3, <1>4

(* A step of the worker of q that keeps the hands in order.                *)
LEMMA HandsKept ==
  ASSUME TypeInv, NEW q \in Queues, BecomesWorker(q, worker'[q]),
         worker'[q].pc \in {"none", "read", "done"} => worker'[q].hand = << >>,
         worker'[q].pc \in {"handle", "ack", "nack"} => worker'[q].hand # << >>,
         worker'[q].pc = "nack" => q # Builtin,
         q # Builtin => Len(worker'[q].hand) <= 1
  PROVE  worker' \in [Queues -> Worker] /\ HandsInOrder'
  BY DEF TypeInv, HandsInOrder, BecomesWorker

LEMMA NextHandsKept ==
  ASSUME TypeInv, NEW q \in Queues, worker[q].hand # << >>, NextInHand(q)
  PROVE  worker' \in [Queues -> Worker] /\ HandsInOrder'
<1>1. worker \in [Queues -> Worker] /\ worker[q].hand \in Seq([job : Jobs, ref : Nat])
  BY TypesOf, HandOf
<1>2. /\ BecomesWorker(q, worker'[q]) /\ worker'[q].pc \in {"handle", "done", "read"}
      /\ worker'[q].hand = Tail(worker[q].hand)
      /\ worker'[q].pc = "handle" <=> Tail(worker[q].hand) # << >>
  BY <1>1, NextKeeps
<1>3. Len(worker'[q].hand) = Len(worker[q].hand) - 1 /\ Len(worker[q].hand) \in Nat \ {0}
  BY <1>1, <1>2, RestOfHand
<1>4. q # Builtin => Len(worker'[q].hand) <= 1
  BY <1>3 DEF TypeInv, HandsInOrder
<1> QED
  BY <1>2, <1>4, HandsKept

LEMMA RetryHandsKept ==
  ASSUME TypeInv, NEW q \in Queues, worker[q].hand # << >>, Retry(q)
  PROVE  worker' \in [Queues -> Worker] /\ HandsInOrder'
<1>1. worker \in [Queues -> Worker]
  BY TypesOf
<1>2. \/ NextInHand(q)
      \/ /\ BecomesWorker(q, worker'[q])
         /\ worker'[q].pc = worker[q].pc /\ worker'[q].hand = worker[q].hand
  BY <1>1, RetryKeeps
<1>3. CASE NextInHand(q)
  BY <1>3, NextHandsKept
<1>4. CASE /\ BecomesWorker(q, worker'[q])
           /\ worker'[q].pc = worker[q].pc /\ worker'[q].hand = worker[q].hand
  BY <1>4, HandsKept DEF TypeInv, HandsInOrder
<1> QED
  BY <1>2, <1>3, <1>4

LEMMA GotoHandsKept ==
  ASSUME TypeInv, NEW q \in Queues, NEW pc \in {"read", "handle", "ack", "nack", "done"},
         pc \in {"handle", "ack", "nack"} <=> worker[q].hand # << >>,
         pc = "nack" => q # Builtin, Goto(q, pc)
  PROVE  worker' \in [Queues -> Worker] /\ HandsInOrder'
<1>1. /\ BecomesWorker(q, worker'[q]) /\ worker'[q].pc = pc
      /\ worker'[q].hand = worker[q].hand
  BY TypesOf, GotoKeeps
<1>2. q # Builtin => Len(worker[q].hand) <= 1
  BY DEF TypeInv, HandsInOrder
<1> QED
  BY <1>1, <1>2, HandsKept

LEMMA StartedHandsKept ==
  ASSUME TypeInv, NEW q \in Queues, worker' = Started(q)
  PROVE  worker' \in [Queues -> Worker] /\ HandsInOrder'
<1>1. BecomesWorker(q, worker'[q]) /\ worker'[q] \in {worker[q], Fresh}
  BY TypesOf, StartedKeeps
<1>2. Len(<< >>) = 0
  OBVIOUS
<1> QED
  BY <1>1, <1>2, FreshWorker, HandsKept DEF TypeInv, HandsInOrder

LEMMA LeaseHandsKept ==
  ASSUME TypeInv, NEW q \in Queues, NEW j \in Jobs, NEW n \in Nat,
         Fetched(q, <<[job |-> j, ref |-> n]>>)
  PROVE  worker' \in [Queues -> Worker] /\ HandsInOrder'
<1>1. PICK batch \in Seq([job : Jobs, ref : Nat]) :
        batch = <<[job |-> j, ref |-> n]>> /\ Len(batch) = 1 /\ batch # << >>
  <2>1. PICK x \in [job : Jobs, ref : Nat] : x = [job |-> j, ref |-> n]
    OBVIOUS
  <2>2. <<x>> \in Seq([job : Jobs, ref : Nat]) /\ Len(<<x>>) = 1 /\ <<x>> # << >>
    OBVIOUS
  <2> QED
    BY <2>1, <2>2
<1>2. /\ BecomesWorker(q, worker'[q]) /\ worker'[q].pc = "handle" /\ worker'[q].hand = batch
  BY <1>1, TypesOf, FetchedKeeps
<1>3. worker'[q].hand # << >> /\ Len(worker'[q].hand) <= 1
  BY <1>1, <1>2
<1> QED
  BY <1>2, <1>3, HandsKept

LEMMA WorkerTypes ==
  ASSUME TypeInv, NEW q \in Queues, WorkerStep(q)
  PROVE  TypeInv'
<1> USE TypesOf
<1>1. CASE StopReading(q)
  <2>1. worker' \in [Queues -> Worker] /\ HandsInOrder'
    BY <1>1, GotoHandsKept, HandOf DEF StopReading, At
  <2> QED
    BY <1>1, <2>1 DEF StopReading, TypeInv, TypeOK, storeVars, queueVars, leaseVars,
       WorkerUnchanged, slotVars, QueueTypeOK, LeaseTypeOK
<1>2. CASE Handle(q)
  <2>1. worker[q].hand # << >> /\ InHand(q).job \in Jobs
    BY <1>2, HandOf DEF Handle, At
  <2>2. worker' \in [Queues -> Worker] /\ HandsInOrder'
    <3>1. CASE Goto(q, "ack") \/ (q # Builtin /\ Goto(q, "nack"))
      BY <2>1, <3>1, GotoHandsKept
    <3>2. CASE NextInHand(q)
      BY <2>1, <3>2, NextHandsKept
    <3> QED
      BY <1>2, <3>1, <3>2 DEF Handle
  <2>3. applied' \in [Jobs -> Nat]
    BY <1>2, <2>1 DEF Handle
  <2>4. spent' \in [Events -> Nat]
    BY <1>2, Spending DEF Handle, Events
  <2> QED
    BY <1>2, <2>2, <2>3, <2>4 DEF Handle, TypeInv, TypeOK, storeVars, queueVars, leaseVars,
       WorkerUnchanged, slotVars, QueueTypeOK, LeaseTypeOK
<1>3. CASE SettleLease(q)
  <2>1. worker[q].hand # << >> /\ InHand(q).job \in Jobs
    BY <1>3, HandOf DEF SettleLease
  <2>2. worker' \in [Queues -> Worker] /\ HandsInOrder'
    BY <1>3, <2>1, NextHandsKept, RetryHandsKept DEF SettleLease
  <2>3. LeaseTypeOK'
    BY <1>3, <2>1, LeaseTypes DEF SettleLease, leaseVars, LeaseTypeOK
  <2>4. spent' \in [Events -> Nat]
    BY <1>3, Spending DEF SettleLease
  <2> QED
    BY <1>3, <2>2, <2>3, <2>4 DEF SettleLease, TypeInv, TypeOK, queueVars,
       WorkerUnchanged, slotVars, QueueTypeOK
<1>4. CASE q = Builtin /\ FetchBatch
  <2>1. XReadGroup /\ Fetched(q, Batch)
    BY <1>4 DEF FetchBatch
  <2>2. QueueTypeOK(Jobs)' /\ Batch \in Seq([job : Jobs, ref : Nat]) /\ Batch # << >>
    BY <2>1, StreamTypes
  <2>3. BecomesWorker(q, worker'[q]) /\ worker'[q].pc = "handle" /\ worker'[q].hand = Batch
    BY <2>1, <2>2, FetchedKeeps
  <2>4. worker' \in [Queues -> Worker] /\ HandsInOrder'
    BY <1>4, <2>2, <2>3, HandsKept
  <2> QED
    BY <1>4, <2>2, <2>4 DEF FetchBatch, TypeInv, TypeOK, leaseVars, LeaseTypeOK,
       WorkerUnchanged, slotVars
<1>5. CASE q = Builtin /\ AckStream
  <2>1. worker[q].hand # << >> /\ InHand(q).ref \in Nat
    BY <1>5, HandOf DEF AckStream, At
  <2>2. worker' \in [Queues -> Worker] /\ HandsInOrder'
    <3>1. NextInHand(q)
      BY <1>5 DEF AckStream
    <3> QED
      BY <2>1, <3>1, NextHandsKept
  <2>3. QueueTypeOK(Jobs)'
    BY <1>5, <2>1, StreamTypes DEF AckStream, queueVars, QueueTypeOK
  <2>4. spent' \in [Events -> Nat]
    BY <1>5, Spending DEF AckStream
  <2> QED
    BY <1>5, <2>2, <2>3, <2>4 DEF AckStream, TypeInv, TypeOK, leaseVars, LeaseTypeOK,
       WorkerUnchanged, slotVars
<1>6. CASE \E j \in Jobs : FetchLease(q, j)
  <2>1. PICK j \in Jobs : FetchLease(q, j)
    BY <1>6
  <2>2. LeaseTypeOK' /\ attempts[j] + 1 \in Nat
    BY <2>1, LeaseTypes DEF FetchLease, LeaseTypeOK
  <2>3. worker[q].hand = << >>
    BY <2>1, HandOf DEF FetchLease, At
  <2>4. worker' \in [Queues -> Worker] /\ HandsInOrder'
    <3>1. CASE Fetched(q, <<[job |-> j, ref |-> attempts[j] + 1]>>)
      BY <2>2, <3>1, LeaseHandsKept
    <3>2. CASE UNCHANGED worker
      BY <3>2 DEF TypeInv, HandsInOrder
    <3>3. CASE Goto(q, "done")
      BY <2>3, <3>3, GotoHandsKept
    <3> QED
      BY <2>1, <3>1, <3>2, <3>3 DEF FetchLease
  <2>5. spent' \in [Events -> Nat]
    BY <2>1, Spending DEF FetchLease
  <2> QED
    BY <2>1, <2>2, <2>4, <2>5 DEF FetchLease, TypeInv, TypeOK, queueVars, QueueTypeOK,
       WorkerUnchanged, slotVars
<1> QED
  BY <1>1, <1>2, <1>3, <1>4, <1>5, <1>6 DEF WorkerStep

LEMMA OtherTypes ==
  ASSUME TypeInv, Next, ~ \E q \in Queues : WorkerStep(q)
  PROVE  TypeInv'
<1> USE TypesOf DEF storeVars, slotVars, historyVars
<1>1. ASSUME NEW j \in Jobs, ReadCurrent(j) PROVE TypeInv'
  <2>1. sender' \in [Jobs -> Queues \cup {"new", "accepted", "failed"}]
    BY <1>1 DEF ReadCurrent
  <2> QED
    BY <1>1, <2>1 DEF ReadCurrent, TypeInv, TypeOK, queueVars, leaseVars, QueueTypeOK,
       LeaseTypeOK, HandsInOrder
<1>2. ASSUME NEW j \in Jobs, Enqueue(j) PROVE TypeInv'
  <2>1. sender' \in [Jobs -> Queues \cup {"new", "accepted", "failed"}]
    BY <1>2 DEF Enqueue
  <2>2. QueueTypeOK(Jobs)' /\ LeaseTypeOK'
    <3>1. CASE Put(sender[j], j)
      BY <3>1, StreamTypes, LeaseTypes DEF Put, queueVars, leaseVars, QueueTypeOK, LeaseTypeOK
    <3>2. CASE UNCHANGED storeVars
      BY <3>2 DEF queueVars, leaseVars, QueueTypeOK, LeaseTypeOK
    <3> QED
      BY <1>2, <3>1, <3>2 DEF Enqueue
  <2>3. spent' \in [Events -> Nat] /\ missed' \subseteq Jobs
    BY <1>2, Spending DEF Enqueue
  <2> QED
    BY <1>2, <2>1, <2>2, <2>3 DEF Enqueue, TypeInv, TypeOK, HandsInOrder
<1>3. ASSUME NEW j \in Jobs, LeaseLapses(j) PROVE TypeInv'
  <2>1. LeaseTypeOK' /\ lapsed' \subseteq Jobs \X Nat
    BY <1>3, LeaseTypes DEF LeaseLapses, LeaseTypeOK
  <2>2. spent' \in [Events -> Nat]
    BY <1>3, Spending DEF LeaseLapses, Events
  <2> QED
    BY <1>3, <2>1, <2>2 DEF LeaseLapses, TypeInv, TypeOK, HandsInOrder, queueVars,
       QueueTypeOK, WorkerUnchanged
<1>4. ASSUME NEW q \in Queues, Switch(q) PROVE TypeInv'
  <2>1. worker' \in [Queues -> Worker] /\ HandsInOrder'
    BY <1>4, StartedHandsKept DEF Switch, Swap
  <2>2. spent' \in [Events -> Nat] /\ returned' \in BOOLEAN
    BY <1>4, Spending DEF Switch, Swap, Events
  <2> QED
    BY <1>4, <2>1, <2>2 DEF Switch, Swap, SwapUnchanged, TypeInv, TypeOK, queueVars,
       leaseVars, QueueTypeOK, LeaseTypeOK
<1>5. ASSUME NEW q \in Queues, Drain(q) PROVE TypeInv'
  <2>1. worker' \in [Queues -> Worker] /\ HandsInOrder'
    <3>1. /\ BecomesWorker(q, worker'[q]) /\ worker'[q].pc = worker[q].pc
          /\ worker'[q].hand = worker[q].hand
      BY <1>5, DrainKeeps DEF Drain
    <3> QED
      BY <3>1, HandsKept DEF TypeInv, HandsInOrder
  <2>2. drains' \in [Queues -> Nat] /\ cut' \subseteq Queues
    BY <1>5 DEF Drain
  <2> QED
    BY <1>5, <2>1, <2>2 DEF Drain, TypeInv, TypeOK, queueVars, leaseVars, QueueTypeOK,
       LeaseTypeOK
<1>6. ASSUME CommitSwitch PROVE TypeInv'
  <2>1. drains' \in [Queues -> Nat] /\ spent' \in [Events -> Nat]
    BY <1>6, Spending DEF CommitSwitch
  <2> QED
    BY <1>6, <2>1 DEF CommitSwitch, SwapUnchanged, TypeInv, TypeOK, HandsInOrder,
       queueVars, leaseVars, QueueTypeOK, LeaseTypeOK
<1>7. ASSUME UndoSwitch PROVE TypeInv'
  <2>1. replaced \in Queues
    BY <1>7 DEF UndoSwitch
  <2>2. worker' \in [Queues -> Worker] /\ HandsInOrder'
    BY <1>7, <2>1, StartedHandsKept DEF UndoSwitch, Swap
  <2>3. spent' \in [Events -> Nat] /\ returned' \in BOOLEAN
    BY <1>7, Spending DEF UndoSwitch, Swap
  <2> QED
    BY <1>7, <2>1, <2>2, <2>3 DEF UndoSwitch, Swap, SwapUnchanged, TypeInv, TypeOK,
       queueVars, leaseVars, QueueTypeOK, LeaseTypeOK
<1>8. ASSUME Crash PROVE TypeInv'
  <2>1. worker' \in [Queues -> Worker] /\ HandsInOrder'
    <3>1. worker' = [q \in Queues |-> NoWorker] /\ Len(<< >>) = 0
      BY <1>8 DEF Crash
    <3> QED
      BY <3>1, FreshWorker DEF HandsInOrder
  <2>2. /\ drains' \in [Queues -> Nat] /\ cut' \subseteq Queues /\ spent' \in [Events -> Nat]
        /\ sender' \in [Jobs -> Queues \cup {"new", "accepted", "failed"}]
    BY <1>8, Spending DEF Crash, Events
  <2> QED
    BY <1>8, <2>1, <2>2 DEF Crash, TypeInv, TypeOK, queueVars, leaseVars, QueueTypeOK,
       LeaseTypeOK
<1>9. ASSUME Restart PROVE TypeInv'
  <2>1. PICK q \in Queues : /\ cur' = q /\ unused' = unused \ {q}
                            /\ worker' = [worker EXCEPT ![q] = Fresh]
    BY <1>9 DEF Restart
  <2>2. worker' \in [Queues -> Worker] /\ HandsInOrder'
    <3>1. BecomesWorker(q, Fresh) /\ worker'[q] = Fresh /\ Len(<< >>) = 0
      BY <2>1, FreshWorker DEF BecomesWorker
    <3>2. BecomesWorker(q, worker'[q])
      BY <3>1
    <3>3. /\ worker'[q].pc = "read" /\ worker'[q].hand = << >>
          /\ Len(worker'[q].hand) <= 1
      BY <3>1, FreshWorker
    <3> QED
      BY <3>2, <3>3, HandsKept
  <2> QED
    BY <1>9, <2>1, <2>2 DEF Restart, TypeInv, TypeOK, queueVars, leaseVars, QueueTypeOK,
       LeaseTypeOK
<1> QED
  BY <1>1, <1>2, <1>3, <1>4, <1>5, <1>6, <1>7, <1>8, <1>9 DEF Next

LEMMA TypeStep == TypeInv /\ [Next]_vars => TypeInv'
<1> SUFFICES ASSUME TypeInv, [Next]_vars PROVE TypeInv'
  OBVIOUS
<1>1. CASE \E q \in Queues : WorkerStep(q)
  BY <1>1, WorkerTypes
<1>2. CASE Next /\ ~ \E q \in Queues : WorkerStep(q)
  BY <1>2, OtherTypes
<1>3. CASE UNCHANGED vars
  BY <1>3 DEF vars, storeVars, slotVars, historyVars, queueVars, leaseVars, TypeInv,
     TypeOK, HandsInOrder, QueueTypeOK, LeaseTypeOK
<1> QED
  BY <1>1, <1>2, <1>3

LEMMA TypeInit == Init => TypeInv
<1> SUFFICES ASSUME Init PROVE TypeInv
  OBVIOUS
<1>1. StartWith([j \in Jobs |-> "new"], [e \in Events |-> 0])
  BY DEF Init
<1>2. worker \in [Queues -> Worker] /\ HandsInOrder
  <2>1. worker = [q \in Queues |-> IF q = Builtin THEN Fresh ELSE NoWorker] /\ Len(<< >>) = 0
    BY <1>1 DEF StartWith
  <2> QED
    BY <2>1, FreshWorker DEF HandsInOrder
<1>3. QueueTypeOK(Jobs) /\ LeaseTypeOK
  BY <1>1 DEF StartWith, QueueInit, LeaseInit, QueueTypeOK, LeaseTypeOK
<1> QED
  BY <1>1, <1>2, <1>3, QueueFacts DEF StartWith, TypeInv, TypeOK

-------------------------------------------------------------------------------
(* The current queue                                                       *)

(* A worker that nobody cancelled goes on.                                 *)
LEMMA StepOfWorker ==
  ASSUME TypeInv, NEW q \in Queues, WorkerStep(q)
  PROVE  /\ up /\ Working(q)
         /\ BecomesWorker(q, worker'[q]) /\ worker'[q].cancelled = worker[q].cancelled
         /\ ~worker[q].cancelled => Working(q)'
         /\ UNCHANGED <<slotVars, drains, sender, returned, cut, missed>>
<1>1. worker \in [Queues -> Worker]
  BY TypesOf
<1>2. /\ up /\ Working(q)
      /\ UNCHANGED <<slotVars, drains, sender, returned, cut, missed>>
  BY DEF WorkerStep, StopReading, Handle, SettleLease, FetchBatch, AckStream, FetchLease,
     At, Working, WorkerUnchanged
<1>3. ASSUME worker[q].hand # << >>, NextInHand(q)
      PROVE  /\ BecomesWorker(q, worker'[q]) /\ worker'[q].cancelled = worker[q].cancelled
             /\ ~worker[q].cancelled => Working(q)'
  BY <1>1, <1>3, NextKeeps DEF Working
<1>4. ASSUME NEW pc \in {"read", "handle", "ack", "nack", "done"}, Goto(q, pc),
             pc = "done" => worker[q].cancelled
      PROVE  /\ BecomesWorker(q, worker'[q]) /\ worker'[q].cancelled = worker[q].cancelled
             /\ ~worker[q].cancelled => Working(q)'
  BY <1>1, <1>4, GotoKeeps DEF Working
<1>5. ASSUME NEW batch \in Seq([job : Jobs, ref : Nat]), Fetched(q, batch)
      PROVE  /\ BecomesWorker(q, worker'[q]) /\ worker'[q].cancelled = worker[q].cancelled
             /\ ~worker[q].cancelled => Working(q)'
  BY <1>1, <1>5, FetchedKeeps DEF Working
<1>6. CASE StopReading(q)
  BY <1>2, <1>4, <1>6 DEF StopReading
<1>7. CASE Handle(q)
  BY <1>2, <1>3, <1>4, <1>7, HandOf DEF Handle, At
<1>8. CASE SettleLease(q)
  <2>1. worker[q].hand # << >>
    BY <1>8, HandOf DEF SettleLease
  <2>2. ASSUME Retry(q)
        PROVE  /\ BecomesWorker(q, worker'[q]) /\ worker'[q].cancelled = worker[q].cancelled
               /\ ~worker[q].cancelled => Working(q)'
    BY <1>1, <1>2, <1>3, <2>1, <2>2, RetryKeeps DEF Working
  <2> QED
    BY <1>2, <1>3, <1>8, <2>1, <2>2 DEF SettleLease
<1>9. CASE q = Builtin /\ FetchBatch
  <2>1. QueueTypeOK(Jobs)
    BY TypesOf
  <2> QED
    BY <1>2, <1>5, <1>9, <2>1, StreamTypes DEF FetchBatch
<1>10. CASE q = Builtin /\ AckStream
  BY <1>2, <1>3, <1>10, HandOf DEF AckStream, At
<1>11. CASE \E j \in Jobs : FetchLease(q, j)
  <2>1. PICK j \in Jobs : FetchLease(q, j)
    BY <1>11
  <2>2. attempts[j] + 1 \in Nat
    BY TypesOf DEF LeaseTypeOK
  <2>3. CASE Fetched(q, <<[job |-> j, ref |-> attempts[j] + 1]>>)
    <3>1. <<[job |-> j, ref |-> attempts[j] + 1]>> \in Seq([job : Jobs, ref : Nat])
      BY <2>2
    <3> QED
      BY <1>2, <1>5, <2>3, <3>1
  <2>4. CASE UNCHANGED worker
    BY <1>1, <1>2, <2>4 DEF BecomesWorker, Working
  <2>5. CASE worker[q].cancelled /\ Goto(q, "done")
    BY <1>2, <1>4, <2>5
  <2> QED
    BY <2>1, <2>3, <2>4, <2>5 DEF FetchLease
<1> QED
  BY <1>6, <1>7, <1>8, <1>9, <1>10, <1>11 DEF WorkerStep

LEMMA CurrentStep ==
  ASSUME TypeInv, CurrentInv, [Next]_vars
  PROVE  CurrentInv'
<1> USE TypesOf DEF slotVars
<1>1. ASSUME NEW q \in Queues, WorkerStep(q) PROVE CurrentInv'
  <2>1. /\ up /\ BecomesWorker(q, worker'[q]) /\ worker'[q].cancelled = worker[q].cancelled
        /\ ~worker[q].cancelled => Working(q)'
        /\ UNCHANGED <<slotVars, drains, sender, returned, cut, missed>>
    BY <1>1, StepOfWorker
  <2> QED
    BY <2>1 DEF CurrentInv, BecomesWorker, Working
<1>2. ASSUME NEW q \in Queues, Switch(q) PROVE CurrentInv'
  <2>1. /\ up /\ replaced = NoQueue /\ q # cur /\ cur' = q /\ worker' = Started(q)
        /\ returned' = (returned \/ Leaving(q))
        /\ replaced' = cur /\ up' = up /\ drains' = drains
    BY <1>2 DEF Switch, Swap
  <2>2. /\ BecomesWorker(q, worker'[q])
        /\ Working(q) => worker'[q] = worker[q]
        /\ ~Working(q) => worker'[q] = Fresh
    BY <2>1, StartedKeeps
  <2>3. ASSUME ~returned'
        PROVE  Working(q)' /\ ~worker'[q].cancelled /\ drains[q] = 0
    <3>1. ~returned /\ ~Leaving(q) /\ drains[q] \in Nat
      BY <2>1, <2>3
    <3>2. drains[q] = 0
      BY <3>1 DEF Leaving
    <3> QED
      BY <2>2, <3>1, <3>2, FreshWorker DEF Leaving, Working
  <2>4. ASSUME ~returned'
        PROVE  /\ worker'[cur].pc \in {"read", "handle", "ack", "nack"}
               /\ ~worker'[cur].cancelled /\ drains[cur] = 0
    <3>1. cur \in Queues \ {q} /\ ~returned
      BY <2>1, <2>4
    <3> QED
      BY <2>1, <2>2, <3>1 DEF CurrentInv, BecomesWorker, Working
  <2> QED
    BY <2>1, <2>3, <2>4 DEF CurrentInv, Working
<1>3. ASSUME NEW q \in Queues, Drain(q) PROVE CurrentInv'
  <2>1. /\ BecomesWorker(q, worker'[q]) /\ worker'[q].pc = worker[q].pc
        /\ up /\ drains[q] > 0 /\ drains' = [drains EXCEPT ![q] = @ - 1]
        /\ UNCHANGED <<up, cur, replaced, returned>>
    BY <1>3, DrainKeeps DEF Drain
  <2> QED
    BY <2>1 DEF CurrentInv, BecomesWorker, Working
<1>4. ASSUME CommitSwitch PROVE CurrentInv'
  <2>1. /\ up /\ replaced \in Queues /\ drains' = [drains EXCEPT ![replaced] = @ + 1]
        /\ replaced' = NoQueue /\ UNCHANGED <<up, cur, worker, returned>>
    BY <1>4 DEF CommitSwitch
  <2> QED
    BY <2>1, QueueFacts DEF CurrentInv, Working
<1>5. ASSUME UndoSwitch PROVE CurrentInv'
  <2>1. /\ up /\ replaced \in Queues /\ cur' = replaced /\ worker' = Started(replaced)
        /\ returned' = (returned \/ Leaving(replaced))
        /\ replaced' = NoQueue /\ up' = up /\ drains' = drains
    BY <1>5 DEF UndoSwitch, Swap
  <2>2. Working(replaced) => worker'[replaced] = worker[replaced]
    BY <2>1, StartedKeeps
  <2> QED
    BY <2>1, <2>2, QueueFacts DEF CurrentInv, Working
<1>6. ASSUME Crash PROVE CurrentInv'
  BY <1>6, QueueFacts, FreshWorker DEF Crash, CurrentInv, Working
<1>7. ASSUME Restart PROVE CurrentInv'
  <2>1. PICK q \in Queues : cur' = q /\ worker' = [worker EXCEPT ![q] = Fresh]
    BY <1>7 DEF Restart
  <2>2. /\ ~up /\ up' /\ replaced = NoQueue /\ drains[q] = 0 /\ worker'[q] = Fresh
        /\ UNCHANGED <<replaced, drains, returned>>
    BY <1>7, <2>1 DEF Restart, CurrentInv, historyVars
  <2> QED
    BY <2>1, <2>2, QueueFacts, FreshWorker DEF CurrentInv, Working
<1>8. ASSUME NEW j \in Jobs, ReadCurrent(j) \/ Enqueue(j) \/ LeaseLapses(j) PROVE CurrentInv'
  BY <1>8 DEF ReadCurrent, Enqueue, LeaseLapses, WorkerUnchanged, historyVars, CurrentInv,
     Working
<1>9. CASE UNCHANGED vars
  BY <1>9 DEF vars, historyVars, CurrentInv, Working
<1> QED
  BY <1>1, <1>2, <1>3, <1>4, <1>5, <1>6, <1>7, <1>8, <1>9 DEF Next

-------------------------------------------------------------------------------
(* Where jobs are                                                          *)

LEMMA KeptAt ==
  ASSUME TypeInv
  PROVE  /\ order \in Seq(Jobs) /\ Len(order) \in Nat
         /\ Kept = {order[i] : i \in 1 .. Len(order)} /\ Kept \subseteq Jobs
<1>1. order \in Seq(Jobs)
  BY TypesOf DEF LeaseTypeOK
<1>2. DOMAIN order = 1 .. Len(order) /\ \A i \in 1 .. Len(order) : order[i] \in Jobs
  BY <1>1, LenProperties, ElementOfSeq
<1> QED
  BY <1>1, <1>2 DEF Kept, ToSet

LEMMA Adding ==
  ASSUME TypeInv, NEW j \in Jobs, AddJob(j), Distinct(order), j \notin Kept
  PROVE  Distinct(order)' /\ Kept' = Kept \cup {j}
<1>1. /\ order \in Seq(Jobs) /\ Len(order) \in Nat
      /\ \A i \in 1 .. Len(order) : order[i] # j
  BY KeptAt
<1>2. /\ order' \in Seq(Jobs) /\ Len(order') = Len(order) + 1
      /\ \A i \in 1 .. Len(order) : order'[i] = order[i]
      /\ order'[Len(order) + 1] = j
  BY <1>1, AppendProperties DEF AddJob
<1>3. \A i \in 1 .. Len(order') : i \in 1 .. Len(order) \/ i = Len(order) + 1
  BY <1>1, <1>2
<1>4. Distinct(order)'
  BY <1>1, <1>2, <1>3 DEF Distinct
<1>5. Kept' = {order'[i] : i \in 1 .. Len(order')}
  BY <1>2, LenProperties DEF Kept, ToSet
<1>6. Kept' = Kept \cup {j}
  <2>1. \A x : x \in Kept' <=> \E i \in 1 .. Len(order) + 1 : order'[i] = x
    BY <1>2, <1>5
  <2>2. \A x : x \in Kept <=> \E i \in 1 .. Len(order) : order[i] = x
    BY KeptAt
  <2>3. 1 .. Len(order) + 1 = 1 .. Len(order) \cup {Len(order) + 1}
    BY <1>1
  <2> QED
    BY <1>2, <2>1, <2>2, <2>3
<1> QED
  BY <1>4, <1>6

LEMMA Acking ==
  ASSUME TypeInv, NEW j \in Jobs, AckJob(j), Distinct(order)
  PROVE  Distinct(order)' /\ Kept' = Kept \ {j} /\ j \in Kept
<1>1. order \in Seq(Jobs) /\ Len(order) \in Nat /\ DOMAIN order = 1 .. Len(order)
  BY KeptAt, LenProperties
<1>2. PICK d \in 1 .. Len(order) : order[d] = j /\ order' = RemoveAt(order, d)
  BY <1>1 DEF AckJob
<1>3. /\ order' \in Seq(Jobs) /\ Len(order') = Len(order) - 1
      /\ \A k \in 1 .. Len(order) - 1 : order'[k] = IF k < d THEN order[k] ELSE order[k + 1]
  BY <1>1, <1>2, Removing
<1>4. Distinct(order)'
  <2> SUFFICES ASSUME NEW i \in 1 .. Len(order) - 1, NEW k \in 1 .. Len(order) - 1,
                      order'[i] = order'[k]
               PROVE  i = k
    BY <1>3 DEF Distinct
  <2> DEFINE at(x) == IF x < d THEN x ELSE x + 1
  <2>1. \A x \in 1 .. Len(order) - 1 : at(x) \in 1 .. Len(order) /\ order'[x] = order[at(x)]
    BY <1>1, <1>3
  <2>2. at(i) = at(k)
    <3> HIDE DEF at
    <3>1. /\ at(i) \in 1 .. Len(order) /\ at(k) \in 1 .. Len(order)
          /\ order[at(i)] = order[at(k)]
      BY <2>1
    <3> QED
      BY <1>1, <3>1 DEF Distinct
  <2> QED
    BY <2>2
<1>5. Kept' = {order'[i] : i \in 1 .. Len(order')}
  BY <1>3, LenProperties DEF Kept, ToSet
<1>6. \A x : x \in Kept <=> \E i \in 1 .. Len(order) : order[i] = x
  BY KeptAt
<1>7. ASSUME NEW x \in Kept' PROVE x \in Kept \ {j}
  <2>1. PICK k \in 1 .. Len(order) - 1 : order'[k] = x
    BY <1>3, <1>5
  <2>2. CASE k < d
    BY <1>1, <1>2, <1>3, <1>6, <2>1, <2>2 DEF Distinct
  <2>3. CASE ~(k < d)
    <3>1. k + 1 \in 1 .. Len(order) /\ k + 1 # d /\ order[k + 1] = x
      BY <1>1, <1>3, <2>1, <2>3
    <3> QED
      BY <1>2, <1>6, <3>1 DEF Distinct
  <2> QED
    BY <2>2, <2>3
<1>8. ASSUME NEW x \in Kept \ {j} PROVE x \in Kept'
  <2>1. PICK k \in 1 .. Len(order) : order[k] = x /\ k # d
    BY <1>2, <1>6
  <2>2. CASE k < d
    <3>1. k \in 1 .. Len(order') /\ order'[k] = x
      BY <1>1, <1>3, <2>1, <2>2
    <3> QED
      BY <1>5, <3>1
  <2>3. CASE ~(k < d)
    <3>1. k - 1 \in 1 .. Len(order') /\ ~(k - 1 < d) /\ k - 1 + 1 = k
      BY <1>1, <1>3, <2>1, <2>3
    <3>2. order'[k - 1] = x
      BY <1>3, <2>1, <3>1
    <3> QED
      BY <1>5, <3>1, <3>2
  <2> QED
    BY <2>2, <2>3
<1> QED
  BY <1>2, <1>4, <1>6, <1>7, <1>8

LEMMA Streaming ==
  ASSUME TypeInv
  PROVE  /\ stream \in Seq(Jobs) /\ Len(stream) \in Nat
         /\ lastDelivered \in 0 .. Len(stream) /\ pending \subseteq 1 .. lastDelivered
         /\ \A i \in 1 .. Len(stream) : stream[i] \in Jobs
         /\ \A j \in Jobs : XAdd(j) =>
              /\ Len(stream') = Len(stream) + 1 /\ stream'[Len(stream) + 1] = j
              /\ \A i \in 1 .. Len(stream) : stream'[i] = stream[i]
              /\ UNCHANGED <<lastDelivered, pending>>
<1>1. /\ stream \in Seq(Jobs) /\ Len(stream) \in Nat
      /\ lastDelivered \in 0 .. Len(stream) /\ pending \subseteq 1 .. lastDelivered
  BY TypesOf DEF QueueTypeOK
<1> QED
  BY <1>1, AppendProperties DEF XAdd

(* A step that adds, settles and applies nothing, and after which every    *)
(* worker has in hand what it had, or nothing any more.                    *)
SameHand(q) == worker'[q].pc = worker[q].pc /\ worker'[q].hand = worker[q].hand
EmptyHand(q) == worker'[q].hand = << >> /\ worker'[q].pc \in {"none", "read", "done"}

LEMMA QuietStep ==
  ASSUME TypeInv, DeliveryInv, UNCHANGED <<storeVars, applied, lapsed>>,
         \A q \in Queues : SameHand(q) \/ EmptyHand(q),
         \A j \in Jobs : /\ sender'[j] = "accepted" => sender[j] = "accepted"
                         /\ Given(j) => Given(j)'
  PROVE  DeliveryInv'
<1> USE QueueFacts DEF storeVars, queueVars, leaseVars, DeliveryInv
<1>1. Kept' = Kept /\ \A j : Unlapsed(j)' = Unlapsed(j)
  BY DEF Kept, Unlapsed
<1>2. PlacesInv'
  <2>1. \A j \in Jobs : Given(j) => Given(j)'
    OBVIOUS
  <2>2. Distinct(order)' /\ Distinct(stream)'
    BY DEF PlacesInv, Distinct
  <2>3. Kept' \subseteq Jobs /\ \A i \in 1 .. Len(stream) : stream[i] \in Jobs
    BY <1>1, KeptAt, Streaming
  <2> HIDE DEF DeliveryInv
  <2>4. PlacesInv
    BY DEF DeliveryInv
  <2> QED
    BY <1>1, <2>1, <2>2, <2>3, <2>4 DEF PlacesInv
<1>3. StreamInv'
  BY DEF StreamInv, SameHand, EmptyHand
<1>4. LeaseInv'
  <2>1. \A q \in Adapters : worker'[q].hand # << >> => SameHand(q) /\ InHand(q)' = InHand(q)
    BY DEF SameHand, EmptyHand, InHand
  <2> QED
    BY <1>1, <2>1 DEF LeaseInv, LeaseHeld, AppliedOnce, SameHand
<1>5. AckedInv'
  <2>1. \A q \in Queues : worker'[q].pc = "ack" => SameHand(q) /\ InHand(q)' = InHand(q)
    BY DEF SameHand, EmptyHand, InHand
  <2>2. \A q \in Queues : worker'[q].pc = "ack" => applied'[InHand(q)'.job] > 0
    BY <2>1 DEF AckedInv, SameHand
  <2>3. NothingDropped'
    <3>1. \A j \in Jobs : InStream(j)' = InStream(j)
      BY DEF InStream
    <3>2. NothingDropped /\ UNCHANGED applied
      BY DEF AckedInv
    <3> QED
      BY <1>1, <3>1, <3>2 DEF NothingDropped
  <2> QED
    BY <2>2, <2>3 DEF AckedInv
<1> QED
  BY <1>2, <1>3, <1>4, <1>5

LEMMA QuietSteps ==
  ASSUME TypeInv, CurrentInv, DeliveryInv,
         \/ \E q \in Queues : StopReading(q) \/ Switch(q) \/ Drain(q)
         \/ \E j \in Jobs : ReadCurrent(j)
         \/ CommitSwitch \/ UndoSwitch \/ Crash \/ Restart
         \/ UNCHANGED vars
  PROVE  DeliveryInv'
<1> USE TypesOf
<1>1. ASSUME NEW q \in Queues, StopReading(q) PROVE DeliveryInv'
  <2>1. worker[q].hand = << >>
    BY <1>1, HandOf DEF StopReading, At
  <2>2. \A r \in Queues : SameHand(r) \/ EmptyHand(r)
    BY <1>1, <2>1, GotoKeeps DEF StopReading, BecomesWorker, SameHand, EmptyHand
  <2> QED
    BY <1>1, <2>2, QuietStep DEF StopReading, WorkerUnchanged, Given
<1>2. ASSUME NEW q \in Queues, worker' = Started(q)
      PROVE  \A r \in Queues : SameHand(r) \/ EmptyHand(r)
  BY <1>2, StartedKeeps, FreshWorker DEF BecomesWorker, SameHand, EmptyHand
<1>3. ASSUME NEW q \in Queues, Switch(q) PROVE DeliveryInv'
  BY <1>2, <1>3, QuietStep DEF Switch, Swap, SwapUnchanged, Given
<1>4. ASSUME NEW q \in Queues, Drain(q) PROVE DeliveryInv'
  <2>1. \A r \in Queues : SameHand(r) \/ EmptyHand(r)
    BY <1>4, DrainKeeps DEF Drain, BecomesWorker, SameHand
  <2> QED
    BY <1>4, <2>1, QuietStep DEF Drain, Given
<1>5. ASSUME NEW j \in Jobs, ReadCurrent(j) PROVE DeliveryInv'
  <2>1. \A r \in Queues : SameHand(r)
    BY <1>5 DEF ReadCurrent, SameHand
  <2>2. \A i \in Jobs : /\ sender'[i] = "accepted" => sender[i] = "accepted"
                        /\ Given(i) => Given(i)'
    BY <1>5, QueueFacts DEF ReadCurrent, Given
  <2> QED
    BY <1>5, <2>1, <2>2, QuietStep DEF ReadCurrent, historyVars
<1>6. CASE CommitSwitch
  <2>1. \A r \in Queues : SameHand(r)
    BY <1>6 DEF CommitSwitch, SameHand
  <2> QED
    BY <1>6, <2>1, QuietStep DEF CommitSwitch, SwapUnchanged, Given
<1>7. CASE UndoSwitch
  <2>1. replaced \in Queues /\ worker' = Started(replaced)
    BY <1>7 DEF UndoSwitch, Swap
  <2> QED
    BY <1>2, <1>7, <2>1, QuietStep DEF UndoSwitch, Swap, SwapUnchanged, Given
<1>8. CASE Crash
  <2>1. \A r \in Queues : EmptyHand(r)
    BY <1>8, FreshWorker DEF Crash, EmptyHand
  <2>2. \A j \in Jobs : /\ sender'[j] = "accepted" => sender[j] = "accepted"
                        /\ Given(j) => Given(j)'
    BY <1>8, QueueFacts DEF Crash, Given
  <2> QED
    BY <1>8, <2>1, <2>2, QuietStep DEF Crash
<1>9. CASE Restart
  <2>1. PICK q \in Queues : worker' = [worker EXCEPT ![q] = Fresh]
    BY <1>9 DEF Restart
  <2>2. \A r \in Queues : SameHand(r) \/ EmptyHand(r)
    BY <2>1, FreshWorker DEF SameHand, EmptyHand
  <2> QED
    BY <1>9, <2>2, QuietStep DEF Restart, historyVars, Given
<1>10. CASE UNCHANGED vars
  <2>1. \A r \in Queues : SameHand(r)
    BY <1>10 DEF vars, SameHand
  <2> QED
    BY <1>10, <2>1, QuietStep DEF vars, historyVars, Given
<1> QED
  BY <1>1, <1>3, <1>4, <1>5, <1>6, <1>7, <1>8, <1>9, <1>10

(* The hands of the workers that do not step.                              *)
LEMMA OtherHands ==
  ASSUME TypeInv, NEW q \in Queues, BecomesWorker(q, worker'[q])
  PROVE  /\ \A r \in Queues \ {q} : SameHand(r) /\ InHand(r)' = InHand(r)
         /\ SameHand(q) => InHand(q)' = InHand(q)
  BY DEF BecomesWorker, SameHand, InHand

LEMMA NotGiven ==
  ASSUME TypeInv, PlacesInv, NEW j \in Jobs, sender[j] \in Queues
  PROVE  /\ ~Given(j) /\ j \notin Kept /\ attempts[j] = 0 /\ applied[j] = 0
         /\ \A i \in 1 .. Len(stream) : stream[i] # j
<1>1. ~Given(j)
  BY QueueFacts DEF Given
<1>2. attempts[j] \in Nat /\ applied[j] \in Nat
  BY TypesOf DEF LeaseTypeOK
<1> QED
  BY <1>1, <1>2 DEF PlacesInv

LEMMA DeliveryEnqueue ==
  ASSUME TypeInv, DeliveryInv, NEW j \in Jobs, Enqueue(j)
  PROVE  DeliveryInv'
<1> DEFINE q == sender[j]
<1>1. /\ q \in Queues /\ UNCHANGED <<worker, applied, lapsed>>
      /\ \E s \in {"accepted", "failed"} : sender' = [sender EXCEPT ![j] = s]
      /\ Put(q, j) \/ (UNCHANGED storeVars /\ sender' = [sender EXCEPT ![j] = "failed"])
  BY DEF Enqueue
<1>2. /\ ~Given(j) /\ j \notin Kept /\ attempts[j] = 0 /\ applied[j] = 0
      /\ \A i \in 1 .. Len(stream) : stream[i] # j
  BY <1>1, NotGiven DEF DeliveryInv
<1>3. /\ Given(j)' /\ \A k \in Jobs : Given(k) => Given(k)'
      /\ \A k \in Jobs : sender'[k] = "accepted" => sender[k] = "accepted" \/ k = j
  BY <1>1, TypesOf DEF Given
<1> HIDE DEF q
<1>4. CASE UNCHANGED storeVars /\ sender' = [sender EXCEPT ![j] = "failed"]
  <2>1. \A r \in Queues : SameHand(r)
    BY <1>1 DEF SameHand
  <2>2. \A k \in Jobs : sender'[k] = "accepted" => sender[k] = "accepted"
    BY <1>4, TypesOf
  <2> QED
    BY <1>1, <1>3, <1>4, <2>1, <2>2, QuietStep
<1>5. CASE XAdd(j) /\ UNCHANGED leaseVars
  <2>1. /\ Len(stream') = Len(stream) + 1 /\ stream'[Len(stream) + 1] = j /\ Len(stream) \in Nat
        /\ \A i \in 1 .. Len(stream) : stream'[i] = stream[i] /\ stream[i] \in Jobs
        /\ lastDelivered' = lastDelivered /\ pending' = pending
        /\ lastDelivered \in 0 .. Len(stream)
        /\ \A i \in 1 .. Len(stream) + 1 : i \in 1 .. Len(stream) \/ i = Len(stream) + 1
    BY <1>5, Streaming
  <2>2. UNCHANGED <<order, attempts, token, hidden, Kept>>
    BY <1>5 DEF leaseVars, Kept
  <2>3. PlacesInv'
    <3>1. Distinct(stream)' /\ Distinct(order)'
      BY <1>2, <2>1, <2>2 DEF DeliveryInv, PlacesInv, Distinct
    <3>2. ASSUME NEW i \in 1 .. Len(stream')
          PROVE  Given(stream[i])' /\ attempts'[stream'[i]] = 0 /\ stream'[i] \notin Kept'
      <4>1. CASE i \in 1 .. Len(stream)
        <5>1. stream'[i] = stream[i] /\ stream[i] \in Jobs
          BY <2>1, <4>1
        <5>2. Given(stream[i]) /\ attempts[stream[i]] = 0 /\ stream[i] \notin Kept
          BY <4>1 DEF DeliveryInv, PlacesInv
        <5> QED
          BY <1>3, <2>2, <5>1, <5>2 DEF Given
      <4>2. CASE i = Len(stream) + 1
        BY <1>2, <1>3, <2>1, <2>2, <4>2 DEF Given
      <4> QED
        BY <2>1, <4>1, <4>2
    <3>3. \A k \in Kept : Given(k)'
      BY <1>3, KeptAt DEF DeliveryInv, PlacesInv
    <3> HIDE DEF Given
    <3>4. PlacesInv
      BY DEF DeliveryInv
    <3> QED
      BY <1>1, <1>3, <2>2, <3>1, <3>2, <3>3, <3>4 DEF PlacesInv
  <2>4. StreamInv'
    BY <1>1, <1>2, <2>1 DEF DeliveryInv, StreamInv
  <2>5. LeaseInv'
    BY <1>1, <2>2 DEF DeliveryInv, LeaseInv, LeaseHeld, AppliedOnce, Unlapsed, InHand
  <2>6. NothingDropped'
    <3>1. InStream(j)' /\ \A k \in Jobs : InStream(k) => InStream(k)'
      BY <2>1 DEF InStream
    <3> QED
      BY <1>1, <1>3, <2>2, <3>1 DEF DeliveryInv, AckedInv, NothingDropped
  <2> QED
    BY <1>1, <2>3, <2>4, <2>5, <2>6 DEF DeliveryInv, AckedInv, InHand
<1>6. CASE AddJob(j) /\ UNCHANGED queueVars
  <2>1. Distinct(order)' /\ Kept' = Kept \cup {j}
    BY <1>2, <1>6, Adding DEF DeliveryInv, PlacesInv
  <2>2. UNCHANGED <<stream, lastDelivered, pending, attempts, token, hidden>>
    BY <1>6 DEF queueVars, AddJob
  <2>3. PlacesInv'
    <3>1. \A i \in 1 .. Len(stream) : stream[i] \in Jobs
      BY Streaming
    <3>2. Distinct(stream)'
      BY <2>2 DEF DeliveryInv, PlacesInv, Distinct
    <3> QED
      BY <1>1, <1>2, <1>3, <2>1, <2>2, <3>1, <3>2, KeptAt DEF DeliveryInv, PlacesInv
  <2>4. StreamInv'
    BY <1>1, <2>2 DEF DeliveryInv, StreamInv
  <2>5. LeaseInv'
    BY <1>1, <1>2, <2>1, <2>2
    DEF DeliveryInv, LeaseInv, LeaseHeld, AppliedOnce, Unlapsed, InHand
  <2>6. NothingDropped'
    <3>1. \A k \in Jobs : InStream(k)' = InStream(k)
      BY <2>2 DEF InStream
    <3> QED
      BY <1>1, <1>3, <2>1, <3>1 DEF DeliveryInv, AckedInv, NothingDropped
  <2> QED
    BY <1>1, <2>3, <2>4, <2>5, <2>6 DEF DeliveryInv, AckedInv, InHand
<1> QED
  BY <1>1, <1>4, <1>5, <1>6 DEF Put

LEMMA DeliveryLapse ==
  ASSUME TypeInv, DeliveryInv, NEW j \in Jobs, LeaseLapses(j)
  PROVE  DeliveryInv'
<1>1. /\ j \in hidden /\ hidden' = hidden \ {j} /\ lapsed' = lapsed \cup {<<j, token[j]>>}
      /\ UNCHANGED <<order, attempts, token, Kept, stream, lastDelivered, pending>>
      /\ UNCHANGED <<worker, applied, sender>>
  BY DEF LeaseLapses, Expire, queueVars, WorkerUnchanged, Kept
<1>2. token[j] \in 1 .. attempts[j]
  BY <1>1, TypesOf DEF DeliveryInv, PlacesInv, LeaseTypeOK
<1>3. PlacesInv'
  <2>1. Distinct(stream)' /\ Distinct(order)'
    BY <1>1 DEF DeliveryInv, PlacesInv, Distinct
  <2> QED
    BY <1>1, <1>2, <2>1 DEF DeliveryInv, PlacesInv, Given
<1>4. StreamInv'
  BY <1>1 DEF DeliveryInv, StreamInv
<1>5. LeaseInv'
  <2>1. ~Unlapsed(j)' /\ \A k : Unlapsed(k)' => Unlapsed(k)
    <3>1. <<j, token[j]>> \in lapsed' /\ <<j, token[j]>>[1] = j /\ lapsed \subseteq lapsed'
      BY <1>1
    <3> QED
      BY <3>1 DEF Unlapsed
  <2>2. \A k \in Jobs : AppliedOnce(k)'
    BY <1>1, <2>1 DEF DeliveryInv, LeaseInv, AppliedOnce
  <2>3. ASSUME NEW q \in Adapters PROVE LeaseHeld(q)'
    <3>1. LeaseHeld(q) /\ \A r \in Queues : InHand(r)' = InHand(r)
      BY <1>1 DEF DeliveryInv, LeaseInv, InHand
    <3> QED
      BY <1>1, <2>1, <3>1, QueueFacts DEF LeaseHeld
  <2> QED
    BY <2>2, <2>3 DEF LeaseInv
<1>6. AckedInv'
  BY <1>1 DEF DeliveryInv, AckedInv, NothingDropped, InStream, InHand
<1> QED
  BY <1>3, <1>4, <1>5, <1>6 DEF DeliveryInv

LEMMA DeliveryFetchBatch ==
  ASSUME TypeInv, DeliveryInv, FetchBatch
  PROVE  DeliveryInv'
<1>1. /\ XReadGroup /\ Fetched(Builtin, Batch) /\ QueueTypeOK(Jobs)
      /\ UNCHANGED <<order, attempts, token, hidden, Kept, applied, lapsed, sender>>
  BY TypesOf DEF FetchBatch, leaseVars, WorkerUnchanged, Kept
<1>2. /\ BatchEnd \in lastDelivered + 1 .. Len(stream) /\ Len(stream) \in Nat
      /\ lastDelivered \in Nat /\ lastDelivered' = BatchEnd /\ stream' = stream
      /\ pending' = pending \cup (lastDelivered + 1) .. BatchEnd
  BY <1>1, BatchRange DEF XReadGroup
<1>3. /\ BecomesWorker(Builtin, worker'[Builtin]) /\ worker'[Builtin].pc = "handle"
      /\ worker'[Builtin].hand = Batch
  BY <1>1, FetchedKeeps, StreamTypes, TypesOf, QueueFacts
<1>4. /\ DOMAIN Batch = 1 .. BatchEnd - lastDelivered
      /\ \A i \in 1 .. BatchEnd - lastDelivered :
           /\ Batch[i].job = stream[lastDelivered + i] /\ Batch[i].ref = lastDelivered + i
           /\ lastDelivered + i \in lastDelivered + 1 .. BatchEnd
           /\ lastDelivered + i \in lastDelivered + 1 .. Len(stream)
           /\ lastDelivered + i \in 1 .. BatchEnd
  BY <1>2 DEF Batch
<1>5. \A r \in Adapters : SameHand(r) /\ InHand(r)' = InHand(r)
  BY <1>3, OtherHands, QueueFacts
<1> HIDE DEF BatchEnd
<1>6. PlacesInv'
  <2>1. Distinct(stream)' /\ Distinct(order)'
    BY <1>1, <1>2 DEF DeliveryInv, PlacesInv, Distinct
  <2> QED
    BY <1>1, <1>2, <2>1 DEF DeliveryInv, PlacesInv, Given
<1>7. StreamInv'
  <2>1. \A i \in lastDelivered + 1 .. Len(stream) : applied[stream[i]] = 0
    BY DEF DeliveryInv, StreamInv
  <2>2. \A i \in DOMAIN Batch :
          /\ Batch[i].ref \in 1 .. BatchEnd /\ stream[Batch[i].ref] = Batch[i].job
          /\ applied[Batch[i].job] = 0
    BY <1>4, <2>1
  <2>3. \A i, k \in DOMAIN Batch : Batch[i].ref = Batch[k].ref => i = k
    BY <1>2, <1>4
  <2>4. \A i \in BatchEnd + 1 .. Len(stream) : applied[stream[i]] = 0
    BY <1>2, <2>1
  <2> QED
    BY <1>1, <1>2, <1>3, <2>2, <2>3, <2>4 DEF StreamInv
<1>8. LeaseInv'
  BY <1>1, <1>5 DEF DeliveryInv, LeaseInv, LeaseHeld, AppliedOnce, Unlapsed, SameHand
<1>9. AckedInv'
  <2>1. ASSUME NEW j \in Jobs, InStream(j) PROVE InStream(j)'
    <3>1. PICK i \in 1 .. Len(stream) : stream[i] = j /\ (i > lastDelivered \/ i \in pending)
      BY <2>1 DEF InStream
    <3>2. i > BatchEnd \/ i \in pending'
      BY <1>2, <3>1
    <3> QED
      BY <1>2, <3>1, <3>2 DEF InStream
  <2>2. NothingDropped'
    BY <1>1, <2>1 DEF DeliveryInv, AckedInv, NothingDropped
  <2>3. \A q \in Queues : worker'[q].pc = "ack" => applied'[InHand(q)'.job] > 0
    BY <1>1, <1>3, <1>5, QueueFacts DEF DeliveryInv, AckedInv, SameHand
  <2> QED
    BY <2>2, <2>3 DEF AckedInv
<1> QED
  BY <1>6, <1>7, <1>8, <1>9 DEF DeliveryInv

(* The stream's worker goes on to the next job of its batch.               *)
LEMMA StreamNext ==
  ASSUME TypeInv, StreamInv, worker[Builtin].hand # << >>, NextInHand(Builtin),
         UNCHANGED <<stream, lastDelivered, applied>>
  PROVE  StreamInv' /\ worker'[Builtin].pc # "ack" /\ BecomesWorker(Builtin, worker'[Builtin])
<1>1. worker[Builtin].hand \in Seq([job : Jobs, ref : Nat]) /\ worker \in [Queues -> Worker]
  BY HandOf, TypesOf, QueueFacts
<1>2. /\ BecomesWorker(Builtin, worker'[Builtin])
      /\ worker'[Builtin].pc \in {"handle", "done", "read"}
      /\ worker'[Builtin].hand = Tail(worker[Builtin].hand)
  BY <1>1, NextKeeps, QueueFacts
<1> DEFINE hand == worker[Builtin].hand
<1>3. /\ DOMAIN hand = 1 .. Len(hand) /\ Len(hand) \in Nat \ {0}
      /\ DOMAIN Tail(hand) = 1 .. Len(hand) - 1
      /\ \A i \in 1 .. Len(hand) - 1 :
           Tail(hand)[i] = hand[i + 1] /\ i + 1 \in 1 .. Len(hand) /\ i + 1 > 1
  BY <1>1, RestOfHand
<1>4. \A i, k \in 1 .. Len(hand) - 1 : i + 1 = k + 1 => i = k
  BY <1>3
<1>5. hand # << >>
  OBVIOUS
<1> DEFINE rest == Tail(hand)
<1>6. worker'[Builtin].hand = rest
  BY <1>2
<1>7. /\ DOMAIN rest = 1 .. Len(hand) - 1
      /\ \A i \in DOMAIN rest : rest[i] = hand[i + 1] /\ i + 1 \in DOMAIN hand /\ i + 1 > 1
  BY <1>3
<1>8. /\ \A i \in DOMAIN hand : /\ hand[i].ref \in 1 .. lastDelivered
                                /\ stream[hand[i].ref] = hand[i].job
      /\ \A i, k \in DOMAIN hand : hand[i].ref = hand[k].ref => i = k
      /\ \A i \in DOMAIN hand : i > 1 => applied[hand[i].job] = 0
      /\ \A i \in lastDelivered + 1 .. Len(stream) : applied[stream[i]] = 0
  BY DEF StreamInv
<1> HIDE DEF hand, rest
<1>9. /\ \A i \in DOMAIN rest : /\ rest[i].ref \in 1 .. lastDelivered
                                /\ stream[rest[i].ref] = rest[i].job
                                /\ applied[rest[i].job] = 0
      /\ \A i, k \in DOMAIN rest : rest[i].ref = rest[k].ref => i = k
  <2>1. ASSUME NEW i \in DOMAIN rest
        PROVE  /\ rest[i].ref \in 1 .. lastDelivered
               /\ stream[rest[i].ref] = rest[i].job
               /\ applied[rest[i].job] = 0
    BY <1>7, <1>8
  <2>2. ASSUME NEW i \in DOMAIN rest, NEW k \in DOMAIN rest, rest[i].ref = rest[k].ref
        PROVE  i = k
    <3>1. i + 1 = k + 1
      BY <1>7, <1>8, <2>2
    <3> QED
      BY <1>3, <1>4, <1>7, <3>1
  <2> QED
    BY <2>1, <2>2
<1>10. StreamInv'
  BY <1>6, <1>8, <1>9 DEF StreamInv
<1> QED
  BY <1>2, <1>10

LEMMA DeliveryAckStream ==
  ASSUME TypeInv, DeliveryInv, AckStream
  PROVE  DeliveryInv'
<1>1. /\ worker[Builtin].pc = "ack" /\ NextInHand(Builtin)
      /\ UNCHANGED <<stream, lastDelivered>>
      /\ pending' = pending \/ pending' = pending \ {InHand(Builtin).ref}
      /\ UNCHANGED <<order, attempts, token, hidden, Kept, applied, lapsed, sender>>
  BY DEF AckStream, At, XAck, queueVars, leaseVars, WorkerUnchanged, Kept
<1>2. /\ worker[Builtin].hand # << >> /\ InHand(Builtin) = worker[Builtin].hand[1]
      /\ 1 \in DOMAIN worker[Builtin].hand
  <2>1. /\ worker[Builtin].hand \in Seq([job : Jobs, ref : Nat])
        /\ worker[Builtin].hand # << >> /\ InHand(Builtin) = worker[Builtin].hand[1]
    BY <1>1, HandOf, QueueFacts
  <2> QED
    BY <2>1, RestOfHand
<1>3. StreamInv' /\ worker'[Builtin].pc # "ack" /\ BecomesWorker(Builtin, worker'[Builtin])
  BY <1>1, <1>2, StreamNext DEF DeliveryInv
<1>4. \A r \in Adapters : SameHand(r) /\ InHand(r)' = InHand(r)
  BY <1>3, OtherHands, QueueFacts
<1>5. PlacesInv'
  <2>1. Distinct(stream)' /\ Distinct(order)'
    BY <1>1 DEF DeliveryInv, PlacesInv, Distinct
  <2> QED
    BY <1>1, <2>1 DEF DeliveryInv, PlacesInv, Given
<1>6. LeaseInv'
  BY <1>1, <1>4 DEF DeliveryInv, LeaseInv, LeaseHeld, AppliedOnce, Unlapsed, SameHand
<1>7. AckedInv'
  <2>1. stream[InHand(Builtin).ref] = InHand(Builtin).job /\ applied[InHand(Builtin).job] > 0
    BY <1>1, <1>2, QueueFacts DEF DeliveryInv, StreamInv, AckedInv
  <2>2. \A j \in Jobs : applied[j] = 0 /\ InStream(j) => InStream(j)'
    BY <1>1, <2>1 DEF InStream
  <2>3. NothingDropped'
    BY <1>1, <2>2 DEF DeliveryInv, AckedInv, NothingDropped
  <2>4. \A q \in Queues : worker'[q].pc = "ack" => applied'[InHand(q)'.job] > 0
    BY <1>1, <1>3, <1>4, QueueFacts DEF DeliveryInv, AckedInv, SameHand
  <2> QED
    BY <2>3, <2>4 DEF AckedInv
<1> QED
  BY <1>3, <1>5, <1>6, <1>7 DEF DeliveryInv

LEMMA DeliveryHandleStream ==
  ASSUME TypeInv, DeliveryInv, Handle(Builtin)
  PROVE  DeliveryInv'
<1> DEFINE hand == worker[Builtin].hand
           j == InHand(Builtin).job
           t == InHand(Builtin).ref
<1>1. /\ worker[Builtin].pc = "handle"
      /\ \/ applied' = [applied EXCEPT ![j] = @ + 1] /\ Goto(Builtin, "ack")
         \/ applied' = applied /\ NextInHand(Builtin)
      /\ UNCHANGED <<stream, lastDelivered, pending, order, attempts, token, hidden, Kept>>
      /\ UNCHANGED <<lapsed, sender>>
  BY QueueFacts DEF Handle, At, storeVars, queueVars, leaseVars, WorkerUnchanged, Kept
<1>2. /\ hand # << >> /\ InHand(Builtin) = hand[1] /\ j \in Jobs /\ t \in Nat
      /\ DOMAIN hand = 1 .. Len(hand) /\ Len(hand) \in Nat \ {0} /\ 1 \in DOMAIN hand
  <2>1. /\ hand \in Seq([job : Jobs, ref : Nat]) /\ hand # << >>
        /\ InHand(Builtin) = hand[1] /\ j \in Jobs /\ t \in Nat
    BY <1>1, HandOf, QueueFacts
  <2> QED
    BY <2>1, RestOfHand
<1>3. /\ t \in 1 .. lastDelivered /\ stream[t] = j /\ t \in 1 .. Len(stream)
      /\ applied[j] = 0 /\ Given(j) /\ attempts[j] = 0 /\ j \notin Kept
  <2>1. t \in 1 .. lastDelivered /\ stream[t] = j /\ applied[j] = 0
    BY <1>1, <1>2 DEF DeliveryInv, StreamInv
  <2>2. t \in 1 .. Len(stream)
    BY <2>1, Streaming
  <2> QED
    BY <2>1, <2>2 DEF DeliveryInv, PlacesInv
<1>4. BecomesWorker(Builtin, worker'[Builtin])
  BY <1>1, <1>2, GotoKeeps, NextKeeps, TypesOf, QueueFacts
<1>5. \A r \in Adapters : SameHand(r) /\ InHand(r)' = InHand(r)
  BY <1>4, OtherHands, QueueFacts
<1> HIDE DEF hand, j, t
<1>6. /\ \A k \in Jobs \ {j} : applied'[k] = applied[k]
      /\ \A k \in Jobs : applied'[k] \in Nat /\ applied'[k] >= applied[k]
      /\ applied'[j] <= 1
  <2>1. /\ applied \in [Jobs -> Nat] /\ applied[j] = 0 /\ j \in Jobs
        /\ applied' = [applied EXCEPT ![j] = @ + 1] \/ applied' = applied
    BY <1>1, <1>2, <1>3, TypesOf
  <2> QED
    BY <2>1
<1>7. PlacesInv'
  <2>1. Distinct(stream)' /\ Distinct(order)'
    BY <1>1 DEF DeliveryInv, PlacesInv, Distinct
  <2>2. \A k \in Jobs : attempts'[k] > 0 \/ applied'[k] > 0 => Given(k)
    BY <1>1, <1>3, <1>6 DEF DeliveryInv, PlacesInv
  <2> QED
    BY <1>1, <2>1, <2>2 DEF DeliveryInv, PlacesInv, Given
<1>8. StreamInv'
  <2>1. CASE applied' = [applied EXCEPT ![j] = @ + 1] /\ Goto(Builtin, "ack")
    <3>1. worker'[Builtin].pc = "ack" /\ worker'[Builtin].hand = hand
      BY <2>1, GotoKeeps, TypesOf, QueueFacts DEF hand
    <3>2. ASSUME NEW i \in DOMAIN hand, i > 1 PROVE applied'[hand[i].job] = 0
      <4>1. hand[i].ref # t /\ applied[hand[i].job] = 0 /\ stream[hand[i].ref] = hand[i].job
        BY <1>2, <3>2 DEF DeliveryInv, StreamInv, hand, t
      <4>2. hand[i].ref \in 1 .. Len(stream)
        BY Streaming DEF DeliveryInv, StreamInv, hand
      <4>3. hand[i].job # j /\ hand[i].job \in Jobs
        BY <1>3, <4>1, <4>2, Streaming DEF DeliveryInv, PlacesInv, Distinct
      <4> QED
        BY <1>6, <4>1, <4>3
    <3>3. ASSUME NEW i \in lastDelivered + 1 .. Len(stream) PROVE applied'[stream[i]] = 0
      <4>1. applied[stream[i]] = 0
        BY DEF DeliveryInv, StreamInv
      <4>2. i \in 1 .. Len(stream) /\ i # t /\ stream[i] \in Jobs
        BY <1>3, Streaming
      <4>3. stream[i] # j
        BY <1>3, <4>2 DEF DeliveryInv, PlacesInv, Distinct
      <4> QED
        BY <1>6, <4>1, <4>2, <4>3
    <3> QED
      BY <1>1, <3>1, <3>2, <3>3 DEF DeliveryInv, StreamInv, hand
  <2>2. CASE applied' = applied /\ NextInHand(Builtin)
    BY <1>1, <1>2, <2>2, StreamNext DEF DeliveryInv, hand
  <2> QED
    BY <1>1, <2>1, <2>2 DEF j
<1>9. LeaseInv'
  <2>1. ASSUME NEW q \in Adapters PROVE LeaseHeld(q)'
    <3>1. SUFFICES ASSUME worker[q].hand # << >> PROVE LeaseHeld(q)'
      BY <1>5 DEF LeaseHeld, SameHand
    <3>2. /\ LeaseHeld(q) /\ InHand(q).job \in Jobs /\ InHand(q).ref \in Nat
      BY <3>1, HandOf, QueueFacts DEF DeliveryInv, LeaseInv
    <3>3. InHand(q).job # j
      BY <1>3, <3>1, <3>2 DEF LeaseHeld
    <3>4. applied'[InHand(q).job] = applied[InHand(q).job]
      BY <1>6, <3>2, <3>3
    <3> QED
      BY <1>1, <1>5, <3>2, <3>4 DEF LeaseHeld, Unlapsed, SameHand
  <2>2. \A k \in Jobs : AppliedOnce(k)'
    BY <1>1, <1>3, <1>6 DEF DeliveryInv, LeaseInv, AppliedOnce, Unlapsed
  <2> QED
    BY <2>1, <2>2 DEF LeaseInv
<1>10. AckedInv'
  <2>1. \A k \in Jobs : InStream(k)' = InStream(k)
    BY <1>1 DEF InStream
  <2>2. NothingDropped'
    BY <1>1, <1>6, <2>1, TypesOf DEF DeliveryInv, AckedInv, NothingDropped
  <2>3. \A r \in Adapters : worker'[r].pc = "ack" => applied'[InHand(r)'.job] > 0
    <3> TAKE r \in Adapters
    <3> HAVE worker'[r].pc = "ack"
    <3>1. worker[r].pc = "ack" /\ InHand(r)' = InHand(r) /\ InHand(r).job \in Jobs
      BY <1>5, HandOf, QueueFacts DEF SameHand
    <3>2. applied[InHand(r).job] > 0
      BY <3>1, QueueFacts DEF DeliveryInv, AckedInv
    <3> QED
      BY <1>6, <3>1, <3>2, TypesOf
  <2>4. worker'[Builtin].pc = "ack" => applied'[InHand(Builtin)'.job] > 0
    <3>1. CASE applied' = [applied EXCEPT ![j] = @ + 1] /\ Goto(Builtin, "ack")
      <4>1. InHand(Builtin)' = InHand(Builtin)
        BY <3>1, GotoKeeps, TypesOf, QueueFacts DEF InHand
      <4> QED
        BY <1>2, <1>3, <3>1, <4>1, TypesOf DEF j
    <3>2. CASE NextInHand(Builtin)
      BY <1>2, <3>2, NextKeeps, TypesOf, QueueFacts DEF hand
    <3> QED
      BY <1>1, <3>1, <3>2 DEF j
  <2> QED
    BY <2>2, <2>3, <2>4, QueueFacts DEF AckedInv
<1> QED
  BY <1>7, <1>8, <1>9, <1>10 DEF DeliveryInv

(* What is known of the job that the worker of an adapter has in hand.     *)
LEMMA LeasedHand ==
  ASSUME TypeInv, DeliveryInv, NEW q \in Adapters, worker[q].hand # << >>
  PROVE  /\ InHand(q).job \in Jobs /\ InHand(q).ref \in 1 .. attempts[InHand(q).job]
         /\ LeaseHeld(q) /\ Given(InHand(q).job)
         /\ \A i \in 1 .. Len(stream) : stream[i] # InHand(q).job
         /\ Tail(worker[q].hand) = << >>
<1>1. /\ q \in Queues /\ q # Builtin /\ InHand(q).job \in Jobs /\ InHand(q).ref \in Nat
      /\ worker[q].hand \in Seq([job : Jobs, ref : Nat])
  BY HandOf, QueueFacts
<1>2. LeaseHeld(q) /\ InHand(q).ref \in 1 .. attempts[InHand(q).job]
  BY DEF DeliveryInv, LeaseInv, LeaseHeld
<1>3. attempts[InHand(q).job] \in Nat \ {0}
  BY <1>1, <1>2, TypesOf DEF LeaseTypeOK
<1>4. Given(InHand(q).job) /\ \A i \in 1 .. Len(stream) : stream[i] # InHand(q).job
  BY <1>1, <1>3 DEF DeliveryInv, PlacesInv
<1>5. Len(Tail(worker[q].hand)) = 0 /\ Tail(worker[q].hand) \in Seq([job : Jobs, ref : Nat])
  <2>1. Len(worker[q].hand) <= 1
    BY <1>1 DEF TypeInv, HandsInOrder
  <2>2. /\ Tail(worker[q].hand) \in Seq([job : Jobs, ref : Nat])
        /\ Len(worker[q].hand) \in Nat \ {0}
        /\ Len(Tail(worker[q].hand)) = Len(worker[q].hand) - 1
    BY <1>1, RestOfHand
  <2> DEFINE n == Len(worker[q].hand)
  <2>3. n <= 1 /\ n \in Nat \ {0}
    BY <2>1, <2>2
  <2> HIDE DEF n
  <2>4. n = 1
    BY <2>3
  <2> QED
    BY <2>2, <2>4 DEF n
<1> QED
  BY <1>1, <1>2, <1>4, <1>5, EmptySeq

LEMMA DeliveryHandleLease ==
  ASSUME TypeInv, DeliveryInv, NEW q \in Adapters, Handle(q)
  PROVE  DeliveryInv'
<1> DEFINE j == InHand(q).job
           t == InHand(q).ref
<1>1. /\ worker[q].pc = "handle" /\ q \in Queues /\ q # Builtin
      /\ \/ applied' = [applied EXCEPT ![j] = @ + 1] /\ Goto(q, "ack")
         \/ applied' = applied /\ Goto(q, "nack")
      /\ UNCHANGED <<stream, lastDelivered, pending, order, attempts, token, hidden, Kept>>
      /\ UNCHANGED <<lapsed, sender>>
  BY QueueFacts DEF Handle, At, storeVars, queueVars, leaseVars, WorkerUnchanged, Kept
<1>2. /\ j \in Jobs /\ t \in 1 .. attempts[j] /\ LeaseHeld(q) /\ Given(j)
      /\ \A i \in 1 .. Len(stream) : stream[i] # j
      /\ worker[q].hand # << >>
  BY <1>1, HandOf, LeasedHand
<1>3. /\ BecomesWorker(q, worker'[q]) /\ worker'[q].hand = worker[q].hand
      /\ InHand(q)' = InHand(q) /\ worker'[q].pc \in {"ack", "nack"}
      /\ worker'[q].pc = "ack" => applied'[j] = applied[j] + 1
      /\ worker'[q].pc = "nack" => applied' = applied
  BY <1>1, <1>2, GotoKeeps, TypesOf DEF InHand
<1>4. \A r \in Queues \ {q} : SameHand(r) /\ InHand(r)' = InHand(r)
  BY <1>1, <1>3, OtherHands
<1>5. /\ <<j, t>> \in lapsed \/ (token[j] = t /\ j \in hidden)
      /\ Unlapsed(j) => token[j] = t /\ j \in hidden /\ applied[j] = 0
  <2>1. <<j, t>> \in lapsed => ~Unlapsed(j)
    BY DEF Unlapsed
  <2> QED
    BY <1>1, <1>2, <2>1 DEF LeaseHeld
<1>6. \A r \in Adapters \ {q} : worker[r].hand # << >> /\ InHand(r).job = j => InHand(r).ref # t
  BY <1>2 DEF LeaseHeld
<1> HIDE DEF j, t
<1>7. /\ \A k \in Jobs \ {j} : applied'[k] = applied[k]
      /\ \A k \in Jobs : applied'[k] \in Nat /\ applied'[k] >= applied[k]
      /\ applied[j] = 0 => applied'[j] <= 1
  <2>1. applied \in [Jobs -> Nat]
    BY TypesOf
  <2> QED
    BY <1>1, <1>2, <2>1
<1>8. PlacesInv'
  <2>1. Distinct(stream)' /\ Distinct(order)'
    BY <1>1 DEF DeliveryInv, PlacesInv, Distinct
  <2>2. \A k \in Jobs : attempts'[k] > 0 \/ applied'[k] > 0 => Given(k)
    BY <1>1, <1>2, <1>7 DEF DeliveryInv, PlacesInv
  <2> QED
    BY <1>1, <2>1, <2>2 DEF DeliveryInv, PlacesInv, Given
<1>9. StreamInv'
  <2>1. SameHand(Builtin)
    BY <1>1, <1>4, QueueFacts
  <2>2. \A i \in 1 .. Len(stream) : applied'[stream[i]] = applied[stream[i]]
    BY <1>2, <1>7, Streaming
  <2>3. ASSUME NEW i \in DOMAIN worker[Builtin].hand
        PROVE  applied'[worker[Builtin].hand[i].job] = applied[worker[Builtin].hand[i].job]
    <3>1. /\ worker[Builtin].hand[i].ref \in 1 .. Len(stream)
          /\ stream[worker[Builtin].hand[i].ref] = worker[Builtin].hand[i].job
      BY Streaming DEF DeliveryInv, StreamInv
    <3> QED
      BY <2>2, <3>1
  <2>4. \A i \in lastDelivered + 1 .. Len(stream) : i \in 1 .. Len(stream)
    BY Streaming
  <2> QED
    BY <1>1, <2>1, <2>2, <2>3, <2>4 DEF DeliveryInv, StreamInv, SameHand
<1>10. LeaseInv'
  <2>1. ASSUME NEW r \in Adapters PROVE LeaseHeld(r)'
    <3>1. SUFFICES ASSUME worker[r].hand # << >> PROVE LeaseHeld(r)'
      BY <1>3, <1>4, QueueFacts DEF LeaseHeld, SameHand
    <3>2. /\ LeaseHeld(r) /\ InHand(r).job \in Jobs /\ r \in Queues
          /\ \A p \in Adapters : worker'[p].hand = worker[p].hand /\ InHand(p)' = InHand(p)
      BY <1>3, <1>4, <3>1, LeasedHand, QueueFacts DEF SameHand
    <3>3. CASE r = q
      BY <1>1, <1>2, <1>3, <1>5, <3>2, <3>3 DEF LeaseHeld, Unlapsed, j, t
    <3>4. CASE r # q /\ InHand(r).job # j
      <4>1. applied'[InHand(r).job] = applied[InHand(r).job] /\ worker'[r].pc = worker[r].pc
        BY <1>4, <1>7, <3>2, <3>4 DEF SameHand
      <4> QED
        BY <1>1, <3>2, <4>1 DEF LeaseHeld, Unlapsed
    <3>5. CASE r # q /\ InHand(r).job = j
      <4>1. /\ InHand(r).ref # t /\ worker'[r].pc = worker[r].pc
            /\ worker[r].pc = "handle" => ~Unlapsed(j)
        <5>1. InHand(r).ref # t /\ worker'[r].pc = worker[r].pc
          BY <1>4, <1>6, <3>1, <3>2, <3>5 DEF SameHand
        <5>2. <<j, InHand(r).ref>> \in lapsed => ~Unlapsed(j)
          BY DEF Unlapsed
        <5> QED
          BY <1>5, <3>1, <3>2, <3>5, <5>1, <5>2 DEF LeaseHeld
      <4>2. worker[r].pc = "nack" /\ token[j] = InHand(r).ref => ~Unlapsed(j)
        BY <1>5, <4>1
      <4>3. \A k : Unlapsed(k)' = Unlapsed(k)
        BY <1>1 DEF Unlapsed
      <4> QED
        BY <1>1, <3>1, <3>2, <3>5, <4>1, <4>2, <4>3 DEF LeaseHeld, Unlapsed
    <3> QED
      BY <3>3, <3>4, <3>5
  <2>2. ASSUME NEW k \in Jobs PROVE AppliedOnce(k)'
    <3>1. AppliedOnce(k) /\ Unlapsed(k)' = Unlapsed(k)
      BY <1>1 DEF DeliveryInv, LeaseInv, Unlapsed
    <3> QED
      BY <1>1, <1>5, <1>7, <3>1 DEF AppliedOnce
  <2> QED
    BY <2>1, <2>2 DEF LeaseInv
<1>11. AckedInv'
  <2>1. \A k \in Jobs : InStream(k)' = InStream(k)
    BY <1>1 DEF InStream
  <2>2. NothingDropped'
    BY <1>1, <1>7, <2>1, TypesOf DEF DeliveryInv, AckedInv, NothingDropped
  <2>3. ASSUME NEW r \in Queues, worker'[r].pc = "ack"
        PROVE  applied'[InHand(r)'.job] > 0
    <3>1. CASE r = q
      BY <1>2, <1>3, <2>3, <3>1, TypesOf DEF j
    <3>2. CASE r # q
      <4>1. worker[r].pc = "ack" /\ InHand(r)' = InHand(r) /\ InHand(r).job \in Jobs
        BY <1>4, <2>3, <3>2, HandOf DEF SameHand
      <4>2. applied[InHand(r).job] > 0
        BY <4>1 DEF DeliveryInv, AckedInv
      <4> QED
        BY <1>7, <4>1, <4>2, TypesOf
    <3> QED
      BY <3>1, <3>2
  <2> QED
    BY <2>2, <2>3 DEF AckedInv
<1> QED
  BY <1>8, <1>9, <1>10, <1>11 DEF DeliveryInv

(* A step of an adapter's worker that applies nothing and drops nothing    *)
(* that was not applied.                                                   *)
LEMMA LeaseStep ==
  ASSUME TypeInv, DeliveryInv, NEW q \in Adapters, BecomesWorker(q, worker'[q]),
         UNCHANGED <<stream, lastDelivered, pending, applied, lapsed, sender>>,
         worker'[q].pc = "ack" => SameHand(q),
         \A j \in Jobs : j \in Kept /\ applied[j] = 0 => j \in Kept'
  PROVE  StreamInv' /\ AckedInv' /\ (Distinct(stream))'
<1>1. /\ \A r \in Queues \ {q} : SameHand(r) /\ InHand(r)' = InHand(r)
      /\ SameHand(q) => InHand(q)' = InHand(q)
  BY OtherHands, QueueFacts
<1>2. StreamInv'
  BY <1>1, QueueFacts DEF DeliveryInv, StreamInv, SameHand
<1>3. \A r \in Queues : worker'[r].pc = "ack" => applied'[InHand(r)'.job] > 0
  BY <1>1 DEF DeliveryInv, AckedInv, SameHand
<1>4. NothingDropped'
  <2>1. \A j \in Jobs : InStream(j)' = InStream(j)
    BY DEF InStream
  <2> QED
    BY <2>1 DEF DeliveryInv, AckedInv, NothingDropped
<1>5. (Distinct(stream))'
  BY DEF DeliveryInv, PlacesInv, Distinct
<1> QED
  BY <1>2, <1>3, <1>4, <1>5 DEF AckedInv

LEMMA DeliverySettle ==
  ASSUME TypeInv, DeliveryInv, NEW q \in Adapters, SettleLease(q)
  PROVE  DeliveryInv'
<1>0. PICK j, t : j = InHand(q).job /\ t = InHand(q).ref
  OBVIOUS
<1>1. /\ worker[q].pc \in {"ack", "nack"} /\ q \in Queues /\ q # Builtin
      /\ Settle(worker[q].pc, j, t) \/ UNCHANGED leaseVars
      /\ Retry(q) \/ NextInHand(q)
      /\ UNCHANGED <<stream, lastDelivered, pending, applied, lapsed, sender>>
  BY <1>0, QueueFacts DEF SettleLease, queueVars, WorkerUnchanged
<1>2. /\ j \in Jobs /\ t \in 1 .. attempts[j] /\ LeaseHeld(q) /\ Given(j)
      /\ \A i \in 1 .. Len(stream) : stream[i] # j
      /\ worker[q].hand # << >> /\ Tail(worker[q].hand) = << >>
  BY <1>0, <1>1, HandOf, LeasedHand
<1>3. BecomesWorker(q, worker'[q]) /\ (SameHand(q) \/ EmptyHand(q))
  BY <1>1, <1>2, RetryKeeps, NextKeeps, TypesOf DEF SameHand, EmptyHand
<1>4. /\ \A r \in Queues \ {q} : SameHand(r) /\ InHand(r)' = InHand(r)
      /\ SameHand(q) => InHand(q)' = InHand(q)
  BY <1>1, <1>3, OtherHands
<1>5. \A r \in Adapters : worker'[r].hand # << >> =>
        /\ worker'[r].pc = worker[r].pc /\ worker'[r].hand = worker[r].hand
        /\ InHand(r)' = InHand(r)
  BY <1>3, <1>4, QueueFacts DEF SameHand, EmptyHand
<1>6. \A k : Unlapsed(k)' = Unlapsed(k)
  BY <1>1 DEF Unlapsed
<1>7. CASE UNCHANGED leaseVars
  <2>1. UNCHANGED <<order, attempts, token, hidden, Kept>>
    BY <1>7 DEF leaseVars, Kept
  <2>2. StreamInv' /\ AckedInv' /\ (Distinct(stream))'
    BY <1>1, <1>3, <2>1, LeaseStep DEF EmptyHand
  <2>3. PlacesInv'
    BY <1>1, <2>1, <2>2 DEF DeliveryInv, PlacesInv, Given, Distinct
  <2>4. LeaseInv'
    BY <1>1, <1>5, <1>6, <2>1 DEF DeliveryInv, LeaseInv, LeaseHeld, AppliedOnce
  <2> QED
    BY <2>2, <2>3, <2>4 DEF DeliveryInv
<1>8. CASE worker[q].pc = "ack" /\ AckJob(j) /\ Answer(j, t) = "ok"
  <2>1. /\ (Distinct(order))' /\ Kept' = Kept \ {j} /\ j \in Kept
        /\ hidden' = hidden \ {j} /\ UNCHANGED <<attempts, token>>
    BY <1>2, <1>8, Acking DEF AckJob, DeliveryInv, PlacesInv
  <2>2. token[j] = t /\ applied[j] > 0
    BY <1>0, <1>1, <1>8, <2>1 DEF Answer, DeliveryInv, AckedInv
  <2>3. StreamInv' /\ AckedInv' /\ (Distinct(stream))'
    <3>1. \A k \in Jobs : k \in Kept /\ applied[k] = 0 => k \in Kept'
      BY <2>1, <2>2
    <3> QED
      BY <1>1, <1>3, <3>1, LeaseStep DEF EmptyHand
  <2>4. PlacesInv'
    BY <1>1, <2>1, <2>3 DEF DeliveryInv, PlacesInv, Given
  <2>5. ASSUME NEW r \in Adapters PROVE LeaseHeld(r)'
    <3>1. SUFFICES ASSUME worker'[r].hand # << >> PROVE LeaseHeld(r)'
      BY DEF LeaseHeld
    <3>2. /\ LeaseHeld(r) /\ worker[r].hand # << >>
          /\ worker[r].pc = "handle" /\ InHand(r).job = j =>
               /\ InHand(r).ref # t /\ <<j, InHand(r).ref>> \in lapsed
      BY <1>0, <1>2, <1>5, <1>8, <2>2, <3>1 DEF LeaseHeld, DeliveryInv, LeaseInv
    <3> QED
      BY <1>1, <1>5, <1>6, <2>1, <3>1, <3>2 DEF LeaseHeld
  <2>6. \A k \in Jobs : AppliedOnce(k)'
    BY <1>1, <1>6, <2>1 DEF DeliveryInv, LeaseInv, AppliedOnce
  <2> QED
    BY <2>3, <2>4, <2>5, <2>6 DEF DeliveryInv, LeaseInv
<1>9. CASE worker[q].pc = "nack" /\ NackJob(j) /\ Answer(j, t) = "ok"
  <2>1. /\ token' = [token EXCEPT ![j] = 0] /\ hidden' = hidden \ {j}
        /\ UNCHANGED <<order, attempts, Kept>>
    BY <1>9 DEF NackJob, Kept
  <2>2. token[j] = t /\ (Unlapsed(j) => applied[j] = 0)
    BY <1>0, <1>2, <1>9 DEF Answer, LeaseHeld
  <2>3. /\ \A k \in Jobs \ {j} : token'[k] = token[k]
        /\ token'[j] = 0 /\ attempts \in [Jobs -> Nat]
    BY <1>2, <2>1, TypesOf DEF LeaseTypeOK
  <2>4. StreamInv' /\ AckedInv' /\ (Distinct(stream))'
    BY <1>1, <1>3, <2>1, LeaseStep DEF EmptyHand
  <2>5. PlacesInv'
    <3>1. hidden \subseteq Jobs
      BY TypesOf DEF LeaseTypeOK
    <3>2. (Distinct(order))'
      BY <2>1 DEF DeliveryInv, PlacesInv, Distinct
    <3>3. \A k \in Jobs : token'[k] <= attempts'[k]
      BY <2>1, <2>3 DEF DeliveryInv, PlacesInv
    <3>4. \A k \in hidden' : token'[k] > 0
      BY <2>1, <2>3, <3>1 DEF DeliveryInv, PlacesInv
    <3> QED
      BY <1>1, <2>1, <2>4, <3>2, <3>3, <3>4 DEF DeliveryInv, PlacesInv, Given
  <2>6. ASSUME NEW r \in Adapters PROVE LeaseHeld(r)'
    <3>1. SUFFICES ASSUME worker'[r].hand # << >> PROVE LeaseHeld(r)'
      BY DEF LeaseHeld
    <3>2. /\ LeaseHeld(r) /\ worker[r].hand # << >> /\ InHand(r).job \in Jobs
          /\ InHand(r).ref \in 1 .. attempts[InHand(r).job]
      BY <1>5, <3>1, LeasedHand
    <3>3. worker[r].pc = "handle" /\ InHand(r).job = j => <<j, InHand(r).ref>> \in lapsed
      BY <1>0, <1>2, <1>9, <2>2, <3>2 DEF LeaseHeld
    <3>4. token'[InHand(r).job] = InHand(r).ref => InHand(r).job # j
      BY <2>3, <3>2
    <3> QED
      BY <1>1, <1>5, <1>6, <2>1, <2>3, <3>1, <3>2, <3>3, <3>4 DEF LeaseHeld
  <2>7. \A k \in Jobs : AppliedOnce(k)'
    BY <1>1, <1>6, <2>1, <2>2 DEF DeliveryInv, LeaseInv, AppliedOnce
  <2> QED
    BY <2>4, <2>5, <2>6, <2>7 DEF DeliveryInv, LeaseInv
<1> QED
  BY <1>1, <1>7, <1>8, <1>9 DEF Settle

LEMMA DeliveryFetchLease ==
  ASSUME TypeInv, DeliveryInv, NEW q \in Adapters, NEW j \in Jobs, FetchLease(q, j)
  PROVE  DeliveryInv'
<1> DEFINE t == attempts[j] + 1
<1>1. /\ worker[q].pc = "read" /\ q \in Queues /\ q # Builtin /\ Lease(j)
      /\ \/ Fetched(q, <<[job |-> j, ref |-> t]>>)
         \/ UNCHANGED worker \/ Goto(q, "done")
      /\ UNCHANGED <<stream, lastDelivered, pending, applied, lapsed, sender>>
  BY QueueFacts DEF FetchLease, At, queueVars, WorkerUnchanged
<1>2. /\ attempts \in [Jobs -> Nat] /\ token \in [Jobs -> Nat] /\ attempts[j] \in Nat
      /\ worker[q].hand = << >> /\ t \in Nat \ {0}
  <2>1. attempts \in [Jobs -> Nat] /\ token \in [Jobs -> Nat]
    BY TypesOf DEF LeaseTypeOK
  <2>2. worker[q].hand = << >>
    BY <1>1, HandOf
  <2> QED
    BY <2>1, <2>2
<1>3. /\ attempts' = [attempts EXCEPT ![j] = t] /\ token' = [token EXCEPT ![j] = t]
      /\ hidden' = hidden \cup {j} /\ UNCHANGED <<order, Kept>>
      /\ j \in Kept /\ j \notin hidden
  <2>1. order \in Seq(Jobs)
    BY KeptAt
  <2>2. j \in Kept /\ j \notin hidden
    BY <1>1, <2>1, KeptAt, LenProperties DEF Lease, IsNext, Visible
  <2> QED
    BY <1>1, <1>2, <2>2 DEF Lease, Kept
<1> HIDE DEF t
<1>4. /\ BecomesWorker(q, worker'[q])
      /\ \/ /\ worker'[q].pc = "handle" /\ worker'[q].hand # << >>
            /\ InHand(q)' = [job |-> j, ref |-> t]
         \/ EmptyHand(q)
  <2>1. CASE Fetched(q, <<[job |-> j, ref |-> t]>>)
    <3>1. PICK x \in [job : Jobs, ref : Nat] : x = [job |-> j, ref |-> t]
      BY <1>2
    <3>2. <<x>> \in Seq([job : Jobs, ref : Nat]) /\ Head(<<x>>) = x /\ <<x>> # << >>
      OBVIOUS
    <3>3. /\ BecomesWorker(q, worker'[q]) /\ worker'[q].pc = "handle"
          /\ worker'[q].hand = <<x>>
      BY <1>1, <2>1, <3>1, <3>2, FetchedKeeps, TypesOf
    <3> QED
      BY <3>1, <3>2, <3>3 DEF InHand
  <2>2. CASE UNCHANGED worker
    BY <1>1, <1>2, <2>2, TypesOf DEF BecomesWorker, EmptyHand
  <2>3. CASE Goto(q, "done")
    BY <1>1, <1>2, <2>3, GotoKeeps, TypesOf DEF EmptyHand
  <2> QED
    BY <1>1, <2>1, <2>2, <2>3
<1>5. \A r \in Queues \ {q} : SameHand(r) /\ InHand(r)' = InHand(r)
  BY <1>1, <1>4, OtherHands
<1>6. \A k : Unlapsed(k)' = Unlapsed(k)
  BY <1>1 DEF Unlapsed
<1>7. Given(j) /\ \A i \in 1 .. Len(stream) : stream[i] # j /\ stream[i] \in Jobs
  BY <1>3, Streaming DEF DeliveryInv, PlacesInv
<1>8. StreamInv' /\ AckedInv' /\ (Distinct(stream))'
  BY <1>1, <1>3, <1>4, LeaseStep DEF EmptyHand
<1>9. /\ \A k \in Jobs \ {j} : attempts'[k] = attempts[k] /\ token'[k] = token[k]
      /\ attempts'[j] = t /\ token'[j] = t /\ attempts[j] < t
      /\ \A k \in Jobs : attempts[k] <= attempts'[k] /\ attempts'[k] \in Nat
  BY <1>2, <1>3 DEF t
<1>10. PlacesInv'
  <2>1. (Distinct(order))' /\ hidden \subseteq Jobs
    BY <1>3, TypesOf DEF DeliveryInv, PlacesInv, Distinct, LeaseTypeOK
  <2>2. \A i \in 1 .. Len(stream) : attempts'[stream[i]] = 0
    BY <1>7, <1>9 DEF DeliveryInv, PlacesInv
  <2>3. \A k \in Jobs : token'[k] <= attempts'[k]
    BY <1>9 DEF DeliveryInv, PlacesInv
  <2>4. \A k \in hidden' : token'[k] > 0
    BY <1>2, <1>3, <1>9, <2>1 DEF DeliveryInv, PlacesInv
  <2>5. \A k \in Jobs : attempts'[k] > 0 \/ applied'[k] > 0 => Given(k)
    BY <1>1, <1>7, <1>9 DEF DeliveryInv, PlacesInv
  <2>6. \A p \in lapsed : p[2] \in 1 .. attempts'[p[1]]
    <3> TAKE p \in lapsed
    <3>1. p[1] \in Jobs /\ p[2] \in Nat /\ p[2] \in 1 .. attempts[p[1]]
      BY TypesOf DEF DeliveryInv, PlacesInv
    <3>2. attempts[p[1]] \in Nat
      BY <1>2, <3>1
    <3> QED
      BY <1>9, <3>1, <3>2
  <2> QED
    BY <1>1, <1>3, <1>8, <2>1, <2>2, <2>3, <2>4, <2>5, <2>6 DEF DeliveryInv, PlacesInv, Given
<1>11. \A r \in Adapters : worker[r].hand # << >> /\ InHand(r).job = j => InHand(r).ref < t
  <2> TAKE r \in Adapters
  <2> HAVE worker[r].hand # << >> /\ InHand(r).job = j
  <2>1. InHand(r).ref \in 1 .. attempts[j]
    BY LeasedHand
  <2> QED
    BY <1>2, <2>1 DEF t
<1>12. ASSUME NEW r \in Adapters PROVE LeaseHeld(r)'
  <2>1. SUFFICES ASSUME worker'[r].hand # << >> PROVE LeaseHeld(r)'
    BY DEF LeaseHeld
  <2>2. CASE r = q
    <3>1. /\ worker'[q].pc = "handle" /\ InHand(q)'.job = j /\ InHand(q)'.ref = t
      BY <1>4, <2>1, <2>2 DEF EmptyHand
    <3>2. \A p \in Adapters \ {q} : worker'[p].hand # << >> /\ InHand(p)'.job = j => InHand(p)'.ref # t
      BY <1>2, <1>5, <1>11, QueueFacts, LeasedHand DEF SameHand
    <3>3. Unlapsed(j) => applied[j] = 0
      BY <1>3 DEF DeliveryInv, LeaseInv, AppliedOnce
    <3>4. t \in 1 .. attempts'[j] /\ token'[j] = t /\ j \in hidden'
      BY <1>2, <1>3, <1>9
    <3> QED
      BY <1>1, <1>6, <2>2, <3>1, <3>2, <3>3, <3>4 DEF LeaseHeld
  <2>3. CASE r # q
    <3> DEFINE k == InHand(r).job
               u == InHand(r).ref
    <3>1. /\ worker'[r].pc = worker[r].pc /\ worker[r].hand # << >>
          /\ InHand(r)' = InHand(r) /\ LeaseHeld(r) /\ k \in Jobs
          /\ u \in 1 .. attempts[k] /\ u \in Nat
      BY <1>5, <2>1, <2>3, LeasedHand, HandOf, QueueFacts DEF SameHand
    <3>2. u \in 1 .. attempts'[k]
      <4>1. attempts[k] \in Nat /\ attempts[k] <= attempts'[k] /\ attempts'[k] \in Nat
        BY <1>2, <1>9, <3>1
      <4> QED
        BY <3>1, <4>1
    <3>3. \A p \in Adapters \ {r} : worker'[p].hand # << >> /\ InHand(p)'.job = k => InHand(p)'.ref # u
      <4>1. ASSUME NEW p \in Adapters \ {r}, worker'[p].hand # << >>, InHand(p)'.job = k
            PROVE  InHand(p)'.ref # u
        <5>1. CASE p = q
          <6>1. InHand(q)' = [job |-> j, ref |-> t]
            BY <1>4, <4>1, <5>1 DEF EmptyHand
          <6>2. u < t
            BY <1>11, <3>1, <4>1, <5>1, <6>1
          <6> QED
            BY <1>2, <3>1, <5>1, <6>1, <6>2
        <5>2. CASE p # q
          <6>1. worker[p].hand # << >> /\ InHand(p)' = InHand(p)
            BY <1>5, <4>1, <5>2, QueueFacts DEF SameHand
          <6> QED
            BY <3>1, <4>1, <6>1 DEF LeaseHeld
        <5> QED
          BY <5>1, <5>2
      <4> QED
        BY <4>1
    <3>4. worker[r].pc = "handle" =>
            <<k, u>> \in lapsed \/ (token'[k] = u /\ k \in hidden')
      BY <1>3, <1>9, <3>1 DEF LeaseHeld
    <3>5. token'[k] = u => token[k] = u
      BY <1>2, <1>9, <1>11, <3>1
    <3> QED
      BY <1>1, <1>6, <3>1, <3>2, <3>3, <3>4, <3>5 DEF LeaseHeld
  <2> QED
    BY <2>2, <2>3
<1>13. \A k \in Jobs : AppliedOnce(k)'
  BY <1>1, <1>3, <1>6 DEF DeliveryInv, LeaseInv, AppliedOnce
<1> QED
  BY <1>8, <1>10, <1>12, <1>13 DEF DeliveryInv, LeaseInv

LEMMA DeliveryStep ==
  ASSUME TypeInv, CurrentInv, DeliveryInv, [Next]_vars
  PROVE  DeliveryInv'
<1>1. ASSUME NEW j \in Jobs, ReadCurrent(j) \/ Enqueue(j) \/ LeaseLapses(j)
      PROVE  DeliveryInv'
  BY <1>1, QuietSteps, DeliveryEnqueue, DeliveryLapse
<1>2. ASSUME NEW q \in Queues, WorkerStep(q) PROVE DeliveryInv'
  <2>1. CASE StopReading(q)
    BY <2>1, QuietSteps
  <2>2. CASE q \in Adapters /\ (Handle(q) \/ SettleLease(q) \/ \E j \in Jobs : FetchLease(q, j))
    BY <2>2, DeliveryHandleLease, DeliverySettle, DeliveryFetchLease
  <2>3. CASE q = Builtin /\ (Handle(q) \/ FetchBatch \/ AckStream)
    BY <2>3, DeliveryHandleStream, DeliveryFetchBatch, DeliveryAckStream
  <2> QED
    BY <1>2, <2>1, <2>2, <2>3, QueueFacts DEF WorkerStep, SettleLease, FetchLease
<1> QED
  BY <1>1, <1>2, QuietSteps DEF Next

-------------------------------------------------------------------------------
(* Queues without a worker                                                 *)

LEMMA PartOfInterval ==
  ASSUME NEW n \in Nat, NEW a \in 0 .. n, NEW b \in a .. n
  PROVE  \A i \in b + 1 .. n : i \in a + 1 .. n
OBVIOUS

(* Workers that nobody stopped go on, and the queues get no job that was   *)
(* not missed.                                                             *)
LEMMA StillAttended ==
  ASSUME TypeInv, AttendedInv, up', UNCHANGED missed, cut \subseteq cut', returned => returned',
         up, Kept' \subseteq Kept, UNCHANGED stream, lastDelivered' \in lastDelivered .. Len(stream),
         \A q \in Queues : Working(q) /\ ~worker[q].cancelled =>
           worker'[q].pc \in {"read", "handle", "ack", "nack"} /\ ~worker'[q].cancelled
  PROVE  AttendedInv'
<1>1. lastDelivered \in 0 .. Len(stream) /\ Len(stream) \in Nat
  BY Streaming
<1>2. \A i \in lastDelivered' + 1 .. Len(stream) : i \in lastDelivered + 1 .. Len(stream)
  <2>1. lastDelivered' \in lastDelivered .. Len(stream)
    OBVIOUS
  <2> QED
    BY <1>1, <2>1, PartOfInterval
<1> QED
  BY <1>2, QueueFacts DEF AttendedInv, Working

LEMMA AttendedEnqueue ==
  ASSUME TypeInv, CurrentInv, DeliveryInv, AttendedInv, NEW j \in Jobs, Enqueue(j)
  PROVE  AttendedInv'
<1> DEFINE q == sender[j]
<1>1. /\ up /\ up' = up /\ q \in Queues /\ UNCHANGED <<cur, worker, cut, returned>>
      /\ Put(q, j) \/ UNCHANGED storeVars
      /\ missed' = IF q = cur THEN missed ELSE missed \cup {j}
  BY DEF Enqueue, slotVars
<1>2. j \notin Kept
  BY <1>1, NotGiven DEF DeliveryInv
<1> HIDE DEF q
<1>3. ~returned => Working(cur) /\ ~worker[cur].cancelled
  BY <1>1 DEF CurrentInv
<1>4. CASE UNCHANGED storeVars
  BY <1>1, <1>4 DEF storeVars, queueVars, leaseVars, Kept, AttendedInv, Working
<1>5. CASE q = Builtin /\ XAdd(j) /\ UNCHANGED leaseVars
  <2>1. /\ Len(stream') = Len(stream) + 1 /\ stream'[Len(stream) + 1] = j /\ Len(stream) \in Nat
        /\ \A i \in 1 .. Len(stream) : stream'[i] = stream[i]
        /\ lastDelivered' = lastDelivered /\ lastDelivered \in 0 .. Len(stream)
    BY <1>5, Streaming
  <2>2. \A i \in lastDelivered + 1 .. Len(stream) + 1 :
          \/ i \in lastDelivered + 1 .. Len(stream) /\ stream'[i] = stream[i]
          \/ i = Len(stream) + 1
    BY <2>1
  <2>3. Kept' = Kept /\ missed \subseteq missed'
    BY <1>1, <1>5 DEF leaseVars, Kept
  <2>4. (\E i \in lastDelivered' + 1 .. Len(stream') : stream'[i] \notin missed') =>
          q = cur \/ \E i \in lastDelivered + 1 .. Len(stream) : stream[i] \notin missed
    BY <1>1, <2>1, <2>2, <2>3
  <2> QED
    BY <1>1, <1>3, <1>5, <2>3, <2>4 DEF AttendedInv, Working
<1>6. CASE q # Builtin /\ AddJob(j) /\ UNCHANGED queueVars
  <2>1. /\ Kept' = Kept \cup {j} /\ missed \subseteq missed' /\ q \in Adapters
        /\ UNCHANGED <<stream, lastDelivered>>
    BY <1>1, <1>2, <1>6, Adding, QueueFacts DEF DeliveryInv, PlacesInv, queueVars
  <2>2. Kept' \ missed' # {} => q = cur \/ Kept \ missed # {}
    BY <1>1, <2>1
  <2> QED
    BY <1>1, <1>3, <2>1, <2>2 DEF AttendedInv, Working
<1> QED
  BY <1>1, <1>4, <1>5, <1>6 DEF Put

(* A drain that ends without being cut has seen an empty queue.            *)
LEMMA AttendedDrain ==
  ASSUME TypeInv, AttendedInv, NEW q \in Queues, Drain(q)
  PROVE  AttendedInv'
<1>1. /\ up /\ up' /\ UNCHANGED <<order, Kept, stream, lastDelivered, returned, missed>>
      /\ cut' = IF Depth(q) = 0 THEN cut ELSE cut \cup {q}
  BY DEF Drain, slotVars, storeVars, queueVars, leaseVars, Kept
<1>2. BecomesWorker(q, worker'[q])
  BY DrainKeeps, TypesOf DEF Drain
<1>3. \A r \in Queues \ {q} : worker'[r] = worker[r]
  BY <1>2 DEF BecomesWorker
<1>4. ASSUME cut' = {} PROVE cut = {} /\ Depth(q) = 0
  BY <1>1, <1>4
<1>5. CASE q = Builtin
  <2>1. ASSUME cut' = {} PROVE lastDelivered = Len(stream)
    <3>1. Len(stream) - lastDelivered + Cardinality(pending) = 0
      BY <1>4, <1>5, <2>1 DEF Depth
    <3>2. Cardinality(pending) \in Nat
      <4>1. lastDelivered \in Int /\ pending \subseteq 1 .. lastDelivered /\ 1 \in Int
        BY Streaming
      <4>2. IsFiniteSet(1 .. lastDelivered)
        BY <4>1, FS_Interval
      <4>3. IsFiniteSet(pending)
        BY <4>1, <4>2, FS_Subset
      <4> QED
        BY <4>3, FS_CardinalityType
    <3>3. Len(stream) \in Nat /\ lastDelivered \in 0 .. Len(stream)
      BY Streaming
    <3> QED
      BY <3>1, <3>2, <3>3
  <2>2. cut' = {} => \A i \in lastDelivered + 1 .. Len(stream) : FALSE
    BY <2>1, Streaming
  <2> QED
    BY <1>1, <1>3, <1>4, <1>5, <2>2, QueueFacts DEF AttendedInv, Working
<1>6. CASE q # Builtin
  <2>1. ASSUME cut' = {} PROVE Kept = {}
    <3>1. Len(order) = 0
      BY <1>4, <1>6, <2>1 DEF Depth
    <3> QED
      BY <3>1, KeptAt
  <2> QED
    BY <1>1, <1>3, <1>4, <1>6, <2>1, QueueFacts DEF AttendedInv, Working
<1> QED
  BY <1>5, <1>6

LEMMA WorkerStores ==
  ASSUME TypeInv, DeliveryInv, NEW q \in Queues, WorkerStep(q)
  PROVE  Kept' \subseteq Kept /\ UNCHANGED stream /\ lastDelivered' \in lastDelivered .. Len(stream)
<1>1. lastDelivered \in 0 .. Len(stream) /\ Len(stream) \in Nat
  BY Streaming
<1>2. CASE StopReading(q) \/ Handle(q) \/ (q = Builtin /\ AckStream)
  BY <1>1, <1>2 DEF StopReading, Handle, AckStream, XAck, storeVars, queueVars, leaseVars, Kept
<1>3. CASE q = Builtin /\ FetchBatch
  <2>1. /\ BatchEnd \in lastDelivered + 1 .. Len(stream) /\ lastDelivered' = BatchEnd
        /\ UNCHANGED <<stream, order>>
    BY <1>3, BatchRange, TypesOf DEF FetchBatch, XReadGroup, leaseVars
  <2> HIDE DEF BatchEnd
  <2> QED
    BY <1>1, <2>1 DEF Kept
<1>4. CASE SettleLease(q)
  <2>1. InHand(q).job \in Jobs
    BY <1>4, HandOf DEF SettleLease
  <2>2. ASSUME NEW j \in Jobs, AckJob(j) PROVE Kept' \subseteq Kept
    BY <2>2, Acking DEF DeliveryInv, PlacesInv
  <2>3. Kept' \subseteq Kept
    BY <1>4, <2>1, <2>2 DEF SettleLease, Settle, NackJob, leaseVars, Kept
  <2> QED
    BY <1>1, <1>4, <2>3 DEF SettleLease, queueVars
<1>5. CASE \E j \in Jobs : FetchLease(q, j)
  BY <1>1, <1>5 DEF FetchLease, Lease, queueVars, Kept
<1> QED
  BY <1>2, <1>3, <1>4, <1>5 DEF WorkerStep

LEMMA AttendedStep ==
  ASSUME TypeInv, CurrentInv, DeliveryInv, AttendedInv, [Next]_vars
  PROVE  AttendedInv'
<1>1. lastDelivered \in lastDelivered .. Len(stream)
  BY Streaming
<1>2. ASSUME NEW q \in Queues, WorkerStep(q) PROVE AttendedInv'
  <2>1. /\ up /\ BecomesWorker(q, worker'[q]) /\ worker'[q].cancelled = worker[q].cancelled
        /\ ~worker[q].cancelled => Working(q)'
        /\ UNCHANGED <<slotVars, drains, sender, returned, cut, missed>>
    BY <1>2, StepOfWorker
  <2>2. \A r \in Queues : Working(r) /\ ~worker[r].cancelled =>
          worker'[r].pc \in {"read", "handle", "ack", "nack"} /\ ~worker'[r].cancelled
    BY <2>1 DEF BecomesWorker, Working
  <2> QED
    BY <1>2, <2>1, <2>2, WorkerStores, StillAttended DEF slotVars
<1>3. ASSUME NEW q \in Queues, worker' = Started(q)
      PROVE  \A r \in Queues : Working(r) /\ ~worker[r].cancelled =>
               worker'[r].pc \in {"read", "handle", "ack", "nack"} /\ ~worker'[r].cancelled
  BY <1>3, StartedKeeps, TypesOf DEF BecomesWorker, Working
<1>4. ASSUME NEW q \in Queues, Switch(q) PROVE AttendedInv'
  BY <1>1, <1>3, <1>4, StillAttended
  DEF Switch, Swap, SwapUnchanged, storeVars, queueVars, leaseVars, Kept
<1>5. CASE UndoSwitch
  <2>1. replaced \in Queues
    BY <1>5, TypesOf DEF UndoSwitch
  <2> QED
    BY <1>1, <1>3, <1>5, <2>1, StillAttended
    DEF UndoSwitch, Swap, SwapUnchanged, storeVars, queueVars, leaseVars, Kept
<1>6. CASE CommitSwitch
  BY <1>1, <1>6, StillAttended
  DEF CommitSwitch, SwapUnchanged, storeVars, queueVars, leaseVars, Kept, Working
<1>7. ASSUME NEW j \in Jobs, ReadCurrent(j) \/ LeaseLapses(j) PROVE AttendedInv'
  BY <1>7 DEF ReadCurrent, LeaseLapses, Expire, WorkerUnchanged, storeVars, queueVars, leaseVars,
     slotVars, historyVars, Kept, AttendedInv, Working
<1>8. CASE Crash
  <2>1. /\ ~up' /\ Kept' = Kept
        /\ cut' = cut \cup {q \in Queues : q # cur \/ replaced # NoQueue}
    BY <1>8 DEF Crash, storeVars, leaseVars, Kept
  <2>2. cut' = {} => Adapters = {}
    <3>1. ASSUME cut' = {}, NEW q \in Adapters PROVE FALSE
      BY <2>1, <3>1, QueueFacts
    <3> QED
      BY <3>1
  <2> QED
    BY <2>1, <2>2 DEF AttendedInv
<1>9. CASE Restart
  <2>1. PICK q \in Queues : worker' = [worker EXCEPT ![q] = Fresh]
    BY <1>9 DEF Restart
  <2>2. ~up /\ Kept' = Kept /\ UNCHANGED <<cut, returned, missed>>
    BY <1>9 DEF Restart, storeVars, leaseVars, historyVars, Kept
  <2>3. ASSUME Adapters = {}
        PROVE  worker'[Builtin].pc \in {"read", "handle", "ack", "nack"} /\ ~worker'[Builtin].cancelled
    BY <2>1, <2>3, QueueFacts, FreshWorker, TypesOf
  <2> QED
    BY <2>2, <2>3 DEF AttendedInv, Working
<1>10. CASE UNCHANGED vars
  BY <1>10 DEF vars, storeVars, queueVars, leaseVars, slotVars, historyVars, Kept, AttendedInv, Working
<1> QED
  BY <1>2, <1>4, <1>5, <1>6, <1>7, <1>8, <1>9, <1>10, AttendedEnqueue, AttendedDrain DEF Next

-------------------------------------------------------------------------------
(* The inductive invariant and the theorems                                *)

LEMMA InitialStates == Init => IInv
<1> SUFFICES ASSUME Init PROVE IInv
  OBVIOUS
<1>1. StartWith([j \in Jobs |-> "new"], [e \in Events |-> 0])
  BY DEF Init
<1>2. /\ Kept = {} /\ DOMAIN order = {} /\ Len(order) = 0 /\ Len(stream) = 0
      /\ lastDelivered = 0 /\ hidden = {} /\ lapsed = {}
      /\ \A j \in Jobs : attempts[j] = 0 /\ token[j] = 0 /\ applied[j] = 0 /\ sender[j] = "new"
  BY <1>1 DEF StartWith, QueueInit, LeaseInit, Kept, ToSet
<1>3. /\ \A q \in Queues : worker[q].hand = << >> /\ worker[q].pc \in {"none", "read"}
      /\ worker[Builtin] = Fresh /\ cur = Builtin /\ up /\ replaced = NoQueue
      /\ \A q \in Queues : drains[q] = 0
  BY <1>1, FreshWorker, QueueFacts DEF StartWith
<1>4. CurrentInv
  BY <1>3, FreshWorker, QueueFacts DEF CurrentInv, Working
<1>5. PlacesInv
  BY <1>2 DEF PlacesInv, Distinct, Given
<1>6. StreamInv
  BY <1>2, <1>3, QueueFacts DEF StreamInv
<1>7. LeaseInv
  BY <1>2, <1>3, QueueFacts DEF LeaseInv, LeaseHeld, AppliedOnce
<1>8. AckedInv
  BY <1>2, <1>3 DEF AckedInv, NothingDropped
<1>9. AttendedInv
  BY <1>2, <1>3, FreshWorker DEF AttendedInv, Working
<1> QED
  BY <1>4, <1>5, <1>6, <1>7, <1>8, <1>9, TypeInit DEF IInv, DeliveryInv

LEMMA Inductive == Spec => []IInv
<1>1. IInv /\ [Next]_vars => IInv'
  BY TypeStep, CurrentStep, DeliveryStep, AttendedStep DEF IInv
<1> QED
  BY <1>1, InitialStates, PTL DEF Spec

(* The queues are well formed, and neither loses an accepted job that was  *)
(* not applied: not by a switch, a drain, a lost answer, a retry, a late   *)
(* or repeated ack, a crash or a restart (queue.go:151, redis_stream.go).  *)
THEOREM JobsAreKept == Spec => []QueuesKeepJobs
<1>1. IInv => QueuesKeepJobs
  BY DEF IInv, TypeInv, DeliveryInv, AckedInv, QueuesKeepJobs
<1> QED
  BY <1>1, Inductive, PTL

(* However many adapters, workers and retries there are: as long as no     *)
(* lease on a job runs out, one worker at a time handles it and it is      *)
(* applied once (dynamic/queue.go, sdk/examples/queue/main.go).            *)
THEOREM OneHandler == Spec => []OneHandlerUnlessLapsed
<1>1. ASSUME IInv PROVE HandledByOneUnlessLapsed
  <2> SUFFICES ASSUME NEW q \in Queues, NEW r \in Queues, q # r,
                      worker[q].pc = "handle", worker[r].pc = "handle",
                      InHand(q).job = InHand(r).job
               PROVE  \E i \in {InHand(q), InHand(r)} : <<i.job, i.ref>> \in lapsed
    BY DEF HandledByOneUnlessLapsed
  <2>1. TypeInv /\ DeliveryInv
    BY <1>1 DEF IInv
  <2>2. worker[q].hand # << >> /\ worker[r].hand # << >>
    BY <2>1, HandOf
  <2>3. ASSUME NEW p \in Adapters, worker[p].hand # << >>, worker[Builtin].hand # << >>
        PROVE  InHand(p).job # InHand(Builtin).job
    <3>1. \A i \in 1 .. Len(stream) : stream[i] # InHand(p).job
      BY <2>1, <2>3, LeasedHand
    <3>2. /\ worker[Builtin].hand \in Seq([job : Jobs, ref : Nat])
          /\ InHand(Builtin) = worker[Builtin].hand[1]
      BY <2>1, <2>3, HandOf, QueueFacts
    <3>3. 1 \in DOMAIN worker[Builtin].hand
      BY <2>3, <3>2, RestOfHand
    <3>4. /\ stream[InHand(Builtin).ref] = InHand(Builtin).job
          /\ InHand(Builtin).ref \in 1 .. lastDelivered
      BY <2>1, <3>2, <3>3 DEF DeliveryInv, StreamInv
    <3> QED
      BY <2>1, <3>1, <3>4, Streaming
  <2>4. q \in Adapters /\ r \in Adapters
    BY <2>2, <2>3, QueueFacts
  <2> QED
    BY <2>1, <2>2, <2>4 DEF DeliveryInv, LeaseInv, LeaseHeld
<1>2. ASSUME IInv PROVE AppliedOnceUnlessLapsed
  <2> SUFFICES ASSUME NEW j \in Jobs, applied[j] > 1
               PROVE  \E t \in 1 .. attempts[j] : <<j, t>> \in lapsed
    BY DEF AppliedOnceUnlessLapsed
  <2>1. TypeInv /\ DeliveryInv /\ applied[j] \in Nat
    BY <1>2, TypesOf DEF IInv
  <2>2. PICK p \in lapsed : p[1] = j
    BY <2>1 DEF DeliveryInv, LeaseInv, AppliedOnce, Unlapsed
  <2>3. p = <<j, p[2]>> /\ p[2] \in 1 .. attempts[j]
    BY <2>1, <2>2, TypesOf DEF DeliveryInv, PlacesInv
  <2> QED
    BY <2>2, <2>3
<1>3. IInv => OneHandlerUnlessLapsed
  BY <1>1, <1>2 DEF OneHandlerUnlessLapsed
<1> QED
  BY <1>3, Inductive, PTL

(* Whatever switches, undone switches, drains, crashes and restarts come   *)
(* in whatever order, the current queue has a worker that nobody stops     *)
(* unless a queue came back while it was drained (dynamic/queue.go:14).    *)
THEOREM CurrentIsWorkedOn == Spec => []CurrentKeepsWorker
<1>1. IInv => CurrentKeepsWorker
  BY DEF IInv, CurrentInv, CurrentKeepsWorker, CurrentHasWorker
<1> QED
  BY <1>1, Inductive, PTL

(* A job waits where nobody reads only after a drain was cut short, after  *)
(* its sender had read the old queue, or after a queue came back while it  *)
(* was drained (manager/activate.go).                                      *)
THEOREM NothingLeftBehind == Spec => []LeftBehindOnlyIfCut
<1>1. ASSUME IInv PROVE LeftBehindOnlyIfCut
  <2> SUFFICES ASSUME NEW j \in Jobs, up, Unread(j), cut = {}, j \notin missed, ~returned
               PROVE  FALSE
    BY DEF LeftBehindOnlyIfCut
  <2>1. AttendedInv
    BY <1>1 DEF IInv
  <2>2. CASE /\ j \in Kept
             /\ \A q \in Adapters : ~Holds(q, j) /\ (~Working(q) \/ worker[q].cancelled)
    <3>1. Kept \ missed # {}
      BY <2>2
    <3> QED
      BY <2>1, <2>2, <3>1 DEF AttendedInv
  <2>3. CASE /\ \E i \in lastDelivered + 1 .. Len(stream) : stream[i] = j
             /\ ~Working(Builtin) \/ worker[Builtin].cancelled
    BY <2>1, <2>3 DEF AttendedInv
  <2> QED
    BY <2>2, <2>3 DEF Unread
<1> QED
  BY <1>1, Inductive, PTL
===============================================================================
