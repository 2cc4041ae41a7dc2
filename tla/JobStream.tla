------------------------------ MODULE JobStream -------------------------------
(***************************************************************************)
(* The cache-update queue (internal/cachequeue/redis_stream.go): a Redis   *)
(* stream read through one consumer group by one consumer.  A job is       *)
(* named by its position in the stream.  XREADGROUP with ">" delivers only *)
(* messages no consumer of the group has seen; nothing in the code reads   *)
(* the pending list again.                                                 *)
(***************************************************************************)
EXTENDS Integers, Sequences

CONSTANT BatchSize   \* COUNT of XREADGROUP, 10 in the code

ASSUME BatchAssumption == BatchSize \in Nat \ {0}

VARIABLES
  stream,          \* the payloads ever added, oldest first
  lastDelivered,   \* position of the group's last-delivered id
  pending          \* the group's pending list: delivered, not acknowledged

queueVars == <<stream, lastDelivered, pending>>

QueueTypeOK(Payload) ==
  /\ stream \in Seq(Payload)
  /\ lastDelivered \in 0 .. Len(stream)
  /\ pending \subseteq 1 .. lastDelivered

QueueInit ==
  /\ stream = << >>
  /\ lastDelivered = 0
  /\ pending = {}

XAdd(job) ==
  /\ stream' = Append(stream, job)
  /\ UNCHANGED <<lastDelivered, pending>>

HasNew == lastDelivered < Len(stream)

BatchEnd ==
  IF lastDelivered + BatchSize < Len(stream)
    THEN lastDelivered + BatchSize
    ELSE Len(stream)

XReadGroupNoAck ==
  /\ HasNew
  /\ lastDelivered' = BatchEnd
  /\ UNCHANGED <<stream, pending>>

XReadGroup ==
  /\ HasNew
  /\ lastDelivered' = BatchEnd
  /\ pending' = pending \cup (lastDelivered + 1) .. BatchEnd
  /\ UNCHANGED stream

XAck(j) ==
  /\ pending' = pending \ {j}
  /\ UNCHANGED <<stream, lastDelivered>>
===============================================================================
