------------------------------- MODULE Policies -------------------------------
(***************************************************************************)
(* The three shipped policies side by side: each is given the same hook    *)
(* calls, in every order, so that each can be compared with what the       *)
(* documentation says of it and with the contract of EvictionPolicy.       *)
(***************************************************************************)
EXTENDS LRUPolicy, LFUPolicy, FIFOPolicy

policiesVars == <<lruOrder, lfuVars, fifoOrder, log>>

PoliciesInit == LogInit /\ LRUInit /\ LFUInit /\ FIFOInit

OnHits(id) == LRUOnHit(id) /\ LFUOnHit(id) /\ FIFOOnHit(id)

OnInserts(id) == LRUOnInsert(id) /\ LFUOnInsert(id) /\ FIFOOnInsert(id)

OnDeletes(id) == LRUOnDelete(id) /\ LFUOnDelete(id) /\ FIFOOnDelete(id)

Flushes == LRUFlush /\ LFUFlush /\ FIFOFlush

PoliciesNext ==
  \/ \E id \in Ids : OnHits(id) \/ OnInserts(id) \/ OnDeletes(id)
  \/ Flushes

PoliciesSpec == PoliciesInit /\ [][PoliciesNext]_policiesVars

(* The LRU list holds each id it was told of once, and its back is the     *)
(* least recently used one, whatever hooks were called in whatever order   *)
(* (lru.go).                                                               *)
LRUMatchesReference ==
  /\ LRUItems = Resident
  /\ Len(lruOrder) = Cardinality(Resident)
  /\ Selects(LRUVictim, LeastRecentlyUsed)

(* The LFU map's keys are the ids it was told of, and Victim returns the   *)
(* oldest of the least frequently used, in whatever order Go visits the    *)
(* map (lfu.go).                                                           *)
LFUMatchesReference ==
  /\ LFUItems = Resident
  /\ LFUVictims = LeastFrequentlyUsed
  /\ Cardinality(LFUVictims) <= 1

(* The FIFO list holds each id it was told of once, and its front is the   *)
(* id whose present stay began first (fifo.go).                            *)
FIFOMatchesReference ==
  /\ FIFOItems = Resident
  /\ Len(fifoOrder) = Cardinality(Resident)
  /\ Selects(FIFOVictim, FirstIn)

(* All three do what the documentation says of them.                       *)
PoliciesMatchReference == LRUMatchesReference /\ LFUMatchesReference /\ FIFOMatchesReference

LRUContract == INSTANCE EvictionPolicy WITH tracked <- LRUItems
LFUContract == INSTANCE EvictionPolicy WITH tracked <- LFUItems
FIFOContract == INSTANCE EvictionPolicy WITH tracked <- FIFOItems

HooksAsPromised ==
  /\ \A id \in Ids :
       /\ Called("hit", id) =>
            LRUContract!OnHit(id) /\ LFUContract!OnHit(id) /\ FIFOContract!OnHit(id)
       /\ Called("insert", id) =>
            LRUContract!OnInsert(id) /\ LFUContract!OnInsert(id) /\ FIFOContract!OnInsert(id)
       /\ Called("delete", id) =>
            LRUContract!OnDelete(id) /\ LFUContract!OnDelete(id) /\ FIFOContract!OnDelete(id)
  /\ Called("flush", NoId) =>
       LRUContract!FlushPolicy /\ LFUContract!FlushPolicy /\ FIFOContract!FlushPolicy

(* Each hook does to the tracked ids of each policy exactly what the       *)
(* contract the orchestrator relies on says: a hit on an unknown id leaves *)
(* no phantom, an insert adds one id, a delete removes one, a flush        *)
(* removes all (policy.go:12).                                             *)
PoliciesMeetContract == [][HooksAsPromised]_policiesVars
===============================================================================
