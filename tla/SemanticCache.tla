----------------------------- MODULE SemanticCache ----------------------------
(***************************************************************************)
(* What the orchestrator promises of the durable cache whatever fails:     *)
(* an answered query is admitted at most once, an entry is evicted only    *)
(* while the cache is over its capacity, and an admission that has left    *)
(* the cache over capacity stays owed (its job stays pending) until the    *)
(* cache was seen within capacity again.                                   *)
(***************************************************************************)
EXTENDS Integers, FiniteSets

CONSTANTS Ids, Capacity

VARIABLES
  cached,     \* ids in the durable cache
  admitted,   \* jobs ever admitted
  owing       \* admitted jobs not yet settled

cacheVars == <<cached, admitted, owing>>

Fits == Capacity = 0 \/ Cardinality(cached) <= Capacity

CacheInit ==
  /\ cached = {}
  /\ admitted = {}
  /\ owing = {}

Admit(id, job) ==
  /\ id \notin cached
  /\ job \notin admitted
  /\ cached' = cached \cup {id}
  /\ admitted' = admitted \cup {job}
  /\ owing' = owing \cup {job}

Settle(job) ==
  /\ job \in owing
  /\ Fits
  /\ owing' = owing \ {job}
  /\ UNCHANGED <<cached, admitted>>

Evict(id) ==
  /\ id \in cached
  /\ ~Fits
  /\ cached' = cached \ {id}
  /\ UNCHANGED <<admitted, owing>>

Purge ==
  /\ cached' = {}
  /\ UNCHANGED <<admitted, owing>>

CacheNext ==
  \/ \E id \in Ids : \E job \in admitted' : Admit(id, job)
  \/ \E job \in owing : Settle(job)
  \/ \E id \in cached : Evict(id)
  \/ Purge

CacheSpec == CacheInit /\ [][CacheNext]_cacheVars

(* The cache exceeds its capacity by no more than the admissions that are  *)
(* still owed: enforceCapacity never forgets an overrun.                   *)
Accounted == Capacity > 0 => Cardinality(cached) <= Capacity + Cardinality(owing)
===============================================================================
