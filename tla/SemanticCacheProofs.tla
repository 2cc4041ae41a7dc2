------------------------- MODULE SemanticCacheProofs --------------------------
(***************************************************************************)
(* What implementing SemanticCache is worth: its own invariant.            *)
(***************************************************************************)
EXTENDS SemanticCache, FiniteSetTheorems, TLAPS

(* The sets are finite, and only admitted jobs are owed.                   *)
CacheInv ==
  /\ IsFiniteSet(cached)
  /\ IsFiniteSet(owing)
  /\ owing \subseteq admitted
  /\ Accounted

LEMMA CacheInvStep ==
  ASSUME Capacity \in Nat, CacheInv, [CacheNext]_cacheVars
  PROVE  CacheInv'
<1> USE DEF CacheInv, Accounted
<1>1. Cardinality(cached) \in Nat /\ Cardinality(owing) \in Nat
  BY FS_CardinalityType
<1>2. ASSUME NEW id \in Ids, NEW job \in admitted', Admit(id, job)
      PROVE  CacheInv'
  <2>1. /\ IsFiniteSet(cached') /\ Cardinality(cached') = Cardinality(cached) + 1
        /\ IsFiniteSet(owing') /\ Cardinality(owing') = Cardinality(owing) + 1
    BY <1>2, FS_AddElement DEF Admit
  <2> QED BY <1>1, <1>2, <2>1 DEF Admit
<1>3. ASSUME NEW job \in owing, Settle(job)
      PROVE  CacheInv'
  <2>1. IsFiniteSet(owing') /\ Cardinality(owing') \in Nat
    BY <1>3, FS_RemoveElement, FS_CardinalityType DEF Settle
  <2> QED BY <1>1, <1>3, <2>1 DEF Settle, Fits
<1>4. ASSUME NEW id \in cached, Evict(id)
      PROVE  CacheInv'
  <2>1. IsFiniteSet(cached') /\ Cardinality(cached') = Cardinality(cached) - 1
    BY <1>4, FS_RemoveElement DEF Evict
  <2> QED BY <1>1, <1>4, <2>1 DEF Evict
<1>5. CASE Purge
  BY <1>1, <1>5, FS_EmptySet DEF Purge
<1>6. CASE UNCHANGED cacheVars
  BY <1>6 DEF cacheVars
<1> QED
  BY <1>2, <1>3, <1>4, <1>5, <1>6 DEF CacheNext

(* Whatever implements SemanticCache (OrchestratorProofs, CacheImplemented) *)
(* exceeds its capacity by no more than the jobs it owes.                   *)
THEOREM AbstractlyAccounted ==
  ASSUME Capacity \in Nat
  PROVE  CacheSpec => []Accounted
<1>1. CacheInit => CacheInv
  BY FS_EmptySet DEF CacheInit, CacheInv, Accounted
<1>2. CacheInv /\ [CacheNext]_cacheVars => CacheInv'
  BY CacheInvStep
<1>3. CacheInv => Accounted
  BY DEF CacheInv
<1> QED
  BY <1>1, <1>2, <1>3, PTL DEF CacheSpec
===============================================================================
