---------------------------- MODULE EvictionPolicy ----------------------------
(***************************************************************************)
(* The contract of internal/policy.EvictionPolicy (policy.go, and the      *)
(* method table of docs/EXTENDING.md): which ids a policy tracks, and      *)
(* nothing of how it orders them.  Every method of the built-in policies   *)
(* runs under the policy's own mutex, so each is one step.                 *)
(***************************************************************************)
EXTENDS CacheIds

VARIABLE tracked   \* the ids the policy holds metadata for

PolicyTypeOK == tracked \subseteq Ids

PolicyInit == tracked = {}

(* A hit never creates or removes an id.                                   *)
OnHit(id) == UNCHANGED tracked

OnInsert(id) == tracked' = tracked \cup {id}

OnDeleteDropped(id) == UNCHANGED tracked

OnDelete(id) == tracked' = tracked \ {id}

(* Selecting a victim does not remove it; ok is false exactly when the     *)
(* policy tracks nothing.                                                  *)
Victim(id, ok) ==
  /\ ok <=> tracked # {}
  /\ id \in IF ok THEN tracked ELSE {NoId}
  /\ UNCHANGED tracked

FlushPolicy == tracked' = {}
===============================================================================
