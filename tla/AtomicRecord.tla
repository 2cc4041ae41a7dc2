----------------------------- MODULE AtomicRecord ------------------------------
(***************************************************************************)
(* What the registry's interface promises of one record                    *)
(* (internal/plugins/registry/record.go): it is created once and deleted   *)
(* once, and each update is applied in one step or not at all.  An update  *)
(* that was applied may still be reported as a failure, but one that is    *)
(* acknowledged was applied at that moment.                                *)
(***************************************************************************)
CONSTANT Updaters   \* calls of Update, each made once

VARIABLES
  life,      \* the record is "new", "there" or "gone"
  applied,   \* the updates in the record
  acked      \* the updates that were acknowledged

atomicVars == <<life, applied, acked>>

AtomicInit ==
  /\ life = "new"
  /\ applied = {}
  /\ acked = {}

Create ==
  /\ life = "new"
  /\ life' = "there"
  /\ UNCHANGED <<applied, acked>>

Update(u) ==
  /\ life = "there"
  /\ u \notin applied
  /\ applied' = applied \cup {u}
  /\ acked' \in {acked, acked \cup {u}}
  /\ UNCHANGED life

Delete ==
  /\ life = "there"
  /\ life' = "gone"
  /\ applied' = {}
  /\ UNCHANGED acked

AtomicNext == Create \/ Delete \/ \E u \in Updaters : Update(u)

AtomicSpec == AtomicInit /\ [][AtomicNext]_atomicVars
===============================================================================
