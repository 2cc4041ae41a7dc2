---------------------------- MODULE PluginRegistry ----------------------------
(***************************************************************************)
(* What the plugin registry (internal/plugins/registry) keeps in Redis     *)
(* about a switch: one record per plugin and, per slot, the id of the      *)
(* plugin that serves it.  Each operation is one atomic call; Update is    *)
(* WATCH/MULTI, retried until no other update came between.  Records come  *)
(* verified: installing, upgrading and deleting them is not part of this   *)
(* module.                                                                 *)
(***************************************************************************)
CONSTANTS
  Slots,       \* the switchable components
  Plugins,     \* ids of installed plugins
  NoPlugin,    \* the empty id: the built-in implementation
  SlotOf,      \* the slot a plugin is activated into
  Thresholds,  \* similarity thresholds, each tuned for one metric
  Blocked,     \* the threshold -1, which no distance is within
  NoThreshold  \* a threshold not given

ASSUME PluginsAssumption ==
  /\ NoPlugin \notin Plugins
  /\ SlotOf \in [Plugins -> Slots]
  /\ {Blocked, NoThreshold} \cap Thresholds = {}
  /\ Blocked # NoThreshold

VARIABLES
  records,   \* the records, by plugin id
  selection  \* the active id of each slot

registryVars == <<records, selection>>

-------------------------------------------------------------------------------
Impls == Plugins \cup {NoPlugin}

(* The implementations of a slot, the built-in one included.               *)
ImplsOf(s) == {NoPlugin} \cup {p \in Plugins : SlotOf[p] = s}

GivenThresholds == Thresholds \cup {Blocked, NoThreshold}

(* "ready" is verified, inactive or rolled back, and "working" checking,   *)
(* migrating or activating: the manager tells them apart only for display. *)
States == {"ready", "working", "rollingBack", "active", "failed"}

Record ==
  [state : States, active : BOOLEAN, previous : Impls,
   previousThreshold : GivenThresholds, threshold : GivenThresholds]

Verified ==
  [state |-> "ready", active |-> FALSE, previous |-> NoPlugin,
   previousThreshold |-> NoThreshold, threshold |-> NoThreshold]

RegistryTypeOK ==
  /\ records \in [Plugins -> Record]
  /\ selection \in [Slots -> Impls]

RegistryInit ==
  /\ records = [p \in Plugins |-> Verified]
  /\ selection = [s \in Slots |-> NoPlugin]

-------------------------------------------------------------------------------
(* Operations                                                              *)

(* SetActive, and for NoPlugin ClearActive.                                *)
Select(s, p) == selection' = [selection EXCEPT ![s] = p]

SetState(p, st) == records' = [records EXCEPT ![p].state = st]

(* What the record of a replaced plugin becomes: inactive or rolled back.  *)
Retire(p) ==
  records' = [records EXCEPT ![p].state = "ready", ![p].active = FALSE]
===============================================================================
