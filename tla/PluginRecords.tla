---------------------------- MODULE PluginRecords -----------------------------
(***************************************************************************)
(* The registry of installed plugins (internal/plugins/registry) with the  *)
(* full lifecycle of a record (internal/plugins/types.go).  PluginRegistry *)
(* is the coarser view of it that a switch of the cache needs.  Every call *)
(* is atomic: that Update is, although it reads, changes and writes, is    *)
(* the subject of RecordUpdate.  The set of ids that List reads is not     *)
(* kept apart from the records.                                            *)
(***************************************************************************)
EXTENDS Sequences, Naturals

CONSTANTS
  Slots,     \* the switchable components
  Plugins,   \* the random ids records get, each used once
  NoPlugin,  \* the empty id: the built-in implementation
  SlotOf,    \* the slot a plugin is activated into
  ModeOf     \* how a plugin is installed

Modes == {"endpoint", "image", "repository"}

ASSUME RecordsAssumption ==
  /\ NoPlugin \notin Plugins
  /\ SlotOf \in [Plugins -> Slots]
  /\ ModeOf \in [Plugins -> Modes]

VARIABLES
  records,   \* the record of each id
  selection  \* the active id of each slot

registryVars == <<records, selection>>

-------------------------------------------------------------------------------
Impls == Plugins \cup {NoPlugin}

InProgress ==
  {"validating", "testing", "building", "scanning", "starting", "migrating",
   "checking", "activating", "rolling_back"}

States == InProgress \cup
  {"draft", "verified", "active", "inactive", "failed", "rolled_back"}

(* Where a record may go when nothing but setState moves it.               *)
Transitions ==
  [draft        |-> {"validating", "failed"},
   validating   |-> {"building", "scanning", "starting", "testing", "failed"},
   building     |-> {"scanning", "failed"},
   scanning     |-> {"starting", "failed"},
   starting     |-> {"testing", "failed"},
   testing      |-> {"checking", "failed"},
   checking     |-> {"verified", "activating", "migrating", "failed"},
   verified     |-> {"migrating", "checking", "activating", "validating",
                     "inactive", "failed"},
   migrating    |-> {"checking", "activating", "verified", "failed"},
   activating   |-> {"active", "verified", "failed"},
   active       |-> {"inactive", "rolling_back", "active"},
   inactive     |-> {"validating", "checking", "migrating", "activating",
                     "failed", "verified"},
   failed       |-> {"validating", "checking", "migrating", "activating",
                     "inactive", "verified", "failed"},
   rolling_back |-> {"rolled_back", "active", "failed"},
   rolled_back  |-> {"validating", "checking", "migrating", "activating",
                     "inactive", "verified"}]

ValidTransition(from, to) ==
  (from = to /\ from \in InProgress) \/ to \in Transitions[from]

(* A record that was never created, or is deleted, is only its state.      *)
Record ==
  [state : States \cup {"none", "deleted"}, active : BOOLEAN,
   previous : Impls, passed : BOOLEAN]

Blank(st) ==
  [state |-> st, active |-> FALSE, previous |-> NoPlugin, passed |-> FALSE]

RegistryTypeOK ==
  /\ records \in [Plugins -> Record]
  /\ selection \in [Slots -> Impls]

RegistryInit ==
  /\ records = [p \in Plugins |-> Blank("none")]
  /\ selection = [s \in Slots |-> NoPlugin]

-------------------------------------------------------------------------------
(* Operations                                                              *)

(* Get finds the record.                                                   *)
Exists(p) == p \in Plugins /\ records[p].state \notin {"none", "deleted"}

(* List, which skips an id whose record is gone.                           *)
Listed == {p \in Plugins : Exists(p)}

Create(p) ==
  /\ records[p].state = "none"
  /\ records' = [records EXCEPT ![p] = Blank("draft")]

(* The registry after Update of a record, which fails if there is none.    *)
Updated(p, r) == IF Exists(p) THEN [records EXCEPT ![p] = r] ELSE records

Marked(p, st) == Updated(p, [records[p] EXCEPT !.state = st])

(* A number of setState calls in a row.                                    *)
CanWalk(p, path) ==
  /\ Exists(p)
  /\ ValidTransition(records[p].state, path[1])
  /\ \A i \in 1 .. Len(path) - 1 : ValidTransition(path[i], path[i + 1])

Walked(p, path) == Marked(p, path[Len(path)])

(* setState, its error ignored.                                            *)
Tried(p, st) == IF CanWalk(p, <<st>>) THEN Marked(p, st) ELSE records

Erase(p) == records' = [records EXCEPT ![p] = Blank("deleted")]

(* SetActive, and for NoPlugin ClearActive.                                *)
Select(s, p) == selection' = [selection EXCEPT ![s] = p]
===============================================================================
