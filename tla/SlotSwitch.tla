------------------------------ MODULE SlotSwitch ------------------------------
(***************************************************************************)
(* Replacing the implementation of a component while the cache is in use   *)
(* (internal/plugins/manager/activate.go).  A switch plans what the cache  *)
(* needs, pauses writes, migrates, swaps a pointer, resumes writes and     *)
(* then records the outcome.  One switch runs per slot, several slots may  *)
(* switch at once, and queries never stop.                                 *)
(*                                                                         *)
(* The plans for the queue and the LLM are empty and neither component     *)
(* holds entries; they are not among the slots here.  The record of a      *)
(* request is read together with the slot's lock: a request that is        *)
(* overtaken between the two is not modelled.                              *)
(***************************************************************************)
EXTENDS CacheSlots

CONSTANTS
  Confirmations, \* what the administrator may confirm, by slot
  Faults,        \* pairs <<call, outcome>> a remote call may end with
  Limits         \* how often each unbounded event happens in a behaviour

(* The remote calls of a switch: preparing the candidate and reading the   *)
(* cache, embedding entries again, flushing the index or the store, saving *)
(* an entry, rebuilding an index, replaying into a policy, the call after  *)
(* the swap, SetActive and the updates of the new and of the old record,   *)
(* and restoring a policy.                                                 *)
Calls ==
  {"prepare", "embed", "flushIndex", "flushStore", "save", "rebuild", "replay",
   "after", "setActive", "recordNew", "recordOld", "restorePolicy"}

Outcomes == {"refused", "replyLost"}
Events == {"switch", "query", "fault", "crash"}

(* A compatibility choice, and whether a threshold is given for the metric *)
(* of the implementation to come: the administrator gives a fitting one.   *)
Confirmation ==
  [compat : {"none", "flush", "reembed", "migrate", "empty", "adopt"},
   threshold : BOOLEAN]

ASSUME ConfirmationsAssumption == Confirmations \in [Slots -> SUBSET Confirmation]
ASSUME FaultsAssumption == Faults \subseteq Calls \X Outcomes
ASSUME LimitsAssumption == Limits \in [Events -> Nat]

VARIABLES
  up,          \* the orchestrator runs
  active,      \* the manager's own map from slots to active ids
  sw,          \* the switch of each slot
  spent,       \* how often each event of Limits has happened
  overlapped,  \* two switches have been under way at once (history)
  skipped,     \* a deactivation has skipped a previous plugin (history)
  unrestored   \* a failed switch left contents behind (history)

switchVars == <<active, sw>>
histVars == <<overlapped, skipped, unrestored>>
vars == <<registryVars, cacheVars, up, switchVars, spent, histVars>>

-------------------------------------------------------------------------------
Steps ==
  {"idle", "plan", "pause", "migrate", "save", "restore", "swap", "after",
   "release", "abort", "commit", "record", "finish"}

Hows ==
  {"none", "flush", "reembed", "rebuild", "replay", "plain", "migrate",
   "empty", "adopt"}

NoSwitch ==
  [pc |-> "idle", mode |-> "activate", actor |-> NoPlugin, was |-> "ready",
   target |-> NoPlugin, old |-> NoPlugin, compat |-> "none",
   confirmed |-> NoThreshold, how |-> "none", wanted |-> NoThreshold,
   before |-> NoThreshold, saved |-> NoThreshold, replaced |-> NoPlugin,
   listed |-> Nothing, todo |-> {}]

Switch ==
  [pc : Steps, mode : {"activate", "deactivate", "rollback"}, actor : Impls,
   was : States, target : Impls, old : Impls,
   compat : {"none", "flush", "reembed", "migrate", "empty", "adopt"},
   confirmed : GivenThresholds, how : Hows, wanted : GivenThresholds,
   before : GivenThresholds, saved : GivenThresholds, replaced : Impls,
   listed : Contents, todo : SUBSET Ids]

(* The type invariant.                                                     *)
TypeOK ==
  /\ RegistryTypeOK
  /\ CacheTypeOK
  /\ up \in BOOLEAN
  /\ active \in [Slots -> Impls]
  /\ sw \in [Slots -> Switch]
  /\ spent \in [Events -> Nat]
  /\ overlapped \in BOOLEAN
  /\ skipped \in BOOLEAN
  /\ unrestored \in BOOLEAN

Spend(e) ==
  /\ spent[e] < Limits[e]
  /\ spent' = [spent EXCEPT ![e] = @ + 1]

Answered == UNCHANGED spent
Refused(call) == <<call, "refused">> \in Faults /\ Spend("fault")
ReplyLost(call) == <<call, "replyLost">> \in Faults /\ Spend("fault")
Faulty(call) == Refused(call) \/ ReplyLost(call)

At(s, step) == up /\ sw[s].pc = step
Idle(s) == sw[s].pc = "idle"
Go(s, step) == sw' = [sw EXCEPT ![s].pc = step]
Done(s) == sw' = [sw EXCEPT ![s] = NoSwitch]

(* failed(): a switch that only lacks a confirmation puts the record back, *)
(* a rollback leaves its plugin active, and any other marks it failed.     *)
StateAfter(s, cause) ==
  CASE cause = "requirement" -> sw[s].was
    [] cause # "requirement" /\ sw[s].mode = "rollback" -> "active"
    [] OTHER -> "failed"

Fail(s, cause) == SetState(sw[s].actor, StateAfter(s, cause)) /\ Done(s)

-------------------------------------------------------------------------------
(* Requests of the administrator                                           *)

(* conf.Threshold: as given, or else, on the way back, as it was before.   *)
ConfirmedThreshold(s, mode, p, target, c) ==
  CASE c.threshold /\ s = "vectorStore" -> MetricOf[target]
    [] mode # "activate" /\ ~c.threshold -> records[p].previousThreshold
    [] OTHER -> NoThreshold

Begin(s, mode, p, target, c) ==
  /\ up
  /\ Idle(s)
  /\ Spend("switch")
  /\ sw' = [sw EXCEPT ![s] =
       [NoSwitch EXCEPT !.pc = "plan", !.mode = mode, !.actor = p,
          !.was = records[p].state, !.target = target, !.old = active[s],
          !.compat = c.compat,
          !.confirmed = ConfirmedThreshold(s, mode, p, target, c)]]
  /\ overlapped' = (overlapped \/ \E t \in Slots : ~Idle(t))
  /\ skipped' = (skipped \/ (mode = "deactivate" /\ records[p].previous # NoPlugin))
  /\ UNCHANGED <<selection, cacheVars, up, active, unrestored>>

Activate(p) ==
  /\ records[p].state \in {"ready", "failed"}
  /\ active[SlotOf[p]] # p
  /\ SetState(p, "working")
  /\ \E c \in Confirmations[SlotOf[p]] : Begin(SlotOf[p], "activate", p, p, c)

(* The record of the plugin keeps its state until the switch is over.      *)
Deactivate(p) ==
  /\ records[p].active
  /\ UNCHANGED records
  /\ \E c \in Confirmations[SlotOf[p]] :
       Begin(SlotOf[p], "deactivate", p, NoPlugin, c)

Rollback(p) ==
  /\ records[p].active
  /\ records[p].state \in {"active", "rollingBack"}
  /\ SetState(p, "rollingBack")
  /\ \E c \in Confirmations[SlotOf[p]] :
       Begin(SlotOf[p], "rollback", p, records[p].previous, c)

-------------------------------------------------------------------------------
(* Planning: nothing is changed before writes are paused                   *)

EmbedderPlan(s) ==
  CASE SpaceOf[sw[s].target] = SpaceOf[serving[s]] \/ Held(Store) = {} -> "none"
    [] OTHER -> IF sw[s].compat \in {"flush", "reembed"} THEN sw[s].compat
                                                         ELSE "decide"

MetricChanges(s) == MetricOf[sw[s].target] # MetricOf[serving[s]]

VectorStorePlan(s) ==
  CASE MetricChanges(s) /\ sw[s].confirmed = NoThreshold -> "decide"
    [] MetricChanges(s) /\ sw[s].confirmed = Blocked -> "refuse"
    [] OTHER -> IF sw[s].compat = "flush" THEN "flush" ELSE "rebuild"

(* The built-in store is one object; the adapter of a plugin is built anew *)
(* and is never the store in use.                                          *)
PersistencePlan(s) ==
  LET candidate == Held(kept[sw[s].target])
      same == sw[s].target = NoPlugin /\ serving[s] = NoPlugin
      compat == sw[s].compat
  IN  CASE same -> "refuse"
        [] ~same /\ Held(Store) = {} ->
             IF candidate = {} THEN "plain" ELSE "adopt"
        [] ~same /\ Held(Store) # {} /\ compat \in {"migrate", "empty"} ->
             IF candidate = {} THEN compat ELSE "refuse"
        [] ~same /\ Held(Store) # {} /\ compat = "adopt" -> "adopt"
        [] OTHER -> "decide"

PlanFor(s) ==
  CASE s = "embedder" -> EmbedderPlan(s)
    [] s = "vectorStore" -> VectorStorePlan(s)
    [] s = "persistence" -> PersistencePlan(s)
    [] s = "policy" -> "replay"

WantedThreshold(s) ==
  IF s = "vectorStore" /\ MetricChanges(s) THEN sw[s].confirmed ELSE NoThreshold

(* The candidate must be healthy, and two of the plans read the store in   *)
(* use.  The plan and the threshold to remember are read before the gate   *)
(* is taken; a plan without a gate swaps at once.                          *)
Plan(s) ==
  /\ At(s, "plan")
  /\ \/ /\ sw[s].target # NoPlugin \/ s \in {"embedder", "persistence"}
        /\ Refused("prepare")
        /\ Fail(s, "error")
     \/ /\ Answered
        /\ CASE PlanFor(s) = "decide" -> Fail(s, "requirement")
             [] PlanFor(s) = "refuse" -> Fail(s, "error")
             [] OTHER ->
                  /\ sw' = [sw EXCEPT
                       ![s].pc = IF PlanFor(s) = "none" THEN "swap" ELSE "pause",
                       ![s].how = PlanFor(s),
                       ![s].wanted = WantedThreshold(s),
                       ![s].before = threshold]
                  /\ UNCHANGED records
  /\ UNCHANGED <<selection, cacheVars, up, active, histVars>>

-------------------------------------------------------------------------------
(* execute: pause, migrate, swap, check, resume                            *)

Migrates(s) == sw[s].how \in {"flush", "reembed", "rebuild", "replay", "migrate"}

PausedThresholdKept(s) == threshold

(* While vectors are recomputed no query may match.                        *)
PausedThreshold(s) == IF sw[s].how = "reembed" THEN Blocked ELSE threshold

Pause(s) ==
  /\ At(s, "pause")
  /\ gate = NoSlot
  /\ gate' = s
  /\ threshold' = PausedThreshold(s)
  /\ sw' = [sw EXCEPT ![s].pc = IF Migrates(s) THEN "migrate" ELSE "swap",
                      ![s].saved = threshold]
  /\ UNCHANGED <<registryVars, serving, contentVars, trafficVars, up, active,
                 spent, histVars>>

(* Another switch held the gate for a minute.                              *)
PauseTimesOut(s) ==
  /\ At(s, "pause")
  /\ gate # NoSlot
  /\ Fail(s, "error")
  /\ UNCHANGED <<selection, cacheVars, up, active, spent, histVars>>

(* FlushCache on the components that serve now.  A store that fails to     *)
(* flush is logged and the flush goes on.                                  *)
MigrateByFlush(s) ==
  /\ At(s, "migrate")
  /\ sw[s].how = "flush"
  /\ \/ /\ IndexAs(Nothing)
        /\ TrackAs({})
        /\ \/ (Answered \/ ReplyLost("flushStore")) /\ KeepAs(Nothing)
           \/ Refused("flushStore") /\ UNCHANGED kept
        /\ Go(s, "swap")
     \/ /\ \/ Refused("flushIndex") /\ UNCHANGED indexed
           \/ ReplyLost("flushIndex") /\ IndexAs(Nothing)
        /\ Go(s, "abort")
        /\ UNCHANGED <<kept, tracked>>
  /\ UNCHANGED <<registryVars, serving, gate, threshold, trafficVars, up,
                 active, histVars>>

(* reembed: every prompt is embedded before anything is written ...        *)
EmbedEntries(s) ==
  /\ At(s, "migrate")
  /\ sw[s].how = "reembed"
  /\ \/ Answered /\ sw' = [sw EXCEPT ![s].pc = "save", ![s].listed = Store,
                                     ![s].todo = Held(Store)]
     \/ Faulty("embed") /\ sw' = [sw EXCEPT ![s].pc = "abort",
                                            ![s].listed = Store]
  /\ UNCHANGED <<registryVars, cacheVars, up, active, histVars>>

Unsaved(s, i) == sw[s].todo \ {i}

(* ... the entries are saved one by one with their new vectors ...         *)
SaveEntry(s) ==
  /\ At(s, "save")
  /\ \E i \in sw[s].todo :
       \/ /\ Answered
          /\ KeepAs([Store EXCEPT ![i] = SpaceOf[sw[s].target]])
          /\ sw' = [sw EXCEPT ![s].todo = Unsaved(s, i)]
       \/ /\ Go(s, "restore")
          /\ \/ Refused("save") /\ UNCHANGED kept
             \/ /\ ReplyLost("save")
                /\ KeepAs([Store EXCEPT ![i] = SpaceOf[sw[s].target]])
  /\ UNCHANGED <<registryVars, serving, indexed, tracked, gate, threshold,
                 trafficVars, up, active, histVars>>

Reembedded(s) ==
  [i \in Ids |-> IF sw[s].listed[i] = NoSpace THEN NoSpace
                                              ELSE SpaceOf[sw[s].target]]

(* ... and the index is rebuilt from them.                                 *)
RebuildIndex(s) ==
  /\ At(s, "save")
  /\ sw[s].todo = {}
  /\ \/ Answered /\ IndexAs(Reembedded(s)) /\ Go(s, "swap")
     \/ /\ \/ Refused("rebuild") /\ UNCHANGED indexed
           \/ ReplyLost("rebuild") /\ IndexAs(Reembedded(s))
        /\ Go(s, "restore")
  /\ UNCHANGED <<registryVars, serving, kept, tracked, gate, threshold,
                 trafficVars, up, active, histVars>>

PutBack(f, S) == [i \in Ids |-> IF i \in S THEN f[i] ELSE Store[i]]

RestoreNothing(s) ==
  /\ At(s, "restore")
  /\ Answered
  /\ UNCHANGED <<contentVars, unrestored>>
  /\ Go(s, "abort")
  /\ UNCHANGED <<registryVars, serving, gate, threshold, trafficVars, up,
                 active, overlapped, skipped>>

(* restore: the old entries are saved again until one fails, and the index *)
(* is rebuilt from the old vectors in any case.                            *)
Restore(s) ==
  /\ At(s, "restore")
  /\ \/ /\ Answered
        /\ KeepAs(PutBack(sw[s].listed, Held(sw[s].listed)))
        /\ IndexAs(sw[s].listed)
        /\ UNCHANGED unrestored
     \/ /\ Faulty("save")
        /\ \E S \in SUBSET Held(sw[s].listed) : KeepAs(PutBack(sw[s].listed, S))
        /\ IndexAs(sw[s].listed)
        /\ unrestored' = TRUE
     \/ /\ Refused("rebuild")
        /\ KeepAs(PutBack(sw[s].listed, Held(sw[s].listed)))
        /\ unrestored' = TRUE
        /\ UNCHANGED indexed
  /\ Go(s, "abort")
  /\ UNCHANGED <<registryVars, serving, tracked, gate, threshold, trafficVars,
                 up, active, overlapped, skipped>>

(* A cleanup flushes the candidate.  After a crash the record of a plugin  *)
(* that no longer serves may still be active, and its deactivation has for *)
(* candidate what serves already: the cleanup then empties that.           *)
CleanUp(s) == unrestored' = (unrestored \/ sw[s].target = serving[s])

(* The candidate index is rebuilt from the store and checked; a candidate  *)
(* that fails is flushed.                                                  *)
RebuildCandidate(s) ==
  /\ At(s, "migrate")
  /\ sw[s].how = "rebuild"
  /\ \/ /\ Answered
        /\ indexed' = [indexed EXCEPT ![sw[s].target] = Store]
        /\ Go(s, "swap")
        /\ UNCHANGED unrestored
     \/ /\ Faulty("rebuild")
        /\ indexed' = [indexed EXCEPT ![sw[s].target] = Nothing]
        /\ CleanUp(s)
        /\ Go(s, "abort")
  /\ UNCHANGED <<registryVars, serving, kept, tracked, gate, threshold,
                 trafficVars, up, active, overlapped, skipped>>

(* The candidate policy is told the ids of the store, oldest first.        *)
Replay(s) ==
  /\ At(s, "migrate")
  /\ sw[s].how = "replay"
  /\ \/ /\ Answered
        /\ tracked' = [tracked EXCEPT ![sw[s].target] = Held(Store)]
        /\ Go(s, "swap")
        /\ UNCHANGED unrestored
     \/ /\ Faulty("replay")
        /\ tracked' = [tracked EXCEPT ![sw[s].target] = {}]
        /\ CleanUp(s)
        /\ Go(s, "abort")
  /\ UNCHANGED <<registryVars, serving, kept, indexed, gate, threshold,
                 trafficVars, up, active, overlapped, skipped>>

(* The entries are copied into the candidate store and compared.  A copy   *)
(* that failed is not among those the cleanup deletes.                     *)
CopyEntries(s) ==
  /\ At(s, "migrate")
  /\ sw[s].how = "migrate"
  /\ \/ /\ Answered
        /\ kept' = [kept EXCEPT ![sw[s].target] = Store]
        /\ Go(s, "swap")
     \/ /\ Go(s, "abort")
        /\ \/ Refused("save") /\ UNCHANGED kept
           \/ /\ ReplyLost("save")
              /\ \E i \in Held(Store) :
                   kept' = [kept EXCEPT ![sw[s].target][i] = Store[i]]
  /\ UNCHANGED <<registryVars, serving, indexed, tracked, gate, threshold,
                 trafficVars, up, active, histVars>>

MigrateStep(s) ==
  \/ MigrateByFlush(s) \/ EmbedEntries(s) \/ SaveEntry(s) \/ RebuildIndex(s)
  \/ Restore(s) \/ RebuildCandidate(s) \/ Replay(s) \/ CopyEntries(s)

(* From here on every call goes to the new implementation.                 *)
Swap(s) ==
  /\ At(s, "swap")
  /\ Serve(s, sw[s].target)
  /\ sw' = [sw EXCEPT
       ![s].replaced = serving[s],
       ![s].pc = CASE sw[s].how = "none" -> "commit"
                   [] sw[s].how \in {"adopt", "empty"} -> "after"
                   [] OTHER -> "release"]
  /\ UNCHANGED <<registryVars, contentVars, gate, threshold, trafficVars, up,
                 active, spent, histVars>>

(* A store with contents of its own: index and policy are made to describe *)
(* them, or emptied for a store that starts empty.                         *)
Adopted(s) == IF sw[s].how = "adopt" THEN kept[sw[s].target] ELSE Nothing

After(s) ==
  /\ At(s, "after")
  /\ \/ /\ Answered
        /\ IndexAs(Adopted(s))
        /\ TrackAs(Held(Adopted(s)))
        /\ Go(s, "release")
        /\ UNCHANGED serving
     \/ /\ \/ Refused("after") /\ UNCHANGED indexed
           \/ ReplyLost("after") /\ IndexAs(Adopted(s))
        /\ Serve(s, sw[s].replaced)
        /\ Go(s, "abort")
        /\ UNCHANGED tracked
  /\ UNCHANGED <<registryVars, kept, gate, threshold, trafficVars, up, active,
                 histVars>>

ResumeKeepsGate(s) ==
  /\ threshold' = IF sw[s].how = "reembed" THEN sw[s].saved ELSE threshold
  /\ UNCHANGED gate

(* The deferred calls of execute: the threshold first, then the gate.      *)
Resume(s) ==
  /\ threshold' = IF sw[s].how = "reembed" THEN sw[s].saved ELSE threshold
  /\ gate' = NoSlot

Release(s) ==
  /\ At(s, "release")
  /\ Resume(s)
  /\ Go(s, "commit")
  /\ UNCHANGED <<registryVars, serving, contentVars, trafficVars, up, active,
                 spent, histVars>>

Abort(s) ==
  /\ At(s, "abort")
  /\ Resume(s)
  /\ Fail(s, "error")
  /\ UNCHANGED <<selection, serving, contentVars, trafficVars, up, active,
                 spent, histVars>>

-------------------------------------------------------------------------------
(* commit, and the undo of a switch that could not be recorded             *)

UndoneTo(s) == unrestored' = (unrestored \/ sw[s].how # "none")

UndoNothing(s) == Fail(s, "error") /\ UndoneTo(s) /\ UNCHANGED serving

(* Only the pointer is swapped back.                                       *)
Undo(s) == Serve(s, sw[s].replaced) /\ Fail(s, "error") /\ UndoneTo(s)

Commit(s) ==
  /\ At(s, "commit")
  /\ \/ /\ Answered
        /\ Select(s, sw[s].target)
        /\ Go(s, IF sw[s].target = NoPlugin THEN "finish" ELSE "record")
        /\ UNCHANGED <<records, serving, unrestored>>
     \/ /\ \/ Refused("setActive") /\ UNCHANGED selection
           \/ ReplyLost("setActive") /\ Select(s, sw[s].target)
        /\ Undo(s)
  /\ UNCHANGED <<contentVars, gate, threshold, trafficVars, up, active,
                 overlapped, skipped>>

(* What the record of the new implementation becomes.                      *)
ActiveRecord(s) ==
  LET changed == sw[s].wanted # NoThreshold
      forward == sw[s].mode = "activate"
  IN  [state |-> "active", active |-> TRUE,
       threshold |-> IF changed THEN sw[s].wanted ELSE sw[s].confirmed,
       previous |-> IF forward THEN sw[s].old ELSE NoPlugin,
       previousThreshold |-> IF forward /\ changed THEN sw[s].before ELSE NoThreshold]

RecordNew(s) ==
  /\ At(s, "record")
  /\ \/ /\ Answered
        /\ records' = [records EXCEPT ![sw[s].target] = ActiveRecord(s)]
        /\ Go(s, "finish")
        /\ UNCHANGED <<serving, unrestored>>
     \/ /\ Refused("recordNew")
        /\ Undo(s)
     \/ /\ ReplyLost("recordNew")
        /\ records' = [records EXCEPT
             ![sw[s].target] = ActiveRecord(s),
             ![sw[s].actor].state = StateAfter(s, "error")]
        /\ Serve(s, sw[s].replaced)
        /\ Done(s)
        /\ UndoneTo(s)
  /\ UNCHANGED <<selection, contentVars, gate, threshold, trafficVars, up,
                 active, overlapped, skipped>>

UnchangedThreshold(s) == threshold
LiveThreshold(s) == IF sw[s].wanted # NoThreshold THEN sw[s].wanted ELSE threshold

(* The old record is retired, an error of it ignored; then the manager's   *)
(* map and the threshold are set, outside the gate.                        *)
Finish(s) ==
  /\ At(s, "finish")
  /\ \/ /\ Answered
        /\ IF sw[s].old \notin {NoPlugin, sw[s].target}
             THEN Retire(sw[s].old) ELSE UNCHANGED records
     \/ /\ Refused("recordOld")
        /\ UNCHANGED records
  /\ active' = [active EXCEPT ![s] = sw[s].target]
  /\ threshold' = LiveThreshold(s)
  /\ Done(s)
  /\ UNCHANGED <<selection, serving, contentVars, gate, trafficVars, up, histVars>>

SwitchStep(s) ==
  \/ Plan(s) \/ Pause(s) \/ PauseTimesOut(s) \/ MigrateStep(s) \/ Swap(s)
  \/ After(s) \/ Release(s) \/ Abort(s) \/ Commit(s) \/ RecordNew(s) \/ Finish(s)

-------------------------------------------------------------------------------
(* Queries and jobs while the orchestrator runs                            *)

Ask(c) ==
  /\ up
  /\ Spend("query")
  /\ Embed(c)
  /\ UNCHANGED <<registryVars, up, switchVars, histVars>>

Answer(c) ==
  /\ up
  /\ Hit(c) \/ Miss(c)
  /\ UNCHANGED <<registryVars, up, switchVars, spent, histVars>>

Work(v) ==
  /\ up
  /\ ApplyJob(v)
  /\ UNCHANGED <<registryVars, up, switchVars, spent, histVars>>

-------------------------------------------------------------------------------
(* Crashes and restarts                                                    *)

(* Redis, the remote implementations and the index service live on; the    *)
(* built-in policy is memory of this process.  Of the queued jobs, those   *)
(* of the batch in hand are delivered and read by nobody again.            *)
Crash ==
  /\ up
  /\ Spend("crash")
  /\ up' = FALSE
  /\ serving' = [s \in Slots |-> NoPlugin]
  /\ active' = [s \in Slots |-> NoPlugin]
  /\ sw' = [s \in Slots |-> NoSwitch]
  /\ gate' = NoSlot
  /\ threshold' = MetricOf[NoPlugin]
  /\ tracked' = [tracked EXCEPT ![NoPlugin] = {}]
  /\ asked' = [c \in Clients |-> NoSpace]
  /\ queued' \in [Spaces -> 0 .. Limits["query"]]
  /\ \A v \in Spaces : queued'[v] <= queued[v]
  /\ UNCHANGED <<registryVars, kept, indexed, histVars>>

(* Manager.Restore, then rebuildFromStore: the recorded selection serves   *)
(* again, and index and policy learn the entries of the selected store.  A *)
(* policy that cannot be restored gives way to the built-in one.           *)
RestartWith(chosen) ==
  LET entries == kept[chosen["persistence"]]
      store == chosen["vectorStore"]
  IN  /\ ~up
      /\ up' = TRUE
      /\ selection' = chosen
      /\ serving' = chosen
      /\ active' = chosen
      /\ threshold' = IF store # NoPlugin /\ records[store].threshold # NoThreshold
                        THEN records[store].threshold ELSE MetricOf[NoPlugin]
      /\ indexed' = [indexed EXCEPT ![store] = entries]
      /\ tracked' = [tracked EXCEPT ![chosen["policy"]] = @ \cup Held(entries)]
      /\ UNCHANGED <<kept, gate, trafficVars, sw, histVars>>

Restart ==
  \/ Answered /\ RestartWith(selection) /\ UNCHANGED records
  \/ /\ selection["policy"] # NoPlugin
     /\ Refused("restorePolicy")
     /\ RestartWith([selection EXCEPT !["policy"] = NoPlugin])
     /\ records' = [records EXCEPT ![selection["policy"]].active = FALSE,
                                   ![selection["policy"]].state = "failed"]

-------------------------------------------------------------------------------
Init ==
  /\ RegistryInit
  /\ CacheInit
  /\ up = TRUE
  /\ active = [s \in Slots |-> NoPlugin]
  /\ sw = [s \in Slots |-> NoSwitch]
  /\ spent = [e \in Events |-> 0]
  /\ overlapped = FALSE
  /\ skipped = FALSE
  /\ unrestored = FALSE

(* The worker waits for a job.                                             *)
Poll ==
  /\ up
  /\ \A v \in Spaces : queued[v] = 0
  /\ UNCHANGED vars

Next ==
  \/ \E p \in Plugins : Activate(p) \/ Deactivate(p) \/ Rollback(p)
  \/ \E s \in Slots : SwitchStep(s)
  \/ \E c \in Clients : Ask(c) \/ Answer(c)
  \/ \E v \in Spaces : Work(v)
  \/ Poll
  \/ Crash
  \/ Restart

(* The goroutine of a switch runs on, so does the worker, and the process  *)
(* is restarted (restart: unless-stopped).                                 *)
Fairness ==
  /\ \A s \in Slots : WF_vars(SwitchStep(s))
  /\ \A v \in Spaces : WF_vars(Work(v))
  /\ WF_vars(Restart)

Spec == Init /\ [][Next]_vars
FairSpec == Spec /\ Fairness

-------------------------------------------------------------------------------
(* Properties                                                              *)

(* When no switch of a slot is under way, what serves the slot is what the *)
(* manager believes active and what the registry would restore: memory and *)
(* registry never disagree (activate.go:251), whichever call up to a       *)
(* refused SetActive failed on the way, and after any restart.             *)
ServedIsRecorded ==
  \A s \in Slots :
    up /\ Idle(s) => serving[s] = active[s] /\ serving[s] = selection[s]

(* Unless the process crashed between two registry writes, the plugin that *)
(* serves an idle slot is the one whose record says so, which is what lets *)
(* the administrator deactivate it or roll it back, and no other, as long  *)
(* as no update of a record fails.                                         *)
ServedIsFlagged ==
  spent["crash"] = 0 =>
    \A p \in Plugins :
      Idle(SlotOf[p]) => (serving[SlotOf[p]] = p <=> records[p].active)

(* Memory and registry agree, in every state of a switch that failed or    *)
(* succeeded.                                                              *)
MemoryMatchesRegistry == TypeOK /\ ServedIsRecorded /\ ServedIsFlagged

(* While nobody holds the write gate, every entry of the store in use can  *)
(* be found in the index in use with the vector the store has for it, and  *)
(* the policy in use can evict it: a failed switch leaves the previous     *)
(* implementation untouched (types.go:8).                                  *)
EntriesReachable ==
  up /\ gate = NoSlot =>
    \A i \in Held(Store) : Index[i] = Store[i] /\ i \in Tracked

(* The same of every switch, complete or failed, but for those whose undo  *)
(* swaps back a pointer and no contents, or whose cleanup empties what     *)
(* serves.                                                                 *)
StoredIsServable == ~unrestored => EntriesReachable

(* A re-embedding that reaches the swap has left no vector of the old      *)
(* space, in the store or in the index; one that fails has left the store  *)
(* as it found it.  Excepted are a failure to put the vectors back and the *)
(* undo of another switch, which takes no gate and may change the store    *)
(* under the re-embedding.                                                 *)
ReembedAllOrNothing ==
  LET e == sw["embedder"]
  IN  e.how = "reembed" /\ ~unrestored =>
        /\ e.pc = "swap" =>
             \A i \in Ids : {Store[i], Index[i]} \subseteq {NoSpace, SpaceOf[e.target]}
        /\ e.pc = "abort" => Store = e.listed

(* The threshold of the index in use: "a wrong threshold gives wrong hits  *)
(* or none" (PLUGIN_OPERATIONS.md:117).  A deactivation restores the       *)
(* threshold of the plugin before, although its target is the built-in     *)
(* index: then this fails.                                                 *)
ThresholdRestored ==
  up /\ Idle("vectorStore") /\ gate = NoSlot /\ ~overlapped /\ spent["crash"] = 0 =>
    threshold = MetricOf[serving["vectorStore"]]

(* The live threshold fits the metric of the index in use, unless two      *)
(* switches overlapped, a crash came before the confirmation was stored or *)
(* a plugin that followed another was deactivated rather than rolled back. *)
ThresholdFitsMetric == ~skipped => ThresholdRestored

(* While a re-embedding holds the gate, every query is answered as a miss  *)
(* (PLUGIN_OPERATIONS.md:115): a query ends as a hit by leaving no job.    *)
Converting == sw["embedder"].how = "reembed" /\ gate = "embedder"
HitStep ==
  /\ up' = up
  /\ queued' = queued
  /\ \E c \in Clients : asked[c] # NoSpace /\ asked'[c] = NoSpace
MissesWhileReembedding == [][Converting /\ ~overlapped => ~HitStep]_vars

(* Every vector of the index in use was computed by the model of the       *)
(* embedder in use, once nothing is switching.                             *)
SpacesAgree ==
  up /\ (\A s \in Slots : Idle(s)) =>
    \A i \in Held(Index) \cap Held(Store) : Index[i] = SpaceOf[serving["embedder"]]

(* A switch comes to an end, and with it the request that waits for it.    *)
SwitchesEnd == \A s \in Slots : ~Idle(s) ~> Idle(s)

(* No switch blocks the worker for ever: queued jobs are applied.          *)
JobsApplied == \A v \in Spaces : queued[v] > 0 ~> queued[v] = 0

(* Switch and worker never wait for each other.                            *)
NothingWaitsForEver == SwitchesEnd /\ JobsApplied

(* The slots whose new implementation serves but is not recorded yet.      *)
OnTrial == {s \in Slots : sw[s].pc \in {"after", "release", "commit"}}

Over ==
  INSTANCE Switchover
    WITH Choices <- [s \in Slots |-> ImplsOf(s)], Builtin <- NoPlugin,
         Light <- {"embedder"}, Spare <- {"policy"}, Kinds <- Spaces,
         running <- up, serves <- serving, chosen <- selection,
         trying <- OnTrial, paused <- gate, waiting <- queued

(* A switch implements the replacement on trial that Switchover promises:  *)
(* whatever it does besides, its pointers, the registry, the write gate    *)
(* and the waiting jobs change only as if each of its decisions were one   *)
(* step, so "a failed verification, migration or activation leaves it      *)
(* untouched" (types.go:8), several switches and crashes included.         *)
ImplementsSwitchover == Over!OverSpec
===============================================================================
