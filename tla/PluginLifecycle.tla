--------------------------- MODULE PluginLifecycle ----------------------------
(***************************************************************************)
(* The life of installed plugins under the plugin manager                  *)
(* (internal/plugins/manager): the pipeline that verifies one in the       *)
(* background, the requests of administrators, which read the record they  *)
(* are about before they lock its slot (or lock nothing, to delete), the   *)
(* timers that stop the instances of replaced plugins, and restarts of     *)
(* the process.  What a switch does to the cache is SlotSwitch; here it is *)
(* one step that succeeds or fails.                                        *)
(***************************************************************************)
EXTENDS PluginRecords

CONSTANTS
  Admins,        \* requests of the management API under way at once
  NoCaller,      \* a slot nobody has locked
  StateBearing,  \* slots that a restart must restore
  Faults,        \* pairs <<call, outcome>> a remote call may end with
  Limits         \* how often each unbounded event happens in a behaviour

(* Preparing an image, starting an instance, the contract suite, a health  *)
(* probe, the plan and migration of a switch, SetActive, and restoring a   *)
(* plugin at startup.                                                      *)
Calls ==
  {"prepare", "start", "contract", "health", "migrate", "setActive", "restore"}
Outcomes == {"refused", "replyLost"}
Events == {"install", "request", "timer", "fault", "crash"}

(* The goroutine of a pipeline activates its plugin itself, if asked to.   *)
Callers == Admins \cup Plugins

ASSUME LifecycleAssumption ==
  /\ NoCaller \notin Callers
  /\ Admins \cap Plugins = {}
  /\ StateBearing \subseteq Slots
  /\ Faults \subseteq Calls \X Outcomes
  /\ Limits \in [Events -> Nat]

VARIABLES
  up,         \* the manager runs
  pipe,       \* the pipeline of each plugin
  call,       \* what each caller is doing
  lock,       \* who has locked each slot
  active,     \* the manager's own map from slots to active ids
  serving,    \* the implementation behind the pointer of each slot
  armed,      \* plugins with a timer to stop their instance
  stopping,   \* plugins whose timer has fired and found them not active
  instances,  \* plugins whose container runs
  spent,      \* how often each event of Limits has happened
  tested,     \* plugins whose contract suite has passed (history)
  raced,      \* a plugin in use was being deleted (history)
  torn,       \* a crash fell between the writes of one commit (history)
  stale,      \* a request locked a slot with an outdated record (history)
  late        \* an instance was stopped while it was chosen (history)

memoryVars == <<pipe, call, lock, active, serving, armed, stopping>>
vars == <<registryVars, up, memoryVars, instances, spent, tested, raced, torn, stale, late>>

-------------------------------------------------------------------------------
NoPipe == [pc |-> "none", auto |-> FALSE]
NoCall ==
  [pc |-> "idle", mode |-> "none", actor |-> NoPlugin, was |-> "none",
   target |-> NoPlugin, old |-> NoPlugin, replaced |-> NoPlugin]

Pipe ==
  [pc : {"none", "validate", "prepare", "start", "contract", "health", "stop",
         "fail", "activate"}, auto : BOOLEAN]

Call ==
  [pc : {"idle", "lock", "prepare", "migrate", "swap", "commit", "record",
         "retire", "list", "stop", "erase"},
   mode : {"none", "activate", "deactivate", "rollback", "delete"},
   actor : Impls, was : States \cup {"none"}, target : Impls, old : Impls,
   replaced : Impls]

(* The type invariant.                                                     *)
TypeOK ==
  /\ RegistryTypeOK
  /\ up \in BOOLEAN
  /\ pipe \in [Plugins -> Pipe]
  /\ call \in [Callers -> Call]
  /\ lock \in [Slots -> Callers \cup {NoCaller}]
  /\ active \in [Slots -> Impls]
  /\ serving \in [Slots -> Impls]
  /\ armed \subseteq Plugins
  /\ stopping \subseteq Plugins
  /\ instances \subseteq Plugins
  /\ spent \in [Events -> Nat]
  /\ tested \subseteq Plugins
  /\ raced \in BOOLEAN
  /\ torn \in BOOLEAN
  /\ stale \in BOOLEAN
  /\ late \in BOOLEAN

Spend(e) ==
  /\ spent[e] < Limits[e]
  /\ spent' = [spent EXCEPT ![e] = @ + 1]

Answered == UNCHANGED spent
Refused(c) == <<c, "refused">> \in Faults /\ Spend("fault")
ReplyLost(c) == <<c, "replyLost">> \in Faults /\ Spend("fault")

Hosted(p) == p = NoPlugin \/ ModeOf[p] = "endpoint"

(* ensureInstance: the controller starts or re-uses the container of p.    *)
WithInstance(p) == IF Hosted(p) THEN instances ELSE instances \cup {p}

InstanceAssumed(p) == Answered /\ UNCHANGED instances

(* Start answered, or failed before or after the container came up.        *)
EnsureInstance(p) == Answered /\ instances' = WithInstance(p)
StartFails(p) ==
  /\ ~Hosted(p)
  /\ \/ Refused("start") /\ UNCHANGED instances
     \/ ReplyLost("start") /\ instances' = WithInstance(p)

-------------------------------------------------------------------------------
(* Installing: a record in state draft and a pipeline in the background    *)

At(p, pc) == up /\ pipe[p].pc = pc

Install(p) ==
  /\ up
  /\ Spend("install")
  /\ Create(p)
  /\ \E auto \in BOOLEAN : pipe' = [pipe EXCEPT ![p] = [pc |-> "validate", auto |-> auto]]
  /\ UNCHANGED <<selection, up, call, lock, active, serving, armed, stopping,
                 instances, tested, torn, stale, late>>

(* A new version of q is a record of its own, of the same type.            *)
Upgrade(q, p) == Exists(q) /\ SlotOf[q] = SlotOf[p] /\ Install(p)

(* The stage of a pipeline ends by moving the record along path and going  *)
(* to pc, or with the pipeline when the record is gone.                    *)
Proceed(p, path, pc) ==
  IF CanWalk(p, path)
    THEN records' = Walked(p, path) /\ pipe' = [pipe EXCEPT ![p].pc = pc]
    ELSE UNCHANGED records /\ pipe' = [pipe EXCEPT ![p] = NoPipe]

StageUnchanged ==
  UNCHANGED <<selection, up, call, lock, active, serving, armed, stopping, torn, stale,
            late>>

Failing(p) == UNCHANGED records /\ pipe' = [pipe EXCEPT ![p].pc = "stop"]

Validate(p) ==
  /\ At(p, "validate")
  /\ Answered
  /\ CASE ModeOf[p] = "endpoint"   -> Proceed(p, <<"validating", "testing">>, "contract")
       [] ModeOf[p] = "image"      -> Proceed(p, <<"validating", "scanning">>, "prepare")
       [] ModeOf[p] = "repository" -> Proceed(p, <<"validating", "building">>, "prepare")
  /\ UNCHANGED <<instances, tested>>
  /\ StageUnchanged

(* The controller built, scanned and pinned the image.                     *)
Prepare(p) ==
  /\ At(p, "prepare")
  /\ \/ Answered /\ Proceed(p, <<"scanning", "starting">>, "start")
     \/ Refused("prepare") /\ Failing(p)
  /\ UNCHANGED <<instances, tested>>
  /\ StageUnchanged

Start(p) ==
  /\ At(p, "start")
  /\ \/ EnsureInstance(p) /\ Proceed(p, <<"testing">>, "contract")
     \/ StartFails(p) /\ Failing(p)
  /\ UNCHANGED tested
  /\ StageUnchanged

(* The suite runs against the instance, which is started again if needed;  *)
(* its outcome is written before the record moves on.                      *)
RunContract(p) ==
  /\ At(p, "contract")
  /\ instances' = WithInstance(p)
  /\ \/ /\ Answered
        /\ tested' = tested \cup {p}
        /\ IF CanWalk(p, <<"checking">>)
             THEN /\ records' = [records EXCEPT ![p].state = "checking", ![p].passed = TRUE]
                  /\ pipe' = [pipe EXCEPT ![p].pc = "health"]
             ELSE UNCHANGED records /\ pipe' = [pipe EXCEPT ![p] = NoPipe]
     \/ Refused("contract") /\ Failing(p) /\ UNCHANGED tested
  /\ StageUnchanged

CheckHealth(p) ==
  /\ At(p, "health")
  /\ \/ /\ EnsureInstance(p)
        /\ Proceed(p, <<"verified">>, IF pipe[p].auto THEN "activate" ELSE "none")
     \/ StartFails(p) /\ Failing(p)
     \/ /\ Refused("health")
        /\ instances' = WithInstance(p)
        /\ Failing(p)
  /\ UNCHANGED tested
  /\ StageUnchanged

(* fail: the candidate is stopped ...                                      *)
StopCandidate(p) ==
  /\ At(p, "stop")
  /\ instances' = IF Exists(p) THEN instances \ {p} ELSE instances
  /\ pipe' = [pipe EXCEPT ![p].pc = "fail"]
  /\ UNCHANGED <<records, spent, tested>>
  /\ StageUnchanged

(* ... and then the record says so, whatever state it was in.              *)
Fail(p) ==
  /\ At(p, "fail")
  /\ records' = Marked(p, "failed")
  /\ pipe' = [pipe EXCEPT ![p] = NoPipe]
  /\ UNCHANGED <<instances, spent, tested>>
  /\ StageUnchanged

PipelineStep(p) ==
  \/ Validate(p) \/ Prepare(p) \/ Start(p) \/ RunContract(p) \/ CheckHealth(p)
  \/ StopCandidate(p) \/ Fail(p)

-------------------------------------------------------------------------------
(* Requests: what they read before they lock anything                      *)

Idle(c) == call[c].pc = "idle"
In(c, pc) == up /\ call[c].pc = pc
Goto(c, pc) == call' = [call EXCEPT ![c].pc = pc]
Return(c) == call' = [call EXCEPT ![c] = NoCall]
SlotIn(c) == SlotOf[call[c].actor]

Read(c, mode, pc, p, target) ==
  /\ up
  /\ Idle(c)
  /\ Exists(p)
  /\ call' = [call EXCEPT ![c] =
       [NoCall EXCEPT !.pc = pc, !.mode = mode, !.actor = p,
                      !.was = records[p].state, !.target = target]]
  /\ UNCHANGED <<registryVars, up, lock, active, serving, armed, stopping,
                 instances, tested, torn, stale, late>>

AnyFinished(p) == records[p].state \in {"verified", "inactive", "rolled_back", "failed"}

Activatable(p) ==
  \/ records[p].state \in {"verified", "inactive", "rolled_back"}
  \/ records[p].state = "failed" /\ records[p].passed

ReadActivate(c, p) == Activatable(p) /\ Read(c, "activate", "lock", p, p)

Activate(c, p) == Spend("request") /\ ReadActivate(c, p) /\ UNCHANGED pipe

(* The automatic activation at the end of a pipeline.                      *)
AutoActivate(p) ==
  /\ At(p, "activate")
  /\ pipe' = [pipe EXCEPT ![p] = NoPipe]
  /\ Answered
  /\ \/ ReadActivate(p, p)
     \/ /\ ~(Exists(p) /\ Activatable(p))
        /\ UNCHANGED <<registryVars, up, call, lock, active, serving, armed,
                       stopping, instances, tested, torn, stale, late>>

Deactivate(c, p) ==
  /\ Spend("request")
  /\ records[p].active
  /\ Read(c, "deactivate", "lock", p, NoPlugin)
  /\ UNCHANGED pipe

Rollback(c, p) ==
  /\ Spend("request")
  /\ records[p].active
  /\ Read(c, "rollback", "lock", p, records[p].previous)
  /\ UNCHANGED pipe

Delete(c, p) ==
  /\ Spend("request")
  /\ ~records[p].active
  /\ records[p].state \notin InProgress
  /\ Read(c, "delete", "list", p, NoPlugin)
  /\ UNCHANGED pipe

-------------------------------------------------------------------------------
(* The switch of a slot                                                    *)

CallUnchanged == UNCHANGED <<up, pipe, stopping, tested, torn>>
SwitchUnchanged == CallUnchanged /\ UNCHANGED stale

(* failed() of switchSlot, and the return that unlocks the slot.           *)
StateKept(c, cause) ==
  IF call[c].mode = "rollback" THEN records[call[c].actor].state ELSE "failed"

StateAfter(c, cause) ==
  CASE cause = "requirement" -> call[c].was
    [] cause # "requirement" /\ call[c].mode = "rollback" -> "active"
    [] OTHER -> "failed"

GiveUp(c, cause) ==
  /\ records' = Marked(call[c].actor, StateAfter(c, cause))
  /\ Return(c)
  /\ lock' = [lock EXCEPT ![SlotIn(c)] = NoCaller]

(* What may be refused once the slot is locked.                            *)
Locking(c) ==
  LET a == call[c].actor
      first == IF call[c].mode = "rollback" THEN "rolling_back" ELSE "checking"
  IN  CASE call[c].mode = "activate" -> active[SlotOf[a]] # a /\ CanWalk(a, <<first>>)
        [] call[c].mode = "rollback" ->
             /\ call[c].target = NoPlugin \/ Exists(call[c].target)
             /\ CanWalk(a, <<first>>)
        [] call[c].mode = "deactivate" -> TRUE

FirstState(c) ==
  CASE call[c].mode = "activate" -> Walked(call[c].actor, <<"checking">>)
    [] call[c].mode = "rollback" -> Walked(call[c].actor, <<"rolling_back">>)
    [] call[c].mode = "deactivate" -> records

Lock(c) ==
  /\ In(c, "lock")
  /\ IF lock[SlotIn(c)] = NoCaller /\ Locking(c)
       THEN /\ records' = FirstState(c)
            /\ call' = [call EXCEPT ![c].pc = "prepare", ![c].old = active[SlotIn(c)]]
            /\ lock' = [lock EXCEPT ![SlotIn(c)] = c]
            /\ stale' = (stale \/ records[call[c].actor].state # call[c].was)
       ELSE Return(c) /\ UNCHANGED <<records, lock, stale>>
  /\ UNCHANGED <<selection, active, serving, armed, instances, spent, late>>
  /\ CallUnchanged

(* The adapter of the target is built, its instance started and probed,    *)
(* and the switch planned: it may lack a confirmation.                     *)
PrepareTarget(c) ==
  /\ In(c, "prepare")
  /\ \/ /\ EnsureInstance(call[c].target)
        /\ \/ Goto(c, "migrate") /\ UNCHANGED <<records, lock>>
           \/ GiveUp(c, "requirement")
     \/ StartFails(call[c].target) /\ GiveUp(c, "error")
     \/ /\ call[c].target # NoPlugin
        /\ Refused("health")
        /\ instances' = WithInstance(call[c].target)
        /\ GiveUp(c, "error")
  /\ UNCHANGED <<selection, active, serving, armed, late>>
  /\ SwitchUnchanged

(* The state is set before the cache is migrated; an activation that       *)
(* cannot set it gives up.                                                 *)
Migrate(c) ==
  /\ In(c, "migrate")
  /\ Answered
  /\ \/ /\ call[c].mode = "activate" => CanWalk(call[c].actor, <<"migrating">>)
        /\ records' = Tried(call[c].actor, "migrating")
        /\ Goto(c, "swap")
        /\ UNCHANGED lock
     \/ /\ call[c].mode = "activate" /\ ~CanWalk(call[c].actor, <<"migrating">>)
        /\ GiveUp(c, "error")
     \/ Goto(c, "swap") /\ UNCHANGED <<records, lock>>  \* nothing to migrate
  /\ UNCHANGED <<selection, active, serving, armed, instances, late>>
  /\ SwitchUnchanged

Swap(c) ==
  /\ In(c, "swap")
  /\ \/ /\ Answered
        /\ serving' = [serving EXCEPT ![SlotIn(c)] = call[c].target]
        /\ records' = IF call[c].mode = "deactivate" THEN records
                                                     ELSE Tried(call[c].actor, "activating")
        /\ call' = [call EXCEPT ![c].pc = "commit", ![c].replaced = serving[SlotIn(c)]]
        /\ UNCHANGED lock
     \/ Refused("migrate") /\ GiveUp(c, "error") /\ UNCHANGED serving
  /\ UNCHANGED <<selection, active, armed, instances, late>>
  /\ SwitchUnchanged

Undo(c) ==
  /\ serving' = [serving EXCEPT ![SlotIn(c)] = call[c].replaced]
  /\ GiveUp(c, "error")

Commit(c) ==
  /\ In(c, "commit")
  /\ \/ /\ Answered
        /\ Select(SlotIn(c), call[c].target)
        /\ Goto(c, IF call[c].target = NoPlugin THEN "retire" ELSE "record")
        /\ UNCHANGED <<records, serving, lock>>
     \/ Refused("setActive") /\ Undo(c) /\ UNCHANGED selection
  /\ UNCHANGED <<active, armed, instances, late>>
  /\ SwitchUnchanged

(* The record of the target becomes the active one, if it still exists.    *)
RecordNew(c) ==
  LET t == call[c].target
      r == [records[t] EXCEPT
              !.state = "active", !.active = TRUE,
              !.previous = IF call[c].mode = "activate" THEN call[c].old ELSE NoPlugin]
  IN  /\ In(c, "record")
      /\ IF Exists(t)
           THEN records' = Updated(t, r) /\ Goto(c, "retire") /\ UNCHANGED <<serving, lock>>
           ELSE Undo(c)
      /\ UNCHANGED <<selection, active, armed, instances, spent, late>>
      /\ SwitchUnchanged

RetiredStaysActive(c) ==
  IF call[c].old \in {NoPlugin, call[c].target} THEN records
  ELSE Updated(call[c].old, [records[call[c].old] EXCEPT !.state = "inactive"])

Retired(c) ==
  IF call[c].old \in {NoPlugin, call[c].target} THEN records
  ELSE Updated(call[c].old,
         [records[call[c].old] EXCEPT
            !.active = FALSE,
            !.state = IF call[c].mode = "rollback" THEN "rolled_back" ELSE "inactive"])

(* afterSwitch: the timer of what serves now is stopped, and one is set    *)
(* for the instance of what served before.                                 *)
Timers(c) ==
  LET kept == armed \ {call[c].target}
      old == call[c].old
  IN  IF Exists(old) /\ ~Hosted(old) THEN kept \cup {old} ELSE kept

Retire(c) ==
  /\ In(c, "retire")
  /\ records' = Retired(c)
  /\ active' = [active EXCEPT ![SlotIn(c)] = call[c].target]
  /\ armed' = Timers(c)
  /\ Return(c)
  /\ lock' = [lock EXCEPT ![SlotIn(c)] = NoCaller]
  /\ UNCHANGED <<selection, serving, instances, spent, late>>
  /\ SwitchUnchanged

-------------------------------------------------------------------------------
(* The rest of a deletion                                                  *)

DeleteUnchanged == UNCHANGED <<selection, lock, active, serving, spent, late>>

NotATarget(p) == FALSE

(* An active plugin would roll back to p.                                  *)
RollbackTarget(p) == \E o \in Listed : records[o].active /\ records[o].previous = p

CheckTargets(c) ==
  /\ In(c, "list")
  /\ IF RollbackTarget(call[c].actor) THEN Return(c) ELSE Goto(c, "stop")
  /\ UNCHANGED <<records, armed, instances>>
  /\ DeleteUnchanged
  /\ SwitchUnchanged

StopDeleted(c) ==
  /\ In(c, "stop")
  /\ armed' = armed \ {call[c].actor}
  /\ instances' = instances \ {call[c].actor}
  /\ Goto(c, "erase")
  /\ UNCHANGED records
  /\ DeleteUnchanged
  /\ SwitchUnchanged

EraseRecord(c) ==
  /\ In(c, "erase")
  /\ Erase(call[c].actor)
  /\ Return(c)
  /\ UNCHANGED <<armed, instances>>
  /\ DeleteUnchanged
  /\ SwitchUnchanged

CallStep(c) ==
  \/ Lock(c) \/ PrepareTarget(c) \/ Migrate(c) \/ Swap(c) \/ Commit(c)
  \/ RecordNew(c) \/ Retire(c) \/ CheckTargets(c) \/ StopDeleted(c) \/ EraseRecord(c)

-------------------------------------------------------------------------------
(* Timers and restarts                                                     *)

(* p serves its slot, or a switch to or from it is under way.              *)
Chosen(p) ==
  \/ serving[SlotOf[p]] = p
  \/ \E c \in Callers :
       /\ call[c].pc \notin {"idle", "lock"}
       /\ call[c].mode # "delete"
       /\ p \in {call[c].target, call[c].old}

(* The rollback window is over.  A timer that has fired cannot be stopped. *)
TimerFires(p) ==
  /\ up
  /\ p \in armed
  /\ Spend("timer")
  /\ armed' = armed \ {p}
  /\ stopping' = IF Exists(p) /\ ~records[p].active THEN stopping \cup {p} ELSE stopping
  /\ UNCHANGED <<registryVars, up, pipe, call, lock, active, serving, instances,
                 tested, torn, stale, late>>

StopReplaced(p) ==
  /\ up
  /\ p \in stopping
  /\ stopping' = stopping \ {p}
  /\ instances' = instances \ {p}
  /\ late' = (late \/ Chosen(p))
  /\ UNCHANGED <<registryVars, up, pipe, call, lock, active, serving, armed,
                 spent, tested, torn, stale>>

(* Containers, and Redis, live on.                                         *)
Crash ==
  /\ up
  /\ Spend("crash")
  /\ up' = FALSE
  /\ pipe' = [p \in Plugins |-> NoPipe]
  /\ call' = [c \in Callers |-> NoCall]
  /\ lock' = [s \in Slots |-> NoCaller]
  /\ active' = [s \in Slots |-> NoPlugin]
  /\ serving' = [s \in Slots |-> NoPlugin]
  /\ armed' = {}
  /\ stopping' = {}
  /\ torn' = (torn \/ \E c \in Callers : call[c].pc \in {"record", "retire"})
  /\ UNCHANGED <<registryVars, instances, tested, stale, late>>

(* Restore: what was selected serves again; a selected record that is gone *)
(* leaves its slot to the built-in implementation.                         *)
RestoreAs(chosen) ==
  /\ ~up
  /\ up' = TRUE
  /\ selection' = chosen
  /\ active' = chosen
  /\ serving' = chosen
  /\ instances' = instances \cup {p \in Plugins : ~Hosted(p) /\ \E s \in Slots : chosen[s] = p}
  /\ UNCHANGED <<pipe, call, lock, armed, stopping, tested, torn, stale, late>>

Found == [s \in Slots |-> IF Exists(selection[s]) THEN selection[s] ELSE NoPlugin]

Restore ==
  \/ Answered /\ RestoreAs(Found) /\ UNCHANGED records
  \/ \E s \in Slots \ StateBearing :
       /\ Found[s] # NoPlugin
       /\ Refused("restore")
       /\ RestoreAs([Found EXCEPT ![s] = NoPlugin])
       /\ records' = Updated(Found[s], [records[Found[s]] EXCEPT !.active = FALSE,
                                                                 !.state = "failed"])

(* The monitor only writes the health of the active plugins.               *)
CheckActiveHealth == up /\ UNCHANGED vars

-------------------------------------------------------------------------------
Init ==
  /\ RegistryInit
  /\ up = TRUE
  /\ pipe = [p \in Plugins |-> NoPipe]
  /\ call = [c \in Callers |-> NoCall]
  /\ lock = [s \in Slots |-> NoCaller]
  /\ active = [s \in Slots |-> NoPlugin]
  /\ serving = [s \in Slots |-> NoPlugin]
  /\ armed = {}
  /\ stopping = {}
  /\ instances = {}
  /\ spent = [e \in Events |-> 0]
  /\ tested = {}
  /\ raced = FALSE
  /\ torn = FALSE
  /\ stale = FALSE
  /\ late = FALSE

Requests(c, p) == Activate(c, p) \/ Deactivate(c, p) \/ Rollback(c, p) \/ Delete(c, p)

Steps ==
  \/ \E p \in Plugins : Install(p) \/ PipelineStep(p) \/ AutoActivate(p)
  \/ \E p, q \in Plugins : Upgrade(q, p)
  \/ \E c \in Admins, p \in Plugins : Requests(c, p)
  \/ \E c \in Callers : CallStep(c)
  \/ \E p \in Plugins : TimerFires(p) \/ StopReplaced(p)
  \/ Crash
  \/ Restore

(* A plugin in use: its pipeline runs, or a switch from or to it.          *)
InUse(p) ==
  \/ pipe[p].pc # "none"
  \/ \E c \in Callers :
       call[c].mode # "delete" /\ p \in {call[c].actor, call[c].target, call[c].old}

Races == \E c \in Callers : call[c].mode = "delete" /\ InUse(call[c].actor)

Next == (Steps /\ raced' = (raced \/ Races')) \/ CheckActiveHealth

(* Every call of a pipeline, a switch or a deletion has a deadline, and    *)
(* the process is restarted (restart: unless-stopped).                     *)
Fairness ==
  /\ \A p \in Plugins :
       WF_vars((PipelineStep(p) \/ AutoActivate(p)) /\ raced' = (raced \/ Races'))
  /\ \A c \in Callers : WF_vars(CallStep(c) /\ raced' = (raced \/ Races'))
  /\ WF_vars(Restore /\ raced' = (raced \/ Races'))

Spec == Init /\ [][Next]_vars
FairSpec == Spec /\ Fairness

-------------------------------------------------------------------------------
(* Properties                                                              *)

(* A plugin serves a slot only after its contract suite has passed         *)
(* (types.go:6), whatever was restarted, deleted or failed in between.     *)
ServedIsTested ==
  \A s \in Slots : serving[s] # NoPlugin => serving[s] \in tested

(* Memory and registry never disagree about which plugin is active         *)
(* (activate.go:251): what an unlocked slot selects is what serves it, its *)
(* record exists, and it alone is flagged active.                          *)
SelectedIsActive ==
  up => \A s \in Slots : lock[s] = NoCaller =>
          /\ selection[s] = serving[s]
          /\ selection[s] = active[s]
          /\ \A p \in Plugins :
               SlotOf[p] = s => (records[p].active <=> selection[s] = p)

(* The same, unless a crash fell between the writes of one commit or a     *)
(* deletion between the reading and the locking of a request.              *)
SelectionKept == ~torn /\ ~raced => SelectedIsActive

(* The plugin an active one would roll back to cannot be deleted           *)
(* (lifecycle.go:90), unless a switch to or from it overtakes the check or *)
(* a crash fell between the writes of one commit.                          *)
RollbackTargetKept ==
  ~raced /\ ~torn => \A p \in Plugins :
    records[p].active /\ records[p].previous # NoPlugin => Exists(records[p].previous)

(* The instance of the plugin that serves a slot runs: a timer set when it *)
(* was replaced does not stop it after it came back (activate.go:398), and *)
(* neither does a deletion unless it is raced or the records are torn.     *)
ServedRuns ==
  up /\ ~raced /\ ~torn => \A s \in Slots : Hosted(serving[s]) \/ serving[s] \in instances

(* The same, unless the timer had fired, or fired, during the switch to it.*)
ServedRunsUnlessLate == ~late => ServedRuns

(* Whatever fails while a plugin is verified, switched or deleted, no      *)
(* container outlives the record of its plugin.                            *)
InstancesHaveRecords == ~raced => \A p \in instances : Exists(p)

(* What selects, serves and runs a plugin agrees with its record.          *)
RecordsAgree == TypeOK /\ SelectionKept /\ InstancesHaveRecords

(* A deactivation or a rollback leaves the plugin it was asked to leave,   *)
(* which is the active one of the slot (activate.go:113).                  *)
LeavesTheActive ==
  \A c \in Callers :
    call[c].mode \in {"deactivate", "rollback"} /\ call[c].pc \notin {"idle", "lock"} =>
      call[c].old = call[c].actor

(* A working state is transient (types.go:94): it ends, and the plugin can *)
(* be activated or deleted.                                                *)
WorkEnds ==
  \A p \in Plugins : records[p].state \in InProgress ~> records[p].state \notin InProgress

(* The same, as long as the process does not crash and no request locked   *)
(* a slot with a record that had changed since it was read.                *)
WorkEndsUnlessCut ==
  \A p \in Plugins :
    records[p].state \in InProgress ~>
      records[p].state \notin InProgress \/ spent["crash"] > 0 \/ stale
===============================================================================
