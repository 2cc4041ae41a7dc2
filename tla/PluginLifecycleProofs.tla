------------------------- MODULE PluginLifecycleProofs -------------------------
(***************************************************************************)
(* Whatever is installed, switched, rolled back, deleted, stopped by a     *)
(* timer, refused or cut by crashes, in whatever order: only a plugin that *)
(* passed its contract suite serves a slot, and memory, registry and       *)
(* instances agree unless a deletion races a switch or a crash tears a     *)
(* commit.                                                                 *)
(***************************************************************************)
EXTENDS PluginLifecycle, TLAPS

Holding(c) ==
  call[c].pc \in {"prepare", "migrate", "swap", "commit", "record", "retire"}

(* A call is about one installed plugin, and knows what it may switch to.  *)
CallShape(c) ==
  /\ call[c].pc = "idle" => call[c] = NoCall
  /\ call[c].pc # "idle" => call[c].actor \in Plugins /\ call[c].was \in States
  /\ call[c].pc \in {"list", "stop", "erase"} => call[c].mode = "delete"
  /\ call[c].pc = "lock" \/ Holding(c) =>
       call[c].mode \in {"activate", "deactivate", "rollback"}
  /\ call[c].mode = "activate" => call[c].target = call[c].actor
  /\ call[c].mode = "deactivate" => call[c].target = NoPlugin
  /\ call[c].pc = "record" => call[c].target # NoPlugin

(* A slot is locked by the one call that switches it; nothing is under way *)
(* while the manager is down.                                              *)
LocksInv ==
  /\ \A c \in Callers : CallShape(c)
  /\ \A c \in Callers : Holding(c) => lock[SlotIn(c)] = c
  /\ \A s \in Slots : lock[s] # NoCaller => Holding(lock[s]) /\ SlotIn(lock[s]) = s
  /\ ~up => (\A p \in Plugins : pipe[p] = NoPipe) /\ (\A c \in Callers : call[c] = NoCall)
  /\ \A p \in Plugins : records[p].active => Exists(p)

(* Every plugin that a slot, a record or a switch could turn to has passed *)
(* its contract suite and is made for that slot.                           *)
Proven == States \ {"draft", "validating", "building", "scanning", "starting", "testing", "failed"}

Vetted(p, s) == p = NoPlugin \/ (p \in tested /\ SlotOf[p] = s)

VettedInv ==
  /\ \A s \in Slots : Vetted(selection[s], s) /\ Vetted(active[s], s) /\ Vetted(serving[s], s)
  /\ \A p \in Plugins :
       /\ records[p].state \in Proven \/ records[p].passed \/ records[p].active => p \in tested
       /\ Vetted(records[p].previous, SlotOf[p])
       /\ pipe[p].pc = "health" => p \in tested
       /\ p \in tested \/ pipe[p].pc # "none" => records[p].state # "none"
  /\ \A c \in Callers : call[c].mode \in {"activate", "deactivate", "rollback"} =>
       /\ call[c].actor \in tested
       /\ Vetted(call[c].target, SlotIn(c)) /\ Vetted(call[c].old, SlotIn(c))
       /\ Vetted(call[c].replaced, SlotIn(c))

(* Until its pipeline is through, nothing but its pipeline knows a plugin. *)
Busy(p) == pipe[p].pc \notin {"none", "activate"}

Unknown(p) ==
  /\ records[p].state \in InProgress \cup {"draft"} /\ ~records[p].active
  /\ \A s \in Slots : selection[s] # p /\ active[s] # p /\ serving[s] # p
  /\ \A q \in Plugins : records[q].previous # p
  /\ \A c \in Callers : call[c].mode # "delete" =>
       p \notin {call[c].actor, call[c].target, call[c].old, call[c].replaced}

(* What is used or runs is installed, and what is being deleted is not     *)
(* active.                                                                 *)
RecordedInv ==
  /\ \A p \in Plugins : pipe[p].pc # "none" => Exists(p)
  /\ \A p \in Plugins : Busy(p) => Unknown(p)
  /\ \A c \in Callers : Holding(c) => call[c].target = NoPlugin \/ Exists(call[c].target)
  /\ \A p \in instances : Exists(p)
  /\ \A c \in Callers : call[c].mode = "delete" =>
       /\ ~records[call[c].actor].active
       /\ call[c].pc \in {"stop", "erase"} => ~RollbackTarget(call[c].actor)
       /\ call[c].pc = "erase" => call[c].actor \notin instances

(* Selection, memory and service agree, or are on their way from the old   *)
(* plugin of a switch to the new one.                                      *)
PlaceOf(c) ==
  LET s == SlotIn(c)
      pc == call[c].pc
  IN  /\ active[s] = call[c].old
      /\ pc \in {"prepare", "migrate", "swap", "commit"} => selection[s] = call[c].old
      /\ pc \in {"prepare", "migrate", "swap"} => serving[s] = call[c].old
      /\ pc = "commit" => call[c].replaced = call[c].old /\ serving[s] = call[c].target
      /\ pc \in {"record", "retire"} =>
           selection[s] = call[c].target /\ serving[s] = call[c].target

PlaceInv ==
  up => /\ \A s \in Slots : lock[s] = NoCaller =>
             selection[s] = serving[s] /\ selection[s] = active[s]
        /\ \A c \in Callers : Holding(c) => PlaceOf(c)

(* The records of a slot that are flagged active, and what they roll back  *)
(* to.                                                                     *)
Flagged(s, ps) == \A p \in Plugins : SlotOf[p] = s => (records[p].active <=> p \in ps)

FlagInv ==
  /\ \A s \in Slots : lock[s] = NoCaller => Flagged(s, {selection[s]})
  /\ \A c \in Callers : Holding(c) =>
       Flagged(SlotIn(c), IF call[c].pc = "retire" THEN {call[c].old, call[c].target}
                                                   ELSE {call[c].old})
  /\ \A p \in Plugins :
       records[p].active /\ records[p].previous # NoPlugin => Exists(records[p].previous)

(* The instances a slot needs, and those a switch may fall back on.        *)
Runs(p) == Hosted(p) \/ p \in instances

RunInv ==
  up => /\ \A s \in Slots : Runs(serving[s])
        /\ \A c \in Callers : Holding(c) =>
             Runs(call[c].old) /\ (call[c].pc # "prepare" => Runs(call[c].target))

IInv ==
  /\ TypeOK /\ LocksInv /\ VettedInv
  /\ Races => raced
  /\ ~raced => RecordedInv /\ PlaceInv
  /\ ~raced /\ ~torn => FlagInv
  /\ ~raced /\ ~torn /\ ~late => RunInv

-------------------------------------------------------------------------------
(* The registry                                                            *)

LEMMA Plain ==
  /\ NoPlugin \notin Plugins /\ NoCaller \notin Callers /\ Plugins \subseteq Callers
  /\ Admins \subseteq Callers /\ Admins \cap Plugins = {}
  /\ SlotOf \in [Plugins -> Slots] /\ ModeOf \in [Plugins -> Modes]
  /\ Plugins \subseteq Impls /\ NoPlugin \in Impls /\ Impls = Plugins \cup {NoPlugin}
  /\ "none" \notin States /\ "deleted" \notin States /\ InProgress \subseteq States
  BY RecordsAssumption, LifecycleAssumption DEF Callers, Impls, States, InProgress

LEMMA TypesOf ==
  ASSUME TypeOK
  PROVE  /\ records \in [Plugins -> Record] /\ selection \in [Slots -> Impls]
         /\ up \in BOOLEAN /\ pipe \in [Plugins -> Pipe] /\ call \in [Callers -> Call]
         /\ lock \in [Slots -> Callers \cup {NoCaller}] /\ active \in [Slots -> Impls]
         /\ serving \in [Slots -> Impls] /\ armed \subseteq Plugins /\ stopping \subseteq Plugins
         /\ instances \subseteq Plugins /\ spent \in [Events -> Nat] /\ tested \subseteq Plugins
         /\ raced \in BOOLEAN /\ torn \in BOOLEAN /\ stale \in BOOLEAN /\ late \in BOOLEAN
  BY DEF TypeOK, RegistryTypeOK

(* Only the record of p changes, if it exists, and exists afterwards.      *)
OnlyRecord(p) ==
  /\ records' \in [Plugins -> Record]
  /\ \A q \in Plugins \ {p} : records'[q] = records[q]
  /\ ~Exists(p) => records' = records
  /\ \A q : Exists(q)' <=> Exists(q)

LEMMA UpdatedOnly ==
  ASSUME records \in [Plugins -> Record], NEW p, NEW r \in Record, r.state \in States,
         records' = Updated(p, r)
  PROVE  OnlyRecord(p) /\ (Exists(p) => records'[p] = r)
<1>1. CASE Exists(p)
  <2>1. p \in Plugins /\ records' = [records EXCEPT ![p] = r]
    BY <1>1 DEF Updated, Exists
  <2>2. \A q : Exists(q)' <=> Exists(q)
    BY <1>1, <2>1, Plain DEF Exists
  <2>3. /\ records' \in [Plugins -> Record] /\ records'[p] = r
        /\ \A q \in Plugins \ {p} : records'[q] = records[q]
    BY <2>1
  <2> QED
    BY <1>1, <2>2, <2>3 DEF OnlyRecord
<1>2. CASE ~Exists(p)
  BY <1>2 DEF Updated, OnlyRecord, Exists
<1> QED
  BY <1>1, <1>2

(* A change of state.                                                      *)
StateOnly(p, st) ==
  /\ OnlyRecord(p)
  /\ p \in Plugins /\ Exists(p) =>
       /\ records'[p].state = st /\ records'[p].active = records[p].active
       /\ records'[p].previous = records[p].previous /\ records'[p].passed = records[p].passed

LEMMA RecordFields ==
  ASSUME NEW r \in Record, NEW st \in States
  PROVE  /\ [r EXCEPT !.state = st] \in Record
         /\ [r EXCEPT !.state = st].state = st
         /\ [r EXCEPT !.state = st].active = r.active
         /\ [r EXCEPT !.state = st].previous = r.previous
         /\ [r EXCEPT !.state = st].passed = r.passed
  BY DEF Record

LEMMA MarkedOnly ==
  ASSUME records \in [Plugins -> Record], NEW p, NEW st \in States, records' = Marked(p, st)
  PROVE  StateOnly(p, st)
<1>1. CASE Exists(p)
  <2> DEFINE r == [records[p] EXCEPT !.state = st]
  <2>1. /\ r \in Record /\ r.state = st /\ r.active = records[p].active
        /\ r.previous = records[p].previous /\ r.passed = records[p].passed
    BY <1>1, RecordFields DEF Exists
  <2>2. records' = Updated(p, r)
    BY DEF Marked
  <2> HIDE DEF r
  <2>3. OnlyRecord(p) /\ records'[p] = r
    BY <1>1, <2>1, <2>2, UpdatedOnly
  <2> QED
    BY <2>1, <2>3 DEF StateOnly
<1>2. CASE ~Exists(p)
  <2>1. records' = records
    BY <1>2 DEF Marked, Updated
  <2> QED
    BY <1>2, <2>1 DEF StateOnly, OnlyRecord, Exists
<1> QED
  BY <1>1, <1>2

(* A record of an installed plugin whose state changes to one of sts, or   *)
(* does not change.                                                        *)
StateAmong(p, sts) ==
  /\ OnlyRecord(p)
  /\ p \in Plugins =>
       /\ records'[p].state \in sts \cup {records[p].state}
       /\ records'[p].active = records[p].active
       /\ records'[p].previous = records[p].previous /\ records'[p].passed = records[p].passed

LEMMA SameRecords ==
  ASSUME records \in [Plugins -> Record], UNCHANGED records, NEW p, NEW sts
  PROVE  StateAmong(p, sts)
  BY DEF StateAmong, OnlyRecord, Exists

LEMMA MarkedAmong ==
  ASSUME records \in [Plugins -> Record], NEW p, NEW st \in States, NEW sts, st \in sts,
         records' = Marked(p, st)
  PROVE  StateAmong(p, sts)
<1>1. StateOnly(p, st)
  BY MarkedOnly
<1> QED
  BY <1>1 DEF StateOnly, StateAmong, OnlyRecord

LEMMA TriedAmong ==
  ASSUME records \in [Plugins -> Record], NEW p, NEW st \in States, NEW sts, st \in sts,
         records' = Tried(p, st)
  PROVE  StateAmong(p, sts)
  BY MarkedAmong, SameRecords DEF Tried

-------------------------------------------------------------------------------
(* Calls                                                                   *)

OnlyCall(c) == call' \in [Callers -> Call] /\ \A d \in Callers \ {c} : call'[d] = call[d]

SameCallAt(c, pc) ==
  /\ OnlyCall(c)
  /\ call'[c].pc = pc /\ call'[c].mode = call[c].mode /\ call'[c].actor = call[c].actor
  /\ call'[c].was = call[c].was /\ call'[c].target = call[c].target

Steps1 == {"lock", "prepare", "migrate", "swap", "commit", "record", "retire", "list", "stop", "erase"}

LEMMA GotoOnly ==
  ASSUME call \in [Callers -> Call], NEW c \in Callers, NEW pc \in Steps1, Goto(c, pc)
  PROVE  SameCallAt(c, pc) /\ call'[c].old = call[c].old /\ call'[c].replaced = call[c].replaced
<1> DEFINE k == [call[c] EXCEPT !.pc = pc]
<1>1. call' = [call EXCEPT ![c] = k]
  BY DEF Goto
<1>2. /\ k.pc = pc /\ k.mode = call[c].mode /\ k.actor = call[c].actor /\ k.was = call[c].was
      /\ k.target = call[c].target /\ k.old = call[c].old /\ k.replaced = call[c].replaced
      /\ k \in Call
  BY DEF Call, Steps1
<1> HIDE DEF k
<1> QED
  BY <1>1, <1>2 DEF SameCallAt, OnlyCall

LEMMA ReturnOnly ==
  ASSUME call \in [Callers -> Call], NEW c \in Callers, Return(c)
  PROVE  OnlyCall(c) /\ call'[c] = NoCall
<1>1. NoCall \in Call
  BY Plain DEF NoCall, Call
<1> QED
  BY <1>1 DEF Return, OnlyCall

LEMMA CallOf ==
  ASSUME TypeOK, LocksInv, NEW c \in Callers, call[c].pc # "idle"
  PROVE  /\ call[c].actor \in Plugins /\ call[c].was \in States /\ SlotIn(c) \in Slots
         /\ call[c].target \in Impls /\ call[c].old \in Impls /\ call[c].replaced \in Impls
<1>1. call[c] \in Call
  BY TypesOf
<1>2. call[c].actor \in Plugins /\ call[c].was \in States
  BY DEF LocksInv, CallShape
<1> QED
  BY <1>1, <1>2, Plain DEF SlotIn, Call

LEMMA Spending ==
  ASSUME TypeOK, \/ Answered \/ \E e \in Events : Spend(e)
                 \/ \E c : Refused(c) \/ ReplyLost(c)
  PROVE  spent' \in [Events -> Nat]
<1>1. spent \in [Events -> Nat] /\ "fault" \in Events
  BY TypesOf DEF Events
<1>2. ASSUME NEW e \in Events, Spend(e) PROVE spent' \in [Events -> Nat]
  BY <1>1, <1>2 DEF Spend
<1> QED
  BY <1>1, <1>2 DEF Answered, Refused, ReplyLost

-------------------------------------------------------------------------------
(* Pipelines                                                               *)

(* What a step of the pipeline of p, or its installation, does.            *)
PipeEffect(p) ==
  /\ up /\ UNCHANGED <<selection, up, call, lock, active, serving, armed, stopping>>
  /\ UNCHANGED <<torn, stale, late>>
  /\ records' \in [Plugins -> Record] /\ \A q \in Plugins \ {p} : records'[q] = records[q]
  /\ Exists(p) => Exists(p)'
  /\ records'[p].active = records[p].active
  /\ records'[p].previous \in {records[p].previous, NoPlugin}
  /\ records'[p].active => records'[p].previous = records[p].previous
  /\ records'[p].state # "none" \/ records'[p] = records[p]
  /\ records'[p].state \in Proven =>
       p \in tested' \/ records[p].state \in Proven \/ pipe[p].pc = "health"
  /\ records'[p].passed => records[p].passed \/ p \in tested'
  /\ pipe' \in [Plugins -> Pipe] /\ \A q \in Plugins \ {p} : pipe'[q] = pipe[q]
  /\ pipe'[p].pc = "health" => p \in tested'
  /\ pipe'[p].pc \notin {"none", "activate"} =>
       \/ records'[p].state \in InProgress \cup {"draft"}
       \/ Busy(p) /\ records'[p].state = records[p].state
  /\ tested \subseteq tested' /\ tested' \subseteq tested \cup {p}
  /\ spent' \in [Events -> Nat]
  /\ instances' \subseteq instances \cup {p} /\ instances \ {p} \subseteq instances'
  /\ Busy(p) \/ (records[p].state = "none" /\ UNCHANGED instances /\ Exists(p)')

LEMMA PipeTo ==
  ASSUME pipe \in [Plugins -> Pipe], NEW p \in Plugins
  PROVE  /\ \A pc \in {"validate", "prepare", "start", "contract", "health", "stop", "fail", "activate", "none"} :
              pipe' = [pipe EXCEPT ![p].pc = pc] =>
                /\ pipe' \in [Plugins -> Pipe] /\ \A q \in Plugins \ {p} : pipe'[q] = pipe[q]
                /\ pipe'[p].pc = pc
         /\ pipe' = [pipe EXCEPT ![p] = NoPipe] =>
              /\ pipe' \in [Plugins -> Pipe] /\ \A q \in Plugins \ {p} : pipe'[q] = pipe[q]
              /\ pipe'[p].pc = "none"
<1>1. ASSUME NEW pc \in {"validate", "prepare", "start", "contract", "health", "stop", "fail", "activate", "none"},
             pipe' = [pipe EXCEPT ![p].pc = pc]
      PROVE  /\ pipe' \in [Plugins -> Pipe] /\ \A q \in Plugins \ {p} : pipe'[q] = pipe[q]
             /\ pipe'[p].pc = pc
  <2> DEFINE k == [pipe[p] EXCEPT !.pc = pc]
  <2>1. k \in Pipe /\ k.pc = pc /\ pipe' = [pipe EXCEPT ![p] = k]
    BY <1>1 DEF Pipe
  <2> HIDE DEF k
  <2> QED
    BY <2>1
<1>2. NoPipe \in Pipe /\ NoPipe.pc = "none"
  BY DEF NoPipe, Pipe
<1> QED
  BY <1>1, <1>2

LEMMA WalkedTo ==
  ASSUME NEW p, NEW x, NEW y
  PROVE  Walked(p, <<x>>) = Marked(p, x) /\ Walked(p, <<x, y>>) = Marked(p, y)
  BY DEF Walked

(* The end of a stage, either way.                                         *)
Ended(p, st, pc) ==
  /\ StateAmong(p, {st})
  /\ pipe' \in [Plugins -> Pipe] /\ \A q \in Plugins \ {p} : pipe'[q] = pipe[q]
  /\ pipe'[p].pc \in {pc, "none"}
  /\ pipe'[p].pc # "none" => records'[p].state = st

LEMMA Proceeding ==
  ASSUME TypeOK, NEW p \in Plugins, NEW path, NEW st \in States,
         Walked(p, path) = Marked(p, st),
         NEW pc \in {"prepare", "start", "contract", "health", "activate", "none"},
         Proceed(p, path, pc)
  PROVE  Ended(p, st, pc)
<1>1. records \in [Plugins -> Record] /\ pipe \in [Plugins -> Pipe]
  BY TypesOf
<1>2. CASE CanWalk(p, path)
  <2>1. records' = Marked(p, st) /\ pipe' = [pipe EXCEPT ![p].pc = pc] /\ Exists(p)
    BY <1>2 DEF Proceed, CanWalk
  <2>2. StateOnly(p, st) /\ StateAmong(p, {st})
    BY <1>1, <2>1, MarkedOnly, MarkedAmong
  <2> QED
    BY <1>1, <2>1, <2>2, PipeTo DEF StateOnly, Ended
<1>3. CASE ~CanWalk(p, path)
  <2>1. UNCHANGED records /\ pipe' = [pipe EXCEPT ![p] = NoPipe]
    BY <1>3 DEF Proceed
  <2> QED
    BY <1>1, <2>1, PipeTo, SameRecords DEF Ended
<1> QED
  BY <1>2, <1>3

LEMMA StateOfRecord ==
  ASSUME TypeOK, NEW p \in Plugins, NEW sts \in SUBSET States, StateAmong(p, sts)
  PROVE  /\ records' \in [Plugins -> Record] /\ \A q \in Plugins \ {p} : records'[q] = records[q]
         /\ Exists(p) => Exists(p)'
         /\ records'[p].active = records[p].active
         /\ records'[p].previous = records[p].previous
         /\ records'[p].passed = records[p].passed
         /\ records'[p].state # "none" \/ records'[p] = records[p]
         /\ records'[p].state \in sts \cup {records[p].state}
<1>1. records'[p].state # "none" \/ records'[p] = records[p]
  BY Plain DEF StateAmong, OnlyRecord, Exists
<1> QED
  BY <1>1 DEF StateAmong, OnlyRecord

LEMMA StageEffects ==
  ASSUME TypeOK, NEW p \in Plugins, PipelineStep(p)
  PROVE  PipeEffect(p)
<1> USE DEF Events
<1>t. /\ records \in [Plugins -> Record] /\ pipe \in [Plugins -> Pipe] /\ spent \in [Events -> Nat]
      /\ instances \subseteq Plugins /\ tested \subseteq Plugins
  BY TypesOf
<1>0. /\ \A st \in {"testing", "scanning", "building", "starting", "checking", "failed"} :
           st \in States /\ {st} \in SUBSET States
      /\ {} \in SUBSET States
      /\ "testing" \in InProgress /\ "scanning" \in InProgress /\ "building" \in InProgress
      /\ "starting" \in InProgress /\ "checking" \in InProgress
      /\ "testing" \notin Proven /\ "scanning" \notin Proven /\ "building" \notin Proven
      /\ "starting" \notin Proven /\ "failed" \notin Proven /\ "verified" \in States
      /\ {"verified"} \in SUBSET States
  BY DEF States, InProgress, Proven
<1>1. ASSUME NEW st \in {"testing", "scanning", "building", "starting"}, NEW path,
             Walked(p, path) = Marked(p, st), NEW pc \in {"prepare", "start", "contract"},
             Proceed(p, path, pc), Busy(p), UNCHANGED tested, StageUnchanged, up,
             spent' \in [Events -> Nat],
             instances' \subseteq instances \cup {p}, instances \ {p} \subseteq instances'
      PROVE  PipeEffect(p)
  <2>1. st \in States /\ pc \in {"prepare", "start", "contract", "health", "activate", "none"}
    BY <1>0
  <2>2. Ended(p, st, pc)
    BY <1>1, <2>1, Proceeding
  <2>3. {st} \in SUBSET States /\ st \in InProgress /\ st \notin Proven
    BY <1>0
  <2> QED
    BY <1>t, <1>1, <2>2, <2>3, StateOfRecord DEF PipeEffect, StageUnchanged, Ended
<1>2. ASSUME Failing(p), Busy(p), UNCHANGED tested, StageUnchanged, up, spent' \in [Events -> Nat],
             instances' \subseteq instances \cup {p}, instances \ {p} \subseteq instances'
      PROVE  PipeEffect(p)
  <2>1. /\ UNCHANGED records
        /\ pipe' \in [Plugins -> Pipe] /\ \A q \in Plugins \ {p} : pipe'[q] = pipe[q]
        /\ pipe'[p].pc = "stop"
    BY <1>t, <1>2, PipeTo DEF Failing
  <2> QED
    BY <1>t, <1>0, <1>2, <2>1, StateOfRecord, SameRecords DEF PipeEffect, StageUnchanged
<1>3. /\ WithInstance(p) \subseteq instances \cup {p} /\ instances \subseteq WithInstance(p)
      /\ EnsureInstance(p) => /\ spent' \in [Events -> Nat] /\ instances' = WithInstance(p)
      /\ StartFails(p) => /\ spent' \in [Events -> Nat] /\ instances' \subseteq instances \cup {p}
                          /\ instances \subseteq instances'
  BY <1>t, Spending DEF WithInstance, EnsureInstance, StartFails
<1>4. CASE Validate(p)
  <2>1. /\ Busy(p) /\ up /\ UNCHANGED <<tested, instances>> /\ StageUnchanged
        /\ spent' \in [Events -> Nat]
    BY <1>4, Spending DEF Validate, At, Busy
  <2>2. \/ Proceed(p, <<"validating", "testing">>, "contract")
        \/ Proceed(p, <<"validating", "scanning">>, "prepare")
        \/ Proceed(p, <<"validating", "building">>, "prepare")
    BY <1>4, Plain DEF Validate, Modes
  <2>3. instances' \subseteq instances \cup {p} /\ instances \ {p} \subseteq instances'
    BY <2>1
  <2>4. CASE Proceed(p, <<"validating", "testing">>, "contract")
    <3>1. Walked(p, <<"validating", "testing">>) = Marked(p, "testing")
      BY WalkedTo
    <3> DEFINE path == <<"validating", "testing">>
    <3>2. Walked(p, path) = Marked(p, "testing") /\ Proceed(p, path, "contract")
      BY <2>4, <3>1
    <3> HIDE DEF path
    <3> QED
      BY <1>1, <2>1, <2>3, <3>2
  <2>5. CASE Proceed(p, <<"validating", "scanning">>, "prepare")
    <3>1. Walked(p, <<"validating", "scanning">>) = Marked(p, "scanning")
      BY WalkedTo
    <3> DEFINE path == <<"validating", "scanning">>
    <3>2. Walked(p, path) = Marked(p, "scanning") /\ Proceed(p, path, "prepare")
      BY <2>5, <3>1
    <3> HIDE DEF path
    <3> QED
      BY <1>1, <2>1, <2>3, <3>2
  <2>6. CASE Proceed(p, <<"validating", "building">>, "prepare")
    <3>1. Walked(p, <<"validating", "building">>) = Marked(p, "building")
      BY WalkedTo
    <3> DEFINE path == <<"validating", "building">>
    <3>2. Walked(p, path) = Marked(p, "building") /\ Proceed(p, path, "prepare")
      BY <2>6, <3>1
    <3> HIDE DEF path
    <3> QED
      BY <1>1, <2>1, <2>3, <3>2
  <2> QED
    BY <2>2, <2>4, <2>5, <2>6
<1>5. CASE Prepare(p)
  <2>1. /\ Busy(p) /\ up /\ UNCHANGED <<tested, instances>> /\ StageUnchanged
        /\ spent' \in [Events -> Nat]
    BY <1>5, Spending DEF Prepare, At, Busy
  <2>2. Proceed(p, <<"scanning", "starting">>, "start") \/ Failing(p)
    BY <1>5 DEF Prepare
  <2> QED
    BY <1>1, <1>2, <2>1, <2>2, WalkedTo
<1>6. CASE Start(p)
  <2>1. Busy(p) /\ up /\ UNCHANGED tested /\ StageUnchanged
    BY <1>6 DEF Start, At, Busy
  <2>2. \/ EnsureInstance(p) /\ Proceed(p, <<"testing">>, "contract")
        \/ StartFails(p) /\ Failing(p)
    BY <1>6 DEF Start
  <2> QED
    BY <1>1, <1>2, <1>3, <2>1, <2>2, WalkedTo
<1>7. CASE RunContract(p)
  <2>1. /\ Busy(p) /\ up /\ StageUnchanged /\ instances' = WithInstance(p)
        /\ spent' \in [Events -> Nat]
    BY <1>7, Spending DEF RunContract, At, Busy
  <2>2. CASE Failing(p) /\ UNCHANGED tested
    BY <1>2, <1>3, <2>1, <2>2
  <2>3. CASE /\ tested' = tested \cup {p} /\ CanWalk(p, <<"checking">>)
             /\ records' = [records EXCEPT ![p].state = "checking", ![p].passed = TRUE]
             /\ pipe' = [pipe EXCEPT ![p].pc = "health"]
    <3> DEFINE r == [records[p] EXCEPT !.state = "checking", !.passed = TRUE]
    <3>1. /\ records' = [records EXCEPT ![p] = r] /\ pipe' = [pipe EXCEPT ![p].pc = "health"]
          /\ Exists(p)
      BY <2>3 DEF CanWalk
    <3>2. /\ r \in Record /\ r.state = "checking" /\ r.active = records[p].active
          /\ r.previous = records[p].previous
      BY <1>t, <1>0 DEF Record
    <3> HIDE DEF r
    <3>3. /\ records' \in [Plugins -> Record] /\ records'[p] = r
          /\ \A q \in Plugins \ {p} : records'[q] = records[q]
      BY <1>t, <3>1, <3>2
    <3>4. /\ pipe' \in [Plugins -> Pipe] /\ \A q \in Plugins \ {p} : pipe'[q] = pipe[q]
          /\ pipe'[p].pc = "health"
      BY <1>t, <3>1, PipeTo
    <3>5. Exists(p)'
      BY <3>2, <3>3 DEF Exists
    <3> QED
      BY <1>t, <1>0, <1>3, <2>1, <2>3, <3>2, <3>3, <3>4, <3>5 DEF PipeEffect, StageUnchanged
  <2>4. CASE tested' = tested \cup {p} /\ UNCHANGED records /\ pipe' = [pipe EXCEPT ![p] = NoPipe]
    <3>1. /\ pipe' \in [Plugins -> Pipe] /\ \A q \in Plugins \ {p} : pipe'[q] = pipe[q]
          /\ pipe'[p].pc = "none"
      BY <1>t, <2>4, PipeTo
    <3> QED
      BY <1>t, <1>0, <1>3, <2>1, <2>4, <3>1, StateOfRecord, SameRecords DEF PipeEffect, StageUnchanged
  <2> QED
    BY <1>7, <2>2, <2>3, <2>4 DEF RunContract
<1>8. CASE CheckHealth(p)
  <2>1. pipe[p].pc = "health" /\ Busy(p) /\ up /\ UNCHANGED tested /\ StageUnchanged
    BY <1>8 DEF CheckHealth, At, Busy
  <2>2. CASE EnsureInstance(p) /\ Proceed(p, <<"verified">>, IF pipe[p].auto THEN "activate" ELSE "none")
    <3> DEFINE pc == IF pipe[p].auto THEN "activate" ELSE "none"
    <3>1. pc \in {"prepare", "start", "contract", "health", "activate", "none"} /\ pc \in {"activate", "none"}
      OBVIOUS
    <3> HIDE DEF pc
    <3>2. Ended(p, "verified", pc)
      BY <1>t, <1>0, <2>2, <3>1, Proceeding, WalkedTo DEF pc
    <3> QED
      BY <1>t, <1>0, <1>3, <2>1, <2>2, <3>1, <3>2, StateOfRecord DEF PipeEffect, StageUnchanged, Ended
  <2>3. CASE StartFails(p) /\ Failing(p)
    BY <1>2, <1>3, <2>1, <2>3
  <2>4. CASE Refused("health") /\ instances' = WithInstance(p) /\ Failing(p)
    BY <1>2, <1>3, <2>1, <2>4, Spending
  <2> QED
    BY <1>8, <2>2, <2>3, <2>4 DEF CheckHealth
<1>9. CASE StopCandidate(p)
  <2>1. /\ Busy(p) /\ up /\ UNCHANGED <<records, spent, tested>> /\ StageUnchanged
        /\ instances \ {p} \subseteq instances' /\ instances' \subseteq instances
        /\ pipe' \in [Plugins -> Pipe] /\ \A q \in Plugins \ {p} : pipe'[q] = pipe[q]
        /\ pipe'[p].pc = "fail"
    BY <1>t, <1>9, PipeTo DEF StopCandidate, At, Busy
  <2> QED
    BY <1>t, <1>0, <2>1, StateOfRecord, SameRecords DEF PipeEffect, StageUnchanged
<1>10. CASE Fail(p)
  <2>1. /\ Busy(p) /\ up /\ UNCHANGED <<instances, spent, tested>> /\ StageUnchanged
        /\ pipe' \in [Plugins -> Pipe] /\ \A q \in Plugins \ {p} : pipe'[q] = pipe[q]
        /\ pipe'[p].pc = "none" /\ StateAmong(p, {"failed"})
    BY <1>t, <1>0, <1>10, PipeTo, MarkedAmong DEF Fail, At, Busy
  <2> QED
    BY <1>t, <1>0, <2>1, StateOfRecord DEF PipeEffect, StageUnchanged
<1> QED
  BY <1>4, <1>5, <1>6, <1>7, <1>8, <1>9, <1>10 DEF PipelineStep

LEMMA InstallEffects ==
  ASSUME TypeOK, LocksInv, NEW p \in Plugins, Install(p)
  PROVE  PipeEffect(p)
<1>1. /\ up /\ UNCHANGED <<selection, up, call, lock, active, serving, armed, stopping>>
      /\ UNCHANGED <<instances, tested, torn, stale, late>>
      /\ records[p].state = "none" /\ records' = [records EXCEPT ![p] = Blank("draft")]
      /\ spent' \in [Events -> Nat]
  BY Spending DEF Install, Create, Events
<1>2. ~records[p].active
  BY <1>1 DEF LocksInv, Exists
<1>3. /\ Blank("draft") \in Record /\ Blank("draft").state = "draft" /\ ~Blank("draft").active
      /\ Blank("draft").previous = NoPlugin /\ ~Blank("draft").passed /\ "draft" \notin Proven
  BY Plain DEF Blank, Record, States, Proven
<1>4. /\ records' \in [Plugins -> Record] /\ records'[p] = Blank("draft")
      /\ \A q \in Plugins \ {p} : records'[q] = records[q]
  BY <1>1, <1>3, TypesOf
<1>5. PICK auto \in BOOLEAN : pipe' = [pipe EXCEPT ![p] = [pc |-> "validate", auto |-> auto]]
  BY DEF Install
<1>6. /\ pipe' \in [Plugins -> Pipe] /\ \A q \in Plugins \ {p} : pipe'[q] = pipe[q]
      /\ pipe'[p].pc = "validate"
  BY <1>5, TypesOf DEF Pipe
<1>7. Exists(p)'
  BY <1>3, <1>4 DEF Exists
<1>8. records[p].active = FALSE /\ records'[p].active = FALSE
  BY <1>2, <1>3, <1>4, TypesOf DEF Record
<1> QED
  BY <1>1, <1>3, <1>4, <1>6, <1>7, <1>8 DEF PipeEffect

-------------------------------------------------------------------------------
(* Each part of the invariant, when a pipeline moves                       *)

LEMMA SameCalls ==
  ASSUME UNCHANGED call
  PROVE  \A c : /\ SlotIn(c)' = SlotIn(c) /\ (Holding(c)' <=> Holding(c))
                /\ (CallShape(c)' <=> CallShape(c)) /\ call'[c] = call[c]
  BY DEF SlotIn, Holding, CallShape

LEMMA ModesOf ==
  ASSUME TypeOK, LocksInv, NEW c \in Callers, call[c].mode \notin {"none", "delete"}
  PROVE  call[c].mode \in {"activate", "deactivate", "rollback"}
<1>1. call[c] \in Call
  BY TypesOf
<1> QED
  BY <1>1 DEF Call

LEMMA NoneIsIdle ==
  ASSUME TypeOK, LocksInv, NEW c \in Callers, call[c].mode = "none"
  PROVE  call[c] = NoCall
<1>1. call[c] \in Call /\ CallShape(c)
  BY TypesOf DEF LocksInv
<1> QED
  BY <1>1 DEF Call, CallShape, Holding

LEMMA PipeKeepsTypes ==
  ASSUME TypeOK, NEW p \in Plugins, PipeEffect(p), raced' = (raced \/ Races')
  PROVE  TypeOK'
<1>1. Races' \in BOOLEAN
  BY DEF Races
<1>2. raced' \in BOOLEAN
  BY <1>1, TypesOf
<1> QED
  BY <1>2, TypesOf DEF PipeEffect, TypeOK, RegistryTypeOK

LEMMA PipeKeepsLocks ==
  ASSUME TypeOK, LocksInv, NEW p \in Plugins, PipeEffect(p)
  PROVE  LocksInv'
<1>1. UNCHANGED <<call, lock, up>> /\ up
  BY DEF PipeEffect
<1>2. \A q \in Plugins : records'[q].active => Exists(q)'
  <2> SUFFICES ASSUME NEW q \in Plugins, records'[q].active PROVE Exists(q)'
    OBVIOUS
  <2>1. CASE q = p
    BY <2>1 DEF PipeEffect, LocksInv
  <2>2. CASE q # p
    BY <2>2 DEF PipeEffect, LocksInv, Exists
  <2> QED
    BY <2>1, <2>2
<1>3. \A c \in Callers : CallShape(c)'
  BY <1>1, SameCalls DEF LocksInv
<1>4. \A c \in Callers : Holding(c)' => lock'[SlotIn(c)'] = c
  BY <1>1, SameCalls DEF LocksInv
<1>5. \A s \in Slots : lock'[s] # NoCaller => Holding(lock[s])' /\ SlotIn(lock[s])' = s
  BY <1>1, SameCalls DEF LocksInv
<1> QED
  BY <1>1, <1>2, <1>3, <1>4, <1>5 DEF LocksInv

LEMMA PipeKeepsVetted ==
  ASSUME TypeOK, LocksInv, VettedInv, NEW p \in Plugins, PipeEffect(p)
  PROVE  VettedInv'
<1>0. UNCHANGED <<call, selection, active, serving>> /\ tested \subseteq tested'
  BY DEF PipeEffect
<1>1. \A q, s : Vetted(q, s) => Vetted(q, s)'
  BY <1>0 DEF Vetted
<1>2. \A s \in Slots : Vetted(selection[s], s)' /\ Vetted(active[s], s)' /\ Vetted(serving[s], s)'
  BY <1>0, <1>1 DEF VettedInv, Vetted
<1>3. ASSUME NEW q \in Plugins
      PROVE  /\ records'[q].state \in Proven \/ records'[q].passed \/ records'[q].active => q \in tested'
             /\ Vetted(records[q].previous, SlotOf[q])'
             /\ pipe'[q].pc = "health" => q \in tested'
             /\ q \in tested' \/ pipe'[q].pc # "none" => records'[q].state # "none"
  <2>1. /\ records[q].state \in Proven \/ records[q].passed \/ records[q].active => q \in tested
        /\ Vetted(records[q].previous, SlotOf[q])
        /\ pipe[q].pc = "health" => q \in tested
        /\ q \in tested \/ pipe[q].pc # "none" => records[q].state # "none"
    BY DEF VettedInv
  <2>2. CASE q # p
    BY <1>0, <2>1, <2>2 DEF PipeEffect, Vetted
  <2>3. CASE q = p
    <3>1. /\ records'[q].state \in Proven \/ records'[q].passed \/ records'[q].active => q \in tested'
          /\ pipe'[q].pc = "health" => q \in tested'
      BY <1>0, <2>1, <2>3 DEF PipeEffect
    <3>2. Vetted(records[q].previous, SlotOf[q])'
      BY <1>0, <2>1, <2>3 DEF PipeEffect, Vetted
    <3>3. q \in tested' \/ pipe'[q].pc # "none" => records'[q].state # "none"
      BY <2>1, <2>3 DEF PipeEffect, Busy, Exists
    <3> QED
      BY <3>1, <3>2, <3>3
  <2> QED
    BY <2>2, <2>3
<1>4. ASSUME NEW c \in Callers, call'[c].mode \in {"activate", "deactivate", "rollback"}
      PROVE  /\ call'[c].actor \in tested'
             /\ Vetted(call[c].target, SlotIn(c))' /\ Vetted(call[c].old, SlotIn(c))'
             /\ Vetted(call[c].replaced, SlotIn(c))'
  BY <1>0, <1>4, SameCalls DEF VettedInv, Vetted
<1> QED
  BY <1>2, <1>3, <1>4 DEF VettedInv

LEMMA PipeKeepsRecorded ==
  ASSUME TypeOK, LocksInv, VettedInv, Races => raced, ~raced, RecordedInv,
         NEW p \in Plugins, PipeEffect(p)
  PROVE  RecordedInv'
<1>0. /\ UNCHANGED <<call, selection, active, serving>>
      /\ \A q \in Plugins \ {p} : records'[q] = records[q] /\ pipe'[q] = pipe[q]
      /\ \A q \in Plugins : Exists(q) => Exists(q)'
      /\ \A q \in Plugins : records'[q].active = records[q].active
      /\ \A q \in Plugins : records'[q].previous \in {records[q].previous, NoPlugin}
      /\ \A q \in Plugins : records'[q].active => records'[q].previous = records[q].previous
      /\ Busy(p) \/ (records[p].state = "none" /\ UNCHANGED instances /\ Exists(p)')
      /\ instances' \subseteq instances \cup {p}
  BY DEF PipeEffect, Exists
<1>1. Busy(p) => Exists(p) /\ Unknown(p)
  BY DEF RecordedInv, Busy
<1>2. Exists(p)'
  BY <1>0, <1>1
<1>3. ~Busy(p) => /\ ~records[p].active
                  /\ \A s \in Slots : selection[s] # p /\ active[s] # p /\ serving[s] # p
                  /\ \A q \in Plugins : records[q].previous # p
                  /\ \A c \in Callers : call[c].mode # "delete" =>
                       p \notin {call[c].actor, call[c].target, call[c].old, call[c].replaced}
  <2> HAVE ~Busy(p)
  <2>1. records[p].state = "none" /\ p \notin tested
    BY <1>0 DEF VettedInv
  <2>2. \A s : ~Vetted(p, s)
    BY <2>1, Plain DEF Vetted
  <2>3. \A c \in Callers : call[c].mode # "delete" =>
          p \notin {call[c].actor, call[c].target, call[c].old, call[c].replaced}
    <3> SUFFICES ASSUME NEW c \in Callers, call[c].mode # "delete"
                 PROVE  p \notin {call[c].actor, call[c].target, call[c].old, call[c].replaced}
      OBVIOUS
    <3>1. CASE call[c].mode = "none"
      BY <3>1, NoneIsIdle, Plain DEF NoCall
    <3>2. CASE call[c].mode # "none"
      BY <2>1, <2>2, <3>2, ModesOf DEF VettedInv
    <3> QED
      BY <3>1, <3>2
  <2>4. ~records[p].active
    BY <2>1 DEF LocksInv, Exists
  <2> QED
    BY <2>2, <2>3, <2>4 DEF VettedInv
<1>4. \A q \in Plugins : pipe'[q].pc # "none" => Exists(q)'
  BY <1>0, <1>2 DEF RecordedInv
<1>5. ASSUME NEW q \in Plugins, Busy(q)' PROVE Unknown(q)'
  <2>1. /\ ~records[q].active
        /\ \A s \in Slots : selection[s] # q /\ active[s] # q /\ serving[s] # q
        /\ \A o \in Plugins : records[o].previous # q
        /\ \A c \in Callers : call[c].mode # "delete" =>
             q \notin {call[c].actor, call[c].target, call[c].old, call[c].replaced}
    <3>1. CASE q = p
      BY <1>1, <1>3, <3>1 DEF Unknown
    <3>2. CASE q # p
      <4>1. Busy(q)
        BY <1>0, <1>5, <3>2 DEF Busy
      <4> QED
        BY <4>1 DEF RecordedInv, Unknown
    <3> QED
      BY <3>1, <3>2
  <2>2. records'[q].state \in InProgress \cup {"draft"}
    <3>1. CASE q = p
      BY <1>1, <1>5, <3>1 DEF PipeEffect, Busy, Unknown
    <3>2. CASE q # p
      <4>1. Busy(q)
        BY <1>0, <1>5, <3>2 DEF Busy
      <4> QED
        BY <1>0, <3>2, <4>1 DEF RecordedInv, Unknown
    <3> QED
      BY <3>1, <3>2
  <2>3. \A o \in Plugins : records'[o].previous # q
    BY <1>0, <2>1, Plain
  <2> QED
    BY <1>0, <2>1, <2>2, <2>3 DEF Unknown
<1>6. \A c \in Callers : Holding(c)' => call'[c].target = NoPlugin \/ Exists(call[c].target)'
  <2> SUFFICES ASSUME NEW c \in Callers, Holding(c)', call'[c].target # NoPlugin
               PROVE  Exists(call[c].target)'
    OBVIOUS
  <2>1. Exists(call[c].target)
    BY <1>0, SameCalls DEF RecordedInv
  <2>2. call[c].target \in Plugins
    BY <2>1 DEF Exists
  <2> QED
    BY <1>0, <2>1, <2>2 DEF Exists
<1>7. \A q \in instances' : Exists(q)'
  BY <1>0, <1>2, TypesOf DEF RecordedInv
<1>8. ASSUME NEW c \in Callers, call[c].mode = "delete"
      PROVE  /\ ~records'[call[c].actor].active
             /\ call[c].pc \in {"stop", "erase"} => ~RollbackTarget(call[c].actor)'
             /\ call[c].pc = "erase" => call[c].actor \notin instances'
  <2>1. call[c].actor \in Plugins
    BY <1>8, CallOf DEF LocksInv, CallShape, NoCall
  <2>2. call[c].actor # p \/ ~Busy(p)
    BY <1>8 DEF Races, InUse, Busy
  <2>3. ~records'[call[c].actor].active
    BY <1>0, <1>8, <2>1 DEF RecordedInv
  <2>4. ~RollbackTarget(call[c].actor) => ~RollbackTarget(call[c].actor)'
    <3> SUFFICES ASSUME NEW o \in Plugins, records'[o].active, records'[o].previous = call'[c].actor
                 PROVE  RollbackTarget(call[c].actor)
      BY <1>0 DEF RollbackTarget, Listed
    <3> QED
      BY <1>0 DEF RollbackTarget, Listed, LocksInv
  <2> QED
    BY <1>0, <1>8, <2>2, <2>3, <2>4 DEF RecordedInv
<1> QED
  BY <1>0, <1>4, <1>5, <1>6, <1>7, <1>8 DEF RecordedInv

LEMMA PipePreserves ==
  ASSUME IInv, NEW p \in Plugins, PipeEffect(p), raced' = (raced \/ Races')
  PROVE  IInv'
<1>1. TypeOK' /\ LocksInv' /\ VettedInv' /\ (Races' => raced')
  BY PipeKeepsTypes, PipeKeepsLocks, PipeKeepsVetted DEF IInv
<1>2. /\ UNCHANGED <<call, lock, selection, active, serving, up, torn, late>>
      /\ ~raced' => ~raced
  BY DEF PipeEffect
<1>3. ~raced' => RecordedInv'
  BY <1>2, PipeKeepsRecorded DEF IInv
<1>4. ASSUME ~raced' PROVE PlaceInv'
  <2>1. \A c : PlaceOf(c)' <=> PlaceOf(c)
    BY <1>2, SameCalls DEF PlaceOf, SlotIn
  <2> QED
    BY <1>2, <1>4, <2>1, SameCalls DEF IInv, PlaceInv
<1>5. ASSUME ~raced', ~torn' PROVE FlagInv'
  <2>1. FlagInv
    BY <1>2, <1>5 DEF IInv
  <2>2. \A s, ps : Flagged(s, ps)' <=> Flagged(s, ps)
    BY DEF Flagged, PipeEffect
  <2>3. \A q \in Plugins : records'[q].active /\ records'[q].previous # NoPlugin =>
          Exists(records[q].previous)'
    <3> SUFFICES ASSUME NEW q \in Plugins, records'[q].active, records'[q].previous # NoPlugin
                 PROVE  Exists(records[q].previous)'
      OBVIOUS
    <3>1. records[q].active /\ records'[q].previous = records[q].previous
      BY DEF PipeEffect
    <3>2. Exists(records[q].previous)
      BY <2>1, <3>1 DEF FlagInv
    <3>3. \A o \in Plugins : Exists(o) => Exists(o)'
      BY DEF PipeEffect, Exists
    <3> QED
      BY <3>1, <3>2, <3>3 DEF Exists
  <2>4. \A s \in Slots : lock'[s] = NoCaller => Flagged(s, {selection[s]})'
    BY <1>2, <2>1 DEF FlagInv, Flagged, PipeEffect
  <2>5. \A c \in Callers : Holding(c)' =>
       Flagged(SlotIn(c), IF call[c].pc = "retire" THEN {call[c].old, call[c].target}
                                                   ELSE {call[c].old})'
    BY <1>2, <2>1, SameCalls DEF FlagInv, Flagged, PipeEffect
  <2> QED
    BY <2>3, <2>4, <2>5 DEF FlagInv
<1>6. ASSUME ~raced', ~torn', ~late' PROVE RunInv'
  <2>1. RunInv /\ RecordedInv /\ up
    BY <1>2, <1>6 DEF IInv, PipeEffect
  <2>2. \A q : q # p /\ Runs(q) => Runs(q)'
    BY DEF Runs, Hosted, PipeEffect
  <2>3. ~Busy(p) => (Runs(p) => Runs(p)')
    BY DEF PipeEffect, Runs
  <2>4. Busy(p) => Unknown(p)
    BY <2>1 DEF RecordedInv
  <2>5. \A s \in Slots : Runs(serving[s])'
    BY <1>2, <2>1, <2>2, <2>3, <2>4 DEF RunInv, Unknown, Runs
  <2>6. ASSUME NEW c \in Callers, Holding(c)
        PROVE  Runs(call[c].old)' /\ (call[c].pc # "prepare" => Runs(call[c].target)')
    <3>1. call[c].mode # "delete"
      BY <2>6 DEF IInv, LocksInv, CallShape
    <3> QED
      BY <1>2, <2>1, <2>2, <2>3, <2>4, <2>6, <3>1 DEF RunInv, Unknown, Runs
  <2> QED
    BY <1>2, <2>5, <2>6, SameCalls DEF RunInv
<1> QED
  BY <1>1, <1>3, <1>4, <1>5, <1>6 DEF IInv

-------------------------------------------------------------------------------
(* Switches                                                                *)

(* What a switch has in hand: all of it is made for its slot.              *)
Known(c) ==
  {NoPlugin, call[c].actor, call[c].target, call[c].old, call[c].replaced,
   active[SlotIn(c)], serving[SlotIn(c)]}

SlotsEffect(c) ==
  /\ lock' \in [Slots -> Callers \cup {NoCaller}] /\ selection' \in [Slots -> Impls]
  /\ active' \in [Slots -> Impls] /\ serving' \in [Slots -> Impls]
  /\ \A s \in Slots \ {SlotIn(c)} :
       /\ lock'[s] = lock[s] /\ selection'[s] = selection[s]
       /\ active'[s] = active[s] /\ serving'[s] = serving[s]
  /\ selection'[SlotIn(c)] \in Known(c) \cup {selection[SlotIn(c)]}
  /\ active'[SlotIn(c)] \in Known(c) /\ serving'[SlotIn(c)] \in Known(c)

RecordsEffect(c) ==
  /\ records' \in [Plugins -> Record]
  /\ \A q : Exists(q)' <=> Exists(q)
  /\ \A q \in Plugins : records'[q] # records[q] => q \in Known(c) /\ Exists(q)
  /\ \A q \in Plugins : records'[q].active =>
       \/ records[q].active /\ records'[q].previous = records[q].previous
       \/ Holding(c) /\ q = call[c].target /\ records'[q].previous \in {NoPlugin, call[c].old}
  /\ \A q \in Plugins : records'[q].previous \in {records[q].previous, NoPlugin, call[c].old}

CallEffect(c) ==
  /\ OnlyCall(c)
  /\ \/ call'[c] = NoCall /\ lock'[SlotIn(c)] = NoCaller
     \/ /\ call'[c].pc \in {"prepare", "migrate", "swap", "commit", "record", "retire"}
        /\ call'[c].mode = call[c].mode /\ call'[c].actor = call[c].actor
        /\ call'[c].was = call[c].was /\ call'[c].target = call[c].target
        /\ call'[c].old \in Known(c) /\ call'[c].replaced \in Known(c)
        /\ call'[c].pc = "record" => call[c].target # NoPlugin
        /\ Holding(c) \/ call[c].target = NoPlugin \/ Exists(call[c].target)
        /\ lock'[SlotIn(c)] = c

(* What a step of a switch does.                                           *)
SwitchEffect(c) ==
  /\ up /\ UNCHANGED <<up, pipe, stopping, tested, torn, late>>
  /\ armed' \subseteq Plugins /\ spent' \in [Events -> Nat] /\ stale' \in BOOLEAN
  /\ instances \subseteq instances' /\ instances' \subseteq instances \cup {call[c].target}
  /\ instances' \subseteq Plugins /\ (instances' # instances => Holding(c))
  /\ Holding(c) \/ (call[c].pc = "lock" /\ lock[SlotIn(c)] = NoCaller)
  /\ SlotsEffect(c) /\ RecordsEffect(c) /\ CallEffect(c)

LEMMA KnownVetted ==
  ASSUME TypeOK, LocksInv, VettedInv, NEW c \in Callers, call[c].pc = "lock" \/ Holding(c)
  PROVE  /\ SlotIn(c) \in Slots /\ call[c].actor \in Plugins /\ call[c].actor \in tested
         /\ call[c].mode \in {"activate", "deactivate", "rollback"}
         /\ Known(c) \subseteq Impls
         /\ \A q \in Known(c) : Vetted(q, SlotIn(c))
<1>1. /\ call[c].mode \in {"activate", "deactivate", "rollback"} /\ call[c].pc # "idle"
  BY DEF LocksInv, CallShape, Holding
<1>2. /\ call[c].actor \in Plugins /\ SlotIn(c) \in Slots /\ call[c].target \in Impls
      /\ call[c].old \in Impls /\ call[c].replaced \in Impls
  BY <1>1, CallOf
<1>3. active[SlotIn(c)] \in Impls /\ serving[SlotIn(c)] \in Impls
  BY <1>2, TypesOf
<1>4. call[c].actor \in tested /\ Vetted(call[c].actor, SlotIn(c))
  BY <1>1 DEF VettedInv, Vetted, SlotIn
<1> QED
  BY <1>1, <1>2, <1>3, <1>4, Plain DEF Known, VettedInv, Vetted

LEMMA SwitchKeepsTypes ==
  ASSUME TypeOK, NEW c \in Callers, SwitchEffect(c), raced' = (raced \/ Races')
  PROVE  TypeOK'
<1>1. Races' \in BOOLEAN
  BY DEF Races
<1>2. raced' \in BOOLEAN
  BY <1>1, TypesOf
<1> QED
  BY <1>2, TypesOf DEF SwitchEffect, SlotsEffect, RecordsEffect, CallEffect, OnlyCall,
     TypeOK, RegistryTypeOK

LEMMA OtherCalls ==
  ASSUME NEW c, NEW d, call'[d] = call[d]
  PROVE  SlotIn(d)' = SlotIn(d) /\ (Holding(d)' <=> Holding(d)) /\ (CallShape(d)' <=> CallShape(d))
  BY DEF SlotIn, Holding, CallShape

(* The next state of the call of a switch.                                 *)
LEMMA OwnCall ==
  ASSUME TypeOK, LocksInv, NEW c \in Callers, SwitchEffect(c)
  PROVE  /\ CallShape(c)' /\ (Holding(c)' <=> lock'[SlotIn(c)] = c)
         /\ Holding(c)' => SlotIn(c)' = SlotIn(c)
         /\ lock[SlotIn(c)] \in {NoCaller, c} /\ lock'[SlotIn(c)] \in {NoCaller, c}
         /\ ~Holding(c)' => call'[c] = NoCall /\ lock'[SlotIn(c)] = NoCaller
<1>1. CallShape(c) /\ (call[c].pc = "lock" \/ Holding(c)) /\ call[c].pc # "idle"
  BY DEF LocksInv, SwitchEffect, Holding
<1>2. lock[SlotIn(c)] \in {NoCaller, c}
  BY DEF LocksInv, SwitchEffect
<1>3. CASE call'[c] = NoCall /\ lock'[SlotIn(c)] = NoCaller
  <2>1. CallShape(c)' /\ ~Holding(c)'
    BY <1>3 DEF CallShape, Holding, NoCall
  <2> QED
    BY <1>2, <1>3, <2>1, Plain
<1>4. CASE ~(call'[c] = NoCall /\ lock'[SlotIn(c)] = NoCaller)
  <2>1. /\ call'[c].pc \in {"prepare", "migrate", "swap", "commit", "record", "retire"}
        /\ call'[c].mode = call[c].mode /\ call'[c].actor = call[c].actor
        /\ call'[c].was = call[c].was /\ call'[c].target = call[c].target
        /\ call'[c].pc = "record" => call[c].target # NoPlugin
        /\ lock'[SlotIn(c)] = c
    BY <1>4 DEF SwitchEffect, CallEffect
  <2>2. CallShape(c)' /\ Holding(c)' /\ SlotIn(c)' = SlotIn(c)
    BY <1>1, <2>1 DEF CallShape, Holding, SlotIn
  <2> QED
    BY <1>2, <2>1, <2>2
<1> QED
  BY <1>3, <1>4

LEMMA SwitchKeepsLocks ==
  ASSUME TypeOK, LocksInv, VettedInv, NEW c \in Callers, SwitchEffect(c)
  PROVE  LocksInv'
<1>0. /\ \A d \in Callers \ {c} : call'[d] = call[d]
      /\ \A s \in Slots \ {SlotIn(c)} : lock'[s] = lock[s]
      /\ lock' \in [Slots -> Callers \cup {NoCaller}]
  BY DEF SwitchEffect, SlotsEffect, CallEffect, OnlyCall
<1>1. SlotIn(c) \in Slots
  BY KnownVetted DEF SwitchEffect
<1>2. ASSUME NEW d \in Callers PROVE CallShape(d)'
  BY <1>0, OwnCall, OtherCalls DEF LocksInv
<1>3. ASSUME NEW d \in Callers, Holding(d)' PROVE lock'[SlotIn(d)'] = d
  <2>1. CASE d = c
    BY <1>3, <2>1, OwnCall
  <2>2. CASE d # c
    <3>1. Holding(d) /\ SlotIn(d)' = SlotIn(d) /\ lock[SlotIn(d)] = d
      BY <1>0, <1>3, <2>2, OtherCalls DEF LocksInv
    <3>2. SlotIn(d) \in Slots /\ SlotIn(d) # SlotIn(c)
      BY <2>2, <3>1, OwnCall, CallOf, Plain DEF Holding
    <3> QED
      BY <1>0, <3>1, <3>2
  <2> QED
    BY <2>1, <2>2
<1>4. ASSUME NEW s \in Slots, lock'[s] # NoCaller
      PROVE  Holding(lock[s])' /\ SlotIn(lock[s])' = s
  <2>1. CASE s = SlotIn(c)
    <3>1. lock'[s] = c /\ Holding(c)' /\ SlotIn(c)' = s
      BY <1>4, <2>1, OwnCall
    <3> QED
      BY <3>1 DEF Holding, SlotIn
  <2>2. CASE s # SlotIn(c)
    <3> DEFINE d == lock[s]
    <3>1. lock'[s] = d /\ d \in Callers /\ Holding(d) /\ SlotIn(d) = s
      BY <1>0, <1>4, <2>2, TypesOf DEF LocksInv
    <3>2. d # c
      BY <2>2, <3>1
    <3> HIDE DEF d
    <3>3. Holding(lock[s]) /\ SlotIn(lock[s]) = s /\ lock'[s] = lock[s]
          /\ call'[lock[s]] = call[lock[s]]
      BY <1>0, <3>1, <3>2 DEF d
    <3> QED
      BY <3>3 DEF Holding, SlotIn
  <2> QED
    BY <2>1, <2>2
<1>5. \A q \in Plugins : records'[q].active => Exists(q)'
  <2> SUFFICES ASSUME NEW q \in Plugins, records'[q].active PROVE Exists(q)'
    OBVIOUS
  <2>1. records'[q] # records[q] => Exists(q)
    BY DEF SwitchEffect, RecordsEffect
  <2>2. Exists(q)' <=> Exists(q)
    BY DEF SwitchEffect, RecordsEffect
  <2> QED
    BY <2>1, <2>2 DEF LocksInv
<1>6. up'
  BY DEF SwitchEffect
<1> QED
  BY <1>2, <1>3, <1>4, <1>5, <1>6 DEF LocksInv

LEMMA SwitchKeepsVetted ==
  ASSUME TypeOK, LocksInv, VettedInv, NEW c \in Callers, SwitchEffect(c)
  PROVE  VettedInv'
<1> DEFINE s == SlotIn(c)
<1>0. /\ UNCHANGED <<tested, pipe>> /\ s \in Slots
      /\ \A q \in Known(c) : Vetted(q, s)
      /\ \A d \in Callers \ {c} : call'[d] = call[d]
  BY KnownVetted DEF SwitchEffect, CallEffect, OnlyCall
<1>1. \A q, t : Vetted(q, t)' <=> Vetted(q, t)
  BY <1>0 DEF Vetted
<1>2. \A t \in Slots : Vetted(selection[t], t)' /\ Vetted(active[t], t)' /\ Vetted(serving[t], t)'
  <2> SUFFICES ASSUME NEW t \in Slots
               PROVE  Vetted(selection[t], t)' /\ Vetted(active[t], t)' /\ Vetted(serving[t], t)'
    OBVIOUS
  <2>1. CASE t = s
    BY <1>0, <2>1 DEF SwitchEffect, SlotsEffect, VettedInv, Vetted
  <2>2. CASE t # s
    BY <1>0, <2>2 DEF SwitchEffect, SlotsEffect, VettedInv, Vetted
  <2> QED
    BY <2>1, <2>2
<1>3. ASSUME NEW q \in Plugins
      PROVE  /\ records'[q].state \in Proven \/ records'[q].passed \/ records'[q].active => q \in tested'
             /\ Vetted(records[q].previous, SlotOf[q])'
             /\ pipe'[q].pc = "health" => q \in tested'
             /\ q \in tested' \/ pipe'[q].pc # "none" => records'[q].state # "none"
  <2>1. /\ records[q].state \in Proven \/ records[q].passed \/ records[q].active => q \in tested
        /\ Vetted(records[q].previous, SlotOf[q])
        /\ pipe[q].pc = "health" => q \in tested
        /\ q \in tested \/ pipe[q].pc # "none" => records[q].state # "none"
    BY DEF VettedInv
  <2>2. CASE records'[q] = records[q]
    BY <1>0, <2>1, <2>2 DEF Vetted
  <2>3. CASE records'[q] # records[q]
    <3>1. q \in Known(c) /\ Exists(q) /\ Exists(q)'
      BY <2>3 DEF SwitchEffect, RecordsEffect
    <3>2. q \in tested /\ SlotOf[q] = s
      BY <1>0, <3>1, Plain DEF Vetted
    <3>3. records'[q].previous \in {records[q].previous, NoPlugin, call[c].old}
      BY DEF SwitchEffect, RecordsEffect
    <3>4. Vetted(records'[q].previous, s)
      BY <1>0, <2>1, <3>2, <3>3 DEF Known, Vetted
    <3> QED
      BY <1>0, <3>1, <3>2, <3>4 DEF Vetted, Exists
  <2> QED
    BY <2>2, <2>3
<1>4. ASSUME NEW d \in Callers, call'[d].mode \in {"activate", "deactivate", "rollback"}
      PROVE  /\ call'[d].actor \in tested'
             /\ Vetted(call[d].target, SlotIn(d))' /\ Vetted(call[d].old, SlotIn(d))'
             /\ Vetted(call[d].replaced, SlotIn(d))'
  <2>1. CASE d # c
    BY <1>0, <1>4, <2>1, OtherCalls DEF VettedInv, Vetted
  <2>2. CASE d = c
    <3>1. call'[c] # NoCall
      BY <1>4, <2>2 DEF NoCall
    <3>2. /\ call'[c].actor = call[c].actor /\ call'[c].target = call[c].target
          /\ call'[c].old \in Known(c) /\ call'[c].replaced \in Known(c)
      BY <3>1 DEF SwitchEffect, CallEffect
    <3>3. SlotIn(c)' = s /\ call[c].actor \in tested
      BY <3>2, KnownVetted DEF SlotIn, SwitchEffect
    <3>4. call[c].target \in Known(c)
      BY DEF Known
    <3> QED
      BY <1>0, <2>2, <3>2, <3>3, <3>4 DEF Vetted
  <2> QED
    BY <2>1, <2>2
<1> QED
  BY <1>2, <1>3, <1>4 DEF VettedInv

LEMMA SwitchKeepsRecorded ==
  ASSUME TypeOK, LocksInv, VettedInv, Races => raced, ~raced, RecordedInv,
         NEW c \in Callers, SwitchEffect(c)
  PROVE  RecordedInv'
<1> DEFINE s == SlotIn(c)
<1>0. /\ UNCHANGED <<tested, pipe>> /\ s \in Slots
      /\ call[c].mode \in {"activate", "deactivate", "rollback"}
      /\ \A d \in Callers \ {c} : call'[d] = call[d]
      /\ \A q : Exists(q)' <=> Exists(q)
      /\ \A q \in Plugins : records'[q] # records[q] => q \in Known(c)
      /\ \A q \in Plugins : records'[q].previous \in {records[q].previous, NoPlugin, call[c].old}
      /\ call'[c] = NoCall \/
           /\ call'[c].mode = call[c].mode
           /\ call'[c].actor = call[c].actor /\ call'[c].target = call[c].target
           /\ call'[c].old \in Known(c) /\ call'[c].replaced \in Known(c)
           /\ Holding(c) \/ call[c].target = NoPlugin \/ Exists(call[c].target)
      /\ instances' \subseteq instances \cup {call[c].target}
      /\ instances' # instances => Holding(c)
  BY KnownVetted DEF SwitchEffect, CallEffect, OnlyCall, RecordsEffect
<1>1. \A q \in Plugins : pipe'[q].pc # "none" => Exists(q)'
  BY <1>0 DEF RecordedInv
<1>2. ASSUME NEW q \in Plugins, Busy(q)' PROVE Unknown(q)'
  <2>1. Unknown(q)
    BY <1>0, <1>2 DEF RecordedInv, Busy
  <2>2. q \notin Known(c)
    BY <1>0, <2>1, Plain DEF Unknown, Known
  <2>3. records'[q] = records[q]
    BY <1>0, <2>2
  <2>4. \A t \in Slots : selection'[t] # q /\ active'[t] # q /\ serving'[t] # q
    <3> SUFFICES ASSUME NEW t \in Slots PROVE selection'[t] # q /\ active'[t] # q /\ serving'[t] # q
      OBVIOUS
    <3>1. CASE t = s
      BY <2>1, <2>2, <3>1 DEF SwitchEffect, SlotsEffect, Unknown
    <3>2. CASE t # s
      BY <2>1, <3>2 DEF SwitchEffect, SlotsEffect, Unknown
    <3> QED
      BY <3>1, <3>2
  <2>5. \A o \in Plugins : records'[o].previous # q
    BY <1>0, <2>1, <2>2, Plain DEF Unknown, Known
  <2>6. ASSUME NEW d \in Callers, call'[d].mode # "delete"
        PROVE  q \notin {call'[d].actor, call'[d].target, call'[d].old, call'[d].replaced}
    <3>1. CASE d # c
      BY <1>0, <2>1, <2>6, <3>1 DEF Unknown
    <3>2. CASE d = c /\ call'[c] = NoCall
      BY <3>2, Plain DEF NoCall
    <3>3. CASE d = c /\ call'[c] # NoCall
      BY <1>0, <2>2, <3>3 DEF Known
    <3> QED
      BY <3>1, <3>2, <3>3
  <2> QED
    BY <2>1, <2>3, <2>4, <2>5, <2>6 DEF Unknown
<1>3. ASSUME NEW d \in Callers, Holding(d)', call'[d].target # NoPlugin
      PROVE  Exists(call[d].target)'
  <2>1. Exists(call'[d].target)
    <3>1. CASE d = c
      BY <1>0, <1>3, <3>1, OwnCall DEF RecordedInv, Holding, NoCall
    <3>2. CASE d # c
      BY <1>0, <1>3, <3>2, OtherCalls DEF RecordedInv
    <3> QED
      BY <3>1, <3>2
  <2>2. \A q \in Plugins : Exists(q) => records'[q].state \notin {"none", "deleted"}
    BY <1>0 DEF Exists
  <2> QED
    BY <2>1, <2>2 DEF Exists
<1>4. \A q \in instances' : Exists(q)'
  <2> SUFFICES ASSUME NEW q \in instances', q \notin instances PROVE Exists(q)
    BY <1>0 DEF RecordedInv
  <2>1. q = call[c].target /\ Holding(c) /\ q \in Plugins
    BY <1>0 DEF SwitchEffect
  <2> QED
    BY <2>1, Plain DEF RecordedInv
<1>5. ASSUME NEW d \in Callers, call'[d].mode = "delete"
      PROVE  /\ ~records'[call'[d].actor].active
             /\ call'[d].pc \in {"stop", "erase"} => ~RollbackTarget(call[d].actor)'
             /\ call'[d].pc = "erase" => call'[d].actor \notin instances'
  <2>1. d # c /\ call'[d] = call[d]
    BY <1>0, <1>5 DEF NoCall
  <2> DEFINE a == call[d].actor
  <2>2. a \in Plugins
    BY <1>5, <2>1, CallOf DEF LocksInv, CallShape, NoCall
  <2>3. a \notin {call[c].actor, call[c].target, call[c].old}
    BY <1>0, <1>5, <2>1 DEF Races, InUse
  <2>4. ~records[a].active
    BY <1>5, <2>1 DEF RecordedInv
  <2>5. ~records'[a].active
    BY <2>2, <2>3, <2>4 DEF SwitchEffect, RecordsEffect
  <2>6. ASSUME RollbackTarget(call[d].actor)' PROVE RollbackTarget(a)
    <3>1. PICK o \in Plugins : Exists(o)' /\ records'[o].active /\ records'[o].previous = a
      BY <2>1, <2>6 DEF RollbackTarget, Listed
    <3>2. records[o].active /\ records[o].previous = a
      BY <2>2, <2>3, <3>1, Plain DEF SwitchEffect, RecordsEffect
    <3> QED
      BY <1>0, <3>1, <3>2 DEF RollbackTarget, Listed
  <2>7. a \in instances' => a \in instances
    BY <1>0, <2>3
  <2> QED
    BY <1>5, <2>1, <2>5, <2>6, <2>7 DEF RecordedInv
<1> QED
  BY <1>1, <1>2, <1>3, <1>4, <1>5 DEF RecordedInv

(* What is left to show of a step of a switch is about its own slot.       *)
PlaceStep(c) ==
  LET s == SlotIn(c)
  IN  /\ ~Holding(c)' => selection'[s] = serving'[s] /\ selection'[s] = active'[s]
      /\ Holding(c)' => PlaceOf(c)'

FlagStep(c) ==
  LET s == SlotIn(c)
  IN  \A p \in Plugins : SlotOf[p] = s =>
        (records'[p].active <=>
           p \in IF ~Holding(c)' THEN {selection'[s]}
                 ELSE IF call'[c].pc = "retire" THEN {call'[c].old, call'[c].target}
                 ELSE {call'[c].old})

RunStep(c) ==
  /\ Hosted(serving'[SlotIn(c)]) \/ serving'[SlotIn(c)] \in instances'
  /\ Holding(c)' => Runs(call[c].old)' /\ (call'[c].pc # "prepare" => Runs(call[c].target)')

LEMMA SwitchPreserves ==
  ASSUME IInv, NEW c \in Callers, SwitchEffect(c), raced' = (raced \/ Races'),
         ~raced => PlaceStep(c), ~raced /\ ~torn => FlagStep(c),
         ~raced /\ ~torn /\ ~late => RunStep(c)
  PROVE  IInv'
<1> DEFINE s == SlotIn(c)
<1>1. TypeOK' /\ LocksInv' /\ VettedInv' /\ (Races' => raced')
  BY SwitchKeepsTypes, SwitchKeepsLocks, SwitchKeepsVetted DEF IInv
<1>2. /\ UNCHANGED <<up, torn, late>> /\ up /\ (~raced' => ~raced) /\ s \in Slots
      /\ \A t \in Slots \ {s} :
           /\ lock'[t] = lock[t] /\ selection'[t] = selection[t]
           /\ active'[t] = active[t] /\ serving'[t] = serving[t]
      /\ \A d \in Callers \ {c} : call'[d] = call[d]
  BY KnownVetted DEF IInv, SwitchEffect, SlotsEffect, CallEffect, OnlyCall
<1>3. /\ Holding(c)' => SlotIn(c)' = s /\ lock'[s] = c
      /\ ~Holding(c)' <=> lock'[s] = NoCaller
      /\ lock'[s] # NoCaller => Holding(c)'
  BY OwnCall, Plain DEF IInv
<1>4. \A d \in Callers \ {c} : Holding(d)' =>
        Holding(d) /\ SlotIn(d)' = SlotIn(d) /\ SlotIn(d) \in Slots \ {s}
  <2> SUFFICES ASSUME NEW d \in Callers \ {c}, Holding(d)'
               PROVE  Holding(d) /\ SlotIn(d)' = SlotIn(d) /\ SlotIn(d) \in Slots \ {s}
    OBVIOUS
  <2>1. Holding(d) /\ SlotIn(d)' = SlotIn(d)
    BY <1>2, OtherCalls
  <2>2. lock[SlotIn(d)] = d /\ lock[s] \in {NoCaller, c} /\ SlotIn(d) \in Slots
    BY <2>1, OwnCall, CallOf DEF IInv, LocksInv, Holding
  <2> QED
    BY <2>1, <2>2, Plain
<1>5. ~raced' => RecordedInv'
  BY <1>2, SwitchKeepsRecorded DEF IInv
<1>6. ASSUME ~raced' PROVE PlaceInv'
  <2>1. PlaceInv /\ PlaceStep(c)
    BY <1>2, <1>6 DEF IInv
  <2>2. ASSUME NEW t \in Slots, lock'[t] = NoCaller
        PROVE  selection'[t] = serving'[t] /\ selection'[t] = active'[t]
    <3>1. CASE t = s
      BY <1>3, <2>1, <2>2, <3>1 DEF PlaceStep
    <3>2. CASE t # s
      BY <1>2, <2>1, <2>2, <3>2 DEF PlaceInv
    <3> QED
      BY <3>1, <3>2
  <2>3. ASSUME NEW d \in Callers, Holding(d)' PROVE PlaceOf(d)'
    <3>1. CASE d = c
      BY <2>1, <2>3, <3>1 DEF PlaceStep
    <3>2. CASE d # c
      <4>1. PlaceOf(d) /\ call'[d] = call[d] /\ SlotIn(d)' = SlotIn(d) /\ SlotIn(d) \in Slots \ {s}
        BY <1>2, <1>4, <2>1, <2>3, <3>2 DEF PlaceInv
      <4> DEFINE t == SlotOf[call[d].actor]
      <4>2. t \in Slots \ {s} /\ SlotIn(d) = t /\ SlotIn(d)' = t
        BY <4>1 DEF SlotIn
      <4> QED
        BY <1>2, <4>1, <4>2 DEF PlaceOf
    <3> QED
      BY <3>1, <3>2
  <2> QED
    BY <2>2, <2>3 DEF PlaceInv
<1>7. ASSUME ~raced', ~torn' PROVE FlagInv'
  <2>1. FlagInv /\ FlagStep(c) /\ ~raced /\ ~torn
    BY <1>2, <1>7 DEF IInv
  <2>2. \A q \in Plugins : SlotOf[q] # s => records'[q] = records[q]
    <3> SUFFICES ASSUME NEW q \in Plugins, records'[q] # records[q] PROVE SlotOf[q] = s
      OBVIOUS
    <3>1. q \in Known(c)
      BY DEF SwitchEffect, RecordsEffect
    <3> QED
      BY <3>1, KnownVetted, Plain DEF IInv, Vetted, SwitchEffect
  <2>3. ASSUME NEW t \in Slots, lock'[t] = NoCaller PROVE Flagged(t, {selection[t]})'
    <3>1. CASE t = s
      BY <1>3, <2>1, <2>3, <3>1 DEF FlagStep, Flagged
    <3>2. CASE t # s
      BY <1>2, <2>1, <2>2, <2>3, <3>2 DEF FlagInv, Flagged
    <3> QED
      BY <3>1, <3>2
  <2>4. ASSUME NEW d \in Callers, Holding(d)'
        PROVE  Flagged(SlotIn(d), IF call[d].pc = "retire" THEN {call[d].old, call[d].target}
                                                          ELSE {call[d].old})'
    <3>1. CASE d = c
      BY <1>3, <2>1, <2>4, <3>1 DEF FlagStep, Flagged
    <3>2. CASE d # c
      <4>1. /\ Holding(d) /\ call'[d] = call[d] /\ SlotIn(d)' = SlotIn(d) /\ SlotIn(d) # s
        BY <1>2, <1>4, <2>4, <3>2
      <4>2. Flagged(SlotIn(d), IF call[d].pc = "retire" THEN {call[d].old, call[d].target}
                                                       ELSE {call[d].old})
        BY <2>1, <4>1 DEF FlagInv
      <4> QED
        BY <2>2, <4>1, <4>2 DEF Flagged
    <3> QED
      BY <3>1, <3>2
  <2>5. ASSUME NEW q \in Plugins, records'[q].active, records'[q].previous # NoPlugin
        PROVE  Exists(records'[q].previous)
    <3>1. CASE records[q].active /\ records'[q].previous = records[q].previous
      BY <2>1, <2>5, <3>1 DEF FlagInv
    <3>2. CASE Holding(c) /\ records'[q].previous = call[c].old
      <4>1. call[c].old \in Plugins /\ SlotOf[call[c].old] = s
        BY <2>5, <3>2, KnownVetted, Plain DEF IInv, Known, Vetted, SwitchEffect
      <4>2. records[call[c].old].active
        BY <2>1, <3>2, <4>1 DEF FlagInv, Flagged
      <4> QED
        BY <3>2, <4>1, <4>2 DEF IInv, LocksInv
    <3> QED
      BY <2>5, <3>1, <3>2 DEF SwitchEffect, RecordsEffect
  <2>6. \A q \in Plugins : Exists(q) => records'[q].state \notin {"none", "deleted"}
    BY DEF SwitchEffect, RecordsEffect, Exists
  <2>7. \A q \in Plugins : records'[q].active /\ records'[q].previous # NoPlugin =>
          Exists(records[q].previous)'
    BY <2>5, <2>6 DEF Exists
  <2> QED
    BY <2>3, <2>4, <2>7 DEF FlagInv
<1>8. ASSUME ~raced', ~torn', ~late' PROVE RunInv'
  <2>1. RunInv /\ RunStep(c) /\ instances \subseteq instances'
    BY <1>2, <1>8 DEF IInv, SwitchEffect
  <2>2. \A q : Runs(q) => Runs(q)'
    BY <2>1 DEF Runs
  <2>3. ASSUME NEW t \in Slots PROVE Runs(serving[t])'
    <3>1. CASE t = s
      BY <2>1, <3>1 DEF RunStep, Runs
    <3>2. CASE t # s
      BY <1>2, <2>1, <3>2 DEF RunInv, Runs
    <3> QED
      BY <3>1, <3>2
  <2>4. ASSUME NEW d \in Callers, Holding(d)'
        PROVE  Runs(call[d].old)' /\ (call'[d].pc # "prepare" => Runs(call[d].target)')
    <3>1. CASE d = c
      BY <2>1, <2>4, <3>1 DEF RunStep
    <3>2. CASE d # c
      BY <1>2, <1>4, <2>1, <2>4, <3>2 DEF RunInv, Runs
    <3> QED
      BY <3>1, <3>2
  <2> QED
    BY <1>2, <2>3, <2>4 DEF RunInv
<1> QED
  BY <1>1, <1>5, <1>6, <1>7, <1>8 DEF IInv

-------------------------------------------------------------------------------
(* Requests that hold no lock                                              *)

(* What becomes of the call of a request.                                  *)
OwnEffect(c) ==
  /\ OnlyCall(c) /\ ~Holding(c) /\ ~Holding(c)' /\ CallShape(c)'
  /\ call'[c].mode \in {"activate", "deactivate", "rollback"} =>
       /\ call'[c].actor \in tested /\ SlotOf[call'[c].actor] \in Slots
       /\ Vetted(call'[c].target, SlotOf[call'[c].actor])
       /\ call'[c].old = NoPlugin /\ call'[c].replaced = NoPlugin
       /\ ~raced => \A q \in Plugins : Busy(q) => q \notin {call'[c].actor, call'[c].target}
  /\ ~raced /\ call'[c].mode = "delete" =>
       /\ ~records[call'[c].actor].active
       /\ call'[c].pc \in {"stop", "erase"} => ~RollbackTarget(call'[c].actor)
       /\ call'[c].pc = "erase" => call'[c].actor \notin instances

(* A request begins, is refused, or checks something.                      *)
QuietEffect(c) ==
  /\ up /\ UNCHANGED <<registryVars, up, lock, active, serving, instances>>
  /\ UNCHANGED <<tested, torn, late>>
  /\ armed' \subseteq Plugins /\ stopping' \subseteq Plugins /\ spent' \in [Events -> Nat] /\ stale' \in BOOLEAN
  /\ pipe' \in [Plugins -> Pipe]
  /\ \A q \in Plugins : pipe'[q] = pipe[q] \/ pipe'[q] = NoPipe
  /\ UNCHANGED call \/ OwnEffect(c)

LEMMA QuietPreserves ==
  ASSUME IInv, NEW c \in Callers, QuietEffect(c), raced' = (raced \/ Races')
  PROVE  IInv'
<1>0. /\ TypeOK /\ LocksInv /\ VettedInv /\ up /\ UNCHANGED <<up, torn, late>> /\ (~raced' => ~raced)
      /\ UNCHANGED <<records, selection, lock, active, serving, instances, tested>>
      /\ call' \in [Callers -> Call]
      /\ \A d \in Callers : call'[d] # call[d] => d = c /\ OwnEffect(c)
      /\ \A q \in Plugins : pipe'[q] = pipe[q] \/ pipe'[q] = NoPipe
  BY TypesOf DEF IInv, QuietEffect, OwnEffect, OnlyCall, registryVars
<1>1. TypeOK'
  <2>1. Races' \in BOOLEAN
    BY DEF Races
  <2>2. raced' \in BOOLEAN
    BY <1>0, <2>1, TypesOf
  <2> QED
    BY <1>0, <2>2, TypesOf DEF QuietEffect, TypeOK, RegistryTypeOK
<1>2. \A d \in Callers : Holding(d)' =>
        Holding(d) /\ SlotIn(d)' = SlotIn(d) /\ call'[d] = call[d]
  BY <1>0, OtherCalls DEF OwnEffect
<1>3. LocksInv'
  <2>1. \A d \in Callers : CallShape(d)'
    BY <1>0, OtherCalls DEF LocksInv, OwnEffect
  <2>2. \A d \in Callers : Holding(d)' => lock'[SlotIn(d)'] = d
    BY <1>0, <1>2 DEF LocksInv
  <2>3. ASSUME NEW s \in Slots, lock'[s] # NoCaller
        PROVE  Holding(lock[s])' /\ SlotIn(lock[s])' = s
    <3>1. lock'[s] = lock[s] /\ Holding(lock[s]) /\ SlotIn(lock[s]) = s /\ lock[s] \in Callers
      BY <1>0, <2>3, TypesOf DEF LocksInv
    <3>2. call'[lock[s]] = call[lock[s]]
      BY <1>0, <3>1 DEF OwnEffect
    <3> QED
      BY <3>1, <3>2 DEF Holding, SlotIn
  <2>4. \A q \in Plugins : records'[q].active => Exists(q)'
    BY <1>0 DEF LocksInv, Exists
  <2> QED
    BY <1>0, <2>1, <2>2, <2>3, <2>4 DEF LocksInv
<1>4. VettedInv'
  <2>1. \A s \in Slots : Vetted(selection[s], s)' /\ Vetted(active[s], s)' /\ Vetted(serving[s], s)'
    BY <1>0 DEF VettedInv, Vetted
  <2>2. ASSUME NEW q \in Plugins
        PROVE  /\ records'[q].state \in Proven \/ records'[q].passed \/ records'[q].active => q \in tested'
               /\ Vetted(records[q].previous, SlotOf[q])'
               /\ pipe'[q].pc = "health" => q \in tested'
               /\ q \in tested' \/ pipe'[q].pc # "none" => records'[q].state # "none"
    BY <1>0 DEF VettedInv, Vetted, NoPipe
  <2>3. ASSUME NEW d \in Callers, call'[d].mode \in {"activate", "deactivate", "rollback"}
        PROVE  /\ call'[d].actor \in tested'
               /\ Vetted(call[d].target, SlotIn(d))' /\ Vetted(call[d].old, SlotIn(d))'
               /\ Vetted(call[d].replaced, SlotIn(d))'
    <3>1. CASE call'[d] = call[d]
      BY <1>0, <2>3, <3>1, OtherCalls DEF VettedInv, Vetted
    <3>2. CASE call'[d] # call[d]
      BY <1>0, <2>3, <3>2 DEF OwnEffect, Vetted, SlotIn
    <3> QED
      BY <3>1, <3>2
  <2> QED
    BY <2>1, <2>2, <2>3 DEF VettedInv
<1>5. ASSUME ~raced' PROVE RecordedInv'
  <2>0. RecordedInv /\ ~raced
    BY <1>0, <1>5 DEF IInv
  <2>e. \A q : Exists(q)' <=> Exists(q)
    BY <1>0 DEF Exists
  <2>1. \A q \in Plugins : pipe'[q].pc # "none" => Exists(q)'
    BY <1>0, <2>0, <2>e DEF RecordedInv, NoPipe
  <2>2. ASSUME NEW q \in Plugins, Busy(q)' PROVE Unknown(q)'
    <3>1. Busy(q) /\ Unknown(q)
      BY <1>0, <2>0, <2>2 DEF RecordedInv, Busy, NoPipe
    <3>2. ASSUME NEW d \in Callers, call'[d].mode # "delete"
          PROVE  q \notin {call'[d].actor, call'[d].target, call'[d].old, call'[d].replaced}
      <4>1. CASE call'[d] = call[d]
        BY <1>0, <3>1, <3>2, <4>1 DEF Unknown
      <4>2. CASE call'[d] # call[d] /\ call'[c].mode = "none"
        <5>1. d = c /\ call'[c] \in Call /\ CallShape(c)'
          BY <1>0, <4>2 DEF OwnEffect
        <5>2. call'[c] = NoCall
          BY <4>2, <5>1 DEF Call, CallShape, Holding
        <5> QED
          BY <4>2, <5>1, <5>2, Plain DEF NoCall
      <4>3. CASE call'[d] # call[d] /\ call'[c].mode # "none"
        <5>1. d = c /\ call'[c] \in Call /\ OwnEffect(c)
          BY <1>0, <4>3
        <5>2. call'[c].mode \in {"activate", "deactivate", "rollback"}
          BY <3>2, <4>3, <5>1 DEF Call
        <5> QED
          BY <2>0, <3>1, <4>3, <5>1, <5>2, Plain DEF OwnEffect
      <4> QED
        BY <4>1, <4>2, <4>3
    <3> QED
      BY <1>0, <3>1, <3>2 DEF Unknown
  <2>3. \A d \in Callers : Holding(d)' => call'[d].target = NoPlugin \/ Exists(call[d].target)'
    BY <1>0, <1>2, <2>0, <2>e DEF RecordedInv, Exists
  <2>4. \A q \in instances' : Exists(q)'
    BY <1>0, <2>0, <2>e DEF RecordedInv
  <2>5. ASSUME NEW d \in Callers, call'[d].mode = "delete"
        PROVE  /\ ~records'[call'[d].actor].active
               /\ call'[d].pc \in {"stop", "erase"} => ~RollbackTarget(call[d].actor)'
               /\ call'[d].pc = "erase" => call'[d].actor \notin instances'
    <3>1. \A q : RollbackTarget(q)' => RollbackTarget(q)
      BY <1>0 DEF RollbackTarget, Listed, Exists
    <3>2. RollbackTarget(call[d].actor)' => RollbackTarget(call'[d].actor)
      BY <1>0 DEF RollbackTarget, Listed, Exists
    <3>3. CASE call'[d] = call[d]
      BY <1>0, <2>0, <2>5, <3>2, <3>3 DEF RecordedInv
    <3>4. CASE call'[d] # call[d]
      BY <1>0, <2>0, <2>5, <3>2, <3>4 DEF OwnEffect
    <3> QED
      BY <3>3, <3>4
  <2> QED
    BY <2>1, <2>2, <2>3, <2>4, <2>5 DEF RecordedInv
<1>6. ASSUME ~raced' PROVE PlaceInv'
  <2>1. PlaceInv
    BY <1>0, <1>6 DEF IInv
  <2>2. ASSUME NEW d \in Callers, Holding(d)' PROVE PlaceOf(d)'
    <3>1. PlaceOf(d) /\ call'[d] = call[d]
      BY <1>0, <1>2, <2>1, <2>2 DEF PlaceInv
    <3> QED
      BY <1>0, <3>1 DEF PlaceOf, SlotIn
  <2> QED
    BY <1>0, <2>1, <2>2 DEF PlaceInv
<1>7. ASSUME ~raced', ~torn' PROVE FlagInv'
  <2>1. FlagInv
    BY <1>0, <1>7 DEF IInv
  <2>2. ASSUME NEW d \in Callers, Holding(d)'
        PROVE  Flagged(SlotIn(d), IF call[d].pc = "retire" THEN {call[d].old, call[d].target}
                                                          ELSE {call[d].old})'
    BY <1>0, <1>2, <2>1, <2>2 DEF FlagInv, Flagged
  <2>3. \A s \in Slots : lock'[s] = NoCaller => Flagged(s, {selection[s]})'
    BY <1>0, <2>1 DEF FlagInv, Flagged
  <2> QED
    BY <1>0, <2>1, <2>2, <2>3 DEF FlagInv, Exists
<1>8. ASSUME ~raced', ~torn', ~late' PROVE RunInv'
  BY <1>0, <1>2, <1>8 DEF IInv, RunInv, Runs
<1>9. Races' => raced'
  BY DEF IInv
<1> QED
  BY <1>0, <1>1, <1>3, <1>4, <1>5, <1>6, <1>7, <1>8, <1>9 DEF IInv

(* What a request reads of the record it is about.                         *)
LEMMA ReadIsQuiet ==
  ASSUME IInv, NEW c \in Callers, NEW mode \in {"activate", "deactivate", "rollback", "delete"},
         NEW p \in Plugins, NEW target, Read(c, mode, IF mode = "delete" THEN "list" ELSE "lock", p, target),
         spent' \in [Events -> Nat],
         pipe' \in [Plugins -> Pipe], \A q \in Plugins : pipe'[q] = pipe[q] \/ pipe'[q] = NoPipe,
         mode = "activate" => Activatable(p) /\ target = p,
         mode = "deactivate" => records[p].active /\ target = NoPlugin,
         mode = "rollback" => records[p].active /\ target = records[p].previous,
         mode = "delete" => ~records[p].active /\ target = NoPlugin
  PROVE  QuietEffect(c)
<1> DEFINE pc == IF mode = "delete" THEN "list" ELSE "lock"
           k == [NoCall EXCEPT !.pc = pc, !.mode = mode, !.actor = p,
                               !.was = records[p].state, !.target = target]
<1>0. /\ TypeOK /\ LocksInv /\ VettedInv /\ (~raced => RecordedInv)
      /\ up /\ call[c].pc = "idle" /\ Exists(p)
      /\ UNCHANGED <<registryVars, up, lock, active, serving, armed, stopping,
                     instances, tested, torn, stale, late>>
  BY DEF IInv, Read, Idle
<1>1. call' = [call EXCEPT ![c] = k]
  BY DEF Read
<1>2. records[p] \in Record /\ records[p].state \in States
  BY <1>0, TypesOf DEF Exists, Record
<1>3. target \in Impls
  BY <1>2, Plain DEF Record
<1>4. /\ k.pc = pc /\ k.mode = mode /\ k.actor = p /\ k.was = records[p].state
      /\ k.target = target /\ k.old = NoPlugin /\ k.replaced = NoPlugin
  BY DEF NoCall
<1>5. k \in Call
  BY <1>2, <1>3, Plain, ZenonT(60) DEF NoCall, Call
<1>6. pc \in {"list", "lock"} /\ (pc = "list" <=> mode = "delete")
  OBVIOUS
<1> HIDE DEF k, pc
<1>7. OnlyCall(c) /\ call'[c] = k
  BY <1>0, <1>1, <1>5, TypesOf DEF OnlyCall
<1>8. CallShape(c)' /\ ~Holding(c) /\ ~Holding(c)'
  BY <1>0, <1>2, <1>4, <1>6, <1>7 DEF CallShape, Holding
<1>9. mode # "delete" => /\ p \in tested /\ SlotOf[p] \in Slots /\ Vetted(target, SlotOf[p])
  <2>1. Activatable(p) => p \in tested
    BY DEF VettedInv, Proven, States, Activatable, IInv
  <2>2. records[p].active => p \in tested
    BY <1>0 DEF VettedInv
  <2> QED
    BY <1>0, <2>1, <2>2, Plain DEF VettedInv, Vetted
<1>10. ~raced /\ mode # "delete" => \A q \in Plugins : Busy(q) => q \notin {p, target}
  <2> SUFFICES ASSUME ~raced, mode # "delete", NEW q \in Plugins, Busy(q) PROVE q \notin {p, target}
    OBVIOUS
  <2>1. Unknown(q)
    BY <1>0 DEF RecordedInv
  <2>2. Activatable(q) => FALSE
    BY <2>1 DEF Activatable, Unknown, InProgress
  <2>3. p # q
    BY <2>1, <2>2 DEF Unknown
  <2>4. target # q
    BY <2>1, <2>3, Plain DEF Unknown
  <2> QED
    BY <2>3, <2>4
<1> QED
  BY <1>0, <1>4, <1>6, <1>7, <1>8, <1>9, <1>10, TypesOf DEF QuietEffect, OwnEffect

LEMMA ReadSteps ==
  ASSUME IInv, NEW c \in Callers, NEW p \in Plugins,
         \/ Activate(c, p) \/ Deactivate(c, p) \/ Rollback(c, p) \/ Delete(c, p)
         \/ AutoActivate(p) /\ c = p
  PROVE  QuietEffect(c)
<1>0. TypeOK /\ LocksInv /\ VettedInv /\ "request" \in Events
  BY DEF IInv, Events
<1>1. CASE Activate(c, p)
  <2>1. /\ UNCHANGED pipe /\ Activatable(p) /\ Read(c, "activate", "lock", p, p)
        /\ spent' \in [Events -> Nat] /\ pipe \in [Plugins -> Pipe]
    BY <1>0, <1>1, Spending, TypesOf DEF Activate, ReadActivate
  <2> QED
    BY <2>1, ReadIsQuiet
<1>2. CASE Deactivate(c, p)
  <2>1. /\ UNCHANGED pipe /\ records[p].active /\ Read(c, "deactivate", "lock", p, NoPlugin)
        /\ spent' \in [Events -> Nat] /\ pipe \in [Plugins -> Pipe]
    BY <1>0, <1>2, Spending, TypesOf DEF Deactivate
  <2> QED
    BY <2>1, ReadIsQuiet
<1>3. CASE Rollback(c, p)
  <2>1. /\ UNCHANGED pipe /\ records[p].active /\ Read(c, "rollback", "lock", p, records[p].previous)
        /\ spent' \in [Events -> Nat] /\ pipe \in [Plugins -> Pipe]
    BY <1>0, <1>3, Spending, TypesOf DEF Rollback
  <2> QED
    BY <2>1, ReadIsQuiet
<1>4. CASE Delete(c, p)
  <2>1. /\ UNCHANGED pipe /\ ~records[p].active /\ Read(c, "delete", "list", p, NoPlugin)
        /\ spent' \in [Events -> Nat] /\ pipe \in [Plugins -> Pipe]
    BY <1>0, <1>4, Spending, TypesOf DEF Delete
  <2> QED
    BY <2>1, ReadIsQuiet
<1>5. CASE AutoActivate(p) /\ c = p
  <2>1. /\ Answered /\ pipe' = [pipe EXCEPT ![p] = NoPipe] /\ spent' \in [Events -> Nat]
        /\ pipe \in [Plugins -> Pipe]
    BY <1>0, <1>5, Spending, TypesOf DEF AutoActivate
  <2>2. /\ pipe' \in [Plugins -> Pipe] /\ \A q \in Plugins : pipe'[q] = pipe[q] \/ pipe'[q] = NoPipe
    BY <2>1 DEF NoPipe, Pipe
  <2>3. CASE ReadActivate(p, p)
    <3>1. Activatable(p) /\ Read(c, "activate", "lock", p, p)
      BY <1>5, <2>3 DEF ReadActivate
    <3> QED
      BY <2>1, <2>2, <3>1, ReadIsQuiet
  <2>4. CASE UNCHANGED <<registryVars, up, call, lock, active, serving, armed,
                         stopping, instances, tested, torn, stale, late>>
    BY <1>0, <1>5, <2>1, <2>2, <2>4, TypesOf DEF QuietEffect, AutoActivate, At
  <2> QED
    BY <1>5, <2>3, <2>4 DEF AutoActivate
<1> QED
  BY <1>1, <1>2, <1>3, <1>4, <1>5

LEMMA LockRefused ==
  ASSUME IInv, NEW c \in Callers, Lock(c), Return(c), UNCHANGED <<records, lock, stale>>
  PROVE  QuietEffect(c)
<1>0. TypeOK /\ LocksInv
  BY DEF IInv
<1>1. /\ up /\ call[c].pc = "lock"
      /\ UNCHANGED <<selection, active, serving, armed, instances, spent, late>>
      /\ UNCHANGED <<up, pipe, stopping, tested, torn>>
  BY DEF Lock, In, CallUnchanged
<1>2. OnlyCall(c) /\ call'[c] = NoCall
  BY <1>0, TypesOf, ReturnOnly
<1>3. OwnEffect(c)
  BY <1>1, <1>2 DEF OwnEffect, Holding, CallShape, NoCall
<1> QED
  BY <1>0, <1>1, <1>3, TypesOf DEF QuietEffect, registryVars

LEMMA TargetsChecked ==
  ASSUME IInv, NEW c \in Callers, CheckTargets(c)
  PROVE  QuietEffect(c)
<1>0. TypeOK /\ LocksInv /\ (~raced => RecordedInv)
  BY DEF IInv
<1>1. /\ up /\ call[c].pc = "list" /\ UNCHANGED <<records, armed, instances>>
      /\ UNCHANGED <<selection, lock, active, serving, spent, late, stale>>
      /\ UNCHANGED <<up, pipe, stopping, tested, torn>>
  BY DEF CheckTargets, In, DeleteUnchanged, SwitchUnchanged, CallUnchanged
<1>2. call[c].mode = "delete" /\ ~Holding(c) /\ CallShape(c)
  BY <1>0, <1>1 DEF LocksInv, CallShape, Holding
<1>3. CASE RollbackTarget(call[c].actor)
  <2>1. OnlyCall(c) /\ call'[c] = NoCall
    BY <1>0, <1>3, TypesOf, ReturnOnly DEF CheckTargets
  <2>2. OwnEffect(c)
    BY <1>2, <2>1 DEF OwnEffect, Holding, CallShape, NoCall
  <2> QED
    BY <1>0, <1>1, <2>2, TypesOf DEF QuietEffect, registryVars
<1>4. CASE ~RollbackTarget(call[c].actor)
  <2>1. SameCallAt(c, "stop")
    BY <1>0, <1>4, TypesOf, GotoOnly DEF CheckTargets, Steps1
  <2>2. OwnEffect(c)
    BY <1>0, <1>1, <1>2, <1>4, <2>1 DEF OwnEffect, Holding, CallShape, SameCallAt, RecordedInv
  <2> QED
    BY <1>0, <1>1, <2>2, TypesOf DEF QuietEffect, registryVars
<1> QED
  BY <1>3, <1>4

-------------------------------------------------------------------------------
(* The steps of a switch                                                   *)

SwitchStep(c) ==
  /\ SwitchEffect(c)
  /\ ~raced => PlaceStep(c)
  /\ ~raced /\ ~torn => FlagStep(c)
  /\ ~raced /\ ~torn /\ ~late => RunStep(c)

SameFlags == \A p \in Plugins : records'[p].active = records[p].active

LEMMA StateIsEffect ==
  ASSUME NEW c, call[c].actor \in Plugins, NEW sts, StateAmong(call[c].actor, sts)
  PROVE  RecordsEffect(c) /\ SameFlags
<1>1. \A q \in Plugins : /\ records'[q].active = records[q].active
                         /\ records'[q].previous = records[q].previous
  BY DEF StateAmong, OnlyRecord
<1>2. \A q \in Plugins : records'[q] # records[q] => q = call[c].actor /\ Exists(q)
  BY DEF StateAmong, OnlyRecord
<1> QED
  BY <1>1, <1>2 DEF RecordsEffect, SameFlags, StateAmong, OnlyRecord, Known

(* What holds of a call that has locked its slot.                          *)
LEMMA HoldingFacts ==
  ASSUME IInv, NEW c \in Callers, Holding(c)
  PROVE  /\ TypeOK /\ LocksInv /\ VettedInv /\ CallShape(c) /\ lock[SlotIn(c)] = c
         /\ call[c].actor \in Plugins /\ call[c].was \in States /\ SlotIn(c) \in Slots
         /\ call[c].mode \in {"activate", "deactivate", "rollback"}
         /\ call[c].target \in Impls /\ call[c].old \in Impls /\ call[c].replaced \in Impls
         /\ ~raced => call[c].target = NoPlugin \/ Exists(call[c].target)
         /\ ~raced /\ up => PlaceOf(c)
         /\ ~raced /\ ~torn => Flagged(SlotIn(c), IF call[c].pc = "retire"
                                                    THEN {call[c].old, call[c].target}
                                                    ELSE {call[c].old})
         /\ ~raced /\ ~torn /\ ~late /\ up =>
              Runs(call[c].old) /\ (call[c].pc # "prepare" => Runs(call[c].target))
<1>1. call[c].pc # "idle" /\ TypeOK /\ LocksInv
  BY DEF Holding, IInv
<1>2. /\ call[c].actor \in Plugins /\ call[c].was \in States /\ SlotIn(c) \in Slots
      /\ call[c].target \in Impls /\ call[c].old \in Impls /\ call[c].replaced \in Impls
  BY <1>1, CallOf
<1>3. CallShape(c) /\ lock[SlotIn(c)] = c
      /\ call[c].mode \in {"activate", "deactivate", "rollback"}
  BY <1>1 DEF LocksInv, CallShape
<1> QED
  BY <1>1, <1>2, <1>3 DEF IInv, RecordedInv, PlaceInv, FlagInv, RunInv

LEMMA LockGranted ==
  ASSUME IInv, NEW c \in Callers, Lock(c), lock[SlotIn(c)] = NoCaller, Locking(c)
  PROVE  SwitchStep(c)
<1> DEFINE s == SlotIn(c)
           k == [call[c] EXCEPT !.pc = "prepare", !.old = active[s]]
<1>0. TypeOK /\ LocksInv /\ VettedInv /\ (~raced => PlaceInv) /\ (~raced /\ ~torn => FlagInv)
      /\ (~raced /\ ~torn /\ ~late => RunInv)
  BY DEF IInv
<1>1. /\ up /\ call[c].pc = "lock" /\ records' = FirstState(c) /\ lock' = [lock EXCEPT ![s] = c]
      /\ call' = [call EXCEPT ![c] = k] /\ stale' \in BOOLEAN
      /\ UNCHANGED <<selection, active, serving, armed, instances, spent, late>>
      /\ UNCHANGED <<up, pipe, stopping, tested, torn>>
  BY <1>0, TypesOf DEF Lock, In, CallUnchanged
<1>2. /\ s \in Slots /\ call[c].actor \in Plugins
      /\ call[c].mode \in {"activate", "deactivate", "rollback"} /\ CallShape(c) /\ ~Holding(c)
  BY <1>0, <1>1, KnownVetted DEF LocksInv, Holding
<1>3. active[s] \in Impls /\ call[c] \in Call
  BY <1>0, <1>2, TypesOf
<1>4. /\ k \in Call /\ k.pc = "prepare" /\ k.old = active[s] /\ k.mode = call[c].mode
      /\ k.actor = call[c].actor /\ k.was = call[c].was /\ k.target = call[c].target
      /\ k.replaced = call[c].replaced
  BY <1>3 DEF Call
<1> HIDE DEF k
<1>5. OnlyCall(c) /\ call'[c] = k
  BY <1>0, <1>1, <1>4, TypesOf DEF OnlyCall
<1>6. RecordsEffect(c) /\ SameFlags
  <2>1. StateAmong(call[c].actor, {"checking", "rolling_back"})
    <3>1. records' \in {records, Marked(call[c].actor, "checking"), Marked(call[c].actor, "rolling_back")}
      BY <1>1, <1>2, WalkedTo DEF FirstState
    <3>2. "checking" \in States /\ "rolling_back" \in States
      BY DEF States, InProgress
    <3> QED
      BY <1>0, <3>1, <3>2, TypesOf, SameRecords, MarkedAmong
  <2> QED
    BY <1>2, <2>1, StateIsEffect
<1>7. call[c].target = NoPlugin \/ Exists(call[c].target)
  BY <1>2 DEF Locking, CallShape, CanWalk
<1>8. lock' \in [Slots -> Callers \cup {NoCaller}] /\ lock'[s] = c
      /\ \A t \in Slots \ {s} : lock'[t] = lock[t]
  BY <1>0, <1>1, <1>2, TypesOf
<1>9. CallEffect(c)
  BY <1>4, <1>5, <1>7, <1>8 DEF CallEffect, Known
<1>10. SlotsEffect(c)
  BY <1>0, <1>1, <1>2, <1>8, TypesOf DEF SlotsEffect, Known
<1>11. SwitchEffect(c)
  BY <1>0, <1>1, <1>6, <1>9, <1>10, TypesOf DEF SwitchEffect
<1>12. Holding(c)' /\ SlotIn(c)' = s
  BY <1>4, <1>5 DEF Holding, SlotIn
<1>13. ~raced => PlaceStep(c)
  BY <1>0, <1>1, <1>2, <1>4, <1>5, <1>12 DEF PlaceStep, PlaceOf, PlaceInv
<1>14. ~raced /\ ~torn => FlagStep(c)
  BY <1>0, <1>1, <1>2, <1>4, <1>5, <1>6, <1>12 DEF FlagStep, FlagInv, Flagged, PlaceInv, SameFlags
<1>15. ~raced /\ ~torn /\ ~late => RunStep(c)
  BY <1>0, <1>1, <1>2, <1>4, <1>5, <1>12 DEF RunStep, RunInv, Runs, PlaceInv
<1> QED
  BY <1>11, <1>13, <1>14, <1>15 DEF SwitchStep

(* A switch gives up while the slot still has its old plugin, or goes back *)
(* to it.                                                                  *)
LEMMA GivingUp ==
  ASSUME IInv, NEW c \in Callers, Holding(c), call[c].pc # "retire", NEW cause, GiveUp(c, cause),
         up, UNCHANGED <<selection, active, armed, late>>, SwitchUnchanged,
         spent' \in [Events -> Nat], instances \subseteq instances',
         instances' \subseteq instances \cup {call[c].target}, instances' \subseteq Plugins,
         \/ call[c].pc \notin {"commit", "record"} /\ UNCHANGED serving
         \/ /\ call[c].pc \in {"commit", "record"}
            /\ serving' = [serving EXCEPT ![SlotIn(c)] = call[c].replaced],
         ~raced => call[c].pc # "record"
  PROVE  SwitchStep(c)
<1> DEFINE s == SlotIn(c)
<1>0. /\ TypeOK /\ LocksInv /\ VettedInv /\ CallShape(c) /\ lock[s] = c
      /\ call[c].actor \in Plugins /\ call[c].was \in States /\ s \in Slots
      /\ ~raced => PlaceOf(c)
      /\ ~raced /\ ~torn => Flagged(s, {call[c].old})
      /\ ~raced /\ ~torn /\ ~late => Runs(call[c].old)
  BY HoldingFacts
<1>1. /\ records' = Marked(call[c].actor, StateAfter(c, cause)) /\ Return(c)
      /\ lock' = [lock EXCEPT ![s] = NoCaller]
      /\ UNCHANGED <<up, pipe, stopping, tested, torn, stale>>
  BY DEF GiveUp, SwitchUnchanged, CallUnchanged
<1>2. StateAfter(c, cause) \in States
  BY <1>0 DEF StateAfter, States
<1>3. RecordsEffect(c) /\ SameFlags
  <2>1. StateAmong(call[c].actor, {StateAfter(c, cause)})
    BY <1>0, <1>1, <1>2, TypesOf, MarkedAmong
  <2> QED
    BY <1>0, <2>1, StateIsEffect
<1>4. OnlyCall(c) /\ call'[c] = NoCall
  BY <1>0, <1>1, TypesOf, ReturnOnly
<1>5. lock' \in [Slots -> Callers \cup {NoCaller}] /\ lock'[s] = NoCaller
      /\ \A t \in Slots \ {s} : lock'[t] = lock[t]
  BY <1>0, <1>1, TypesOf
<1>6. CallEffect(c)
  BY <1>4, <1>5 DEF CallEffect
<1>7. /\ serving' \in [Slots -> Impls] /\ \A t \in Slots \ {s} : serving'[t] = serving[t]
      /\ serving'[s] \in Known(c)
      /\ ~raced => serving'[s] = call[c].old
  <2>1. CASE UNCHANGED serving /\ call[c].pc \notin {"commit", "record"}
    BY <1>0, <2>1, TypesOf DEF Known, PlaceOf, Holding
  <2>2. CASE /\ call[c].pc \in {"commit", "record"}
             /\ serving' = [serving EXCEPT ![s] = call[c].replaced]
    BY <1>0, <2>2, TypesOf, HoldingFacts DEF Known, PlaceOf
  <2> QED
    BY <2>1, <2>2
<1>8. SlotsEffect(c)
  BY <1>0, <1>5, <1>7, TypesOf DEF SlotsEffect, Known
<1>9. SwitchEffect(c)
  BY <1>0, <1>1, <1>3, <1>6, <1>8, TypesOf DEF SwitchEffect
<1>10. ~Holding(c)'
  BY <1>4 DEF Holding, NoCall
<1>11. ~raced => active'[s] = call[c].old /\ selection'[s] = call[c].old
  BY <1>0 DEF PlaceOf, Holding
<1>12. ~raced => PlaceStep(c)
  BY <1>7, <1>10, <1>11 DEF PlaceStep
<1>13. ~raced /\ ~torn => FlagStep(c)
  BY <1>0, <1>3, <1>10, <1>11 DEF FlagStep, Flagged, SameFlags
<1>14. ~raced /\ ~torn /\ ~late => RunStep(c)
  BY <1>0, <1>7, <1>10 DEF RunStep, Runs, Hosted
<1> QED
  BY <1>9, <1>12, <1>13, <1>14 DEF SwitchStep

(* A switch goes on to its next step.                                      *)
LEMMA GoingOn ==
  ASSUME IInv, NEW c \in Callers, Holding(c), NEW pc, SameCallAt(c, pc), call'[c].old = call[c].old,
         call'[c].replaced \in Known(c),
         pc \in {"migrate", "swap", "commit", "record", "retire"},
         pc = "record" => call[c].target # NoPlugin,
         up, UNCHANGED <<active, armed, lock, late>>, SwitchUnchanged,
         spent' \in [Events -> Nat], instances \subseteq instances',
         instances' \subseteq instances \cup {call[c].target}, instances' \subseteq Plugins,
         RecordsEffect(c), SlotsEffect(c),
         ~raced => PlaceStep(c), ~raced /\ ~torn => FlagStep(c),
         call[c].pc # "prepare" \/ Runs(call[c].target)',
         ~raced => serving'[SlotIn(c)] \in {call[c].old, call[c].target}
  PROVE  SwitchStep(c)
<1> DEFINE s == SlotIn(c)
<1>0. /\ TypeOK /\ lock[s] = c
      /\ ~raced /\ ~torn /\ ~late => Runs(call[c].old) /\ (call[c].pc # "prepare" => Runs(call[c].target))
  BY HoldingFacts
<1>1. CallEffect(c)
  BY <1>0 DEF CallEffect, SameCallAt, Known
<1>2. SwitchEffect(c)
  BY <1>0, <1>1, TypesOf DEF SwitchEffect, SwitchUnchanged, CallUnchanged
<1>3. \A q : Runs(q) => Hosted(q) \/ q \in instances'
  BY DEF Runs
<1>4. call'[c].target = call[c].target
  BY DEF SameCallAt
<1>5. ~raced /\ ~torn /\ ~late => RunStep(c)
  BY <1>0, <1>3, <1>4 DEF RunStep, Runs, Hosted
<1> QED
  BY <1>2, <1>5 DEF SwitchStep

LEMMA SlotsSame ==
  ASSUME TypeOK, NEW c, UNCHANGED <<lock, selection, active, serving>>,
         serving[SlotIn(c)] \in Known(c), active[SlotIn(c)] \in Known(c)
  PROVE  SlotsEffect(c)
  BY TypesOf DEF SlotsEffect

(* The flags of a slot, when neither they nor the old plugin change.       *)
LEMMA SameFlagStep ==
  ASSUME NEW c, Holding(c)', SlotIn(c)' = SlotIn(c), SameFlags, call'[c].old = call[c].old,
         Flagged(SlotIn(c), {call[c].old}), call'[c].pc = "retire" => call'[c].target = NoPlugin
  PROVE  FlagStep(c)
  BY Plain DEF FlagStep, SameFlags, Flagged

LEMMA PrepareTargetStep ==
  ASSUME IInv, NEW c \in Callers, PrepareTarget(c)
  PROVE  SwitchStep(c)
<1>0. /\ up /\ call[c].pc = "prepare" /\ Holding(c) /\ UNCHANGED <<selection, active, serving, armed, late>>
      /\ SwitchUnchanged
  BY DEF PrepareTarget, In, Holding
<1>1. /\ TypeOK /\ LocksInv /\ VettedInv /\ CallShape(c) /\ call[c].target \in Impls
      /\ call[c].actor \in Plugins /\ (~raced => PlaceOf(c))
      /\ ~raced /\ ~torn => Flagged(SlotIn(c), {call[c].old})
  BY <1>0, HoldingFacts
<1>2. instances \subseteq Plugins
  BY <1>1, TypesOf
<1>3. /\ instances \subseteq WithInstance(call[c].target) /\ WithInstance(call[c].target) \subseteq Plugins
      /\ WithInstance(call[c].target) \subseteq instances \cup {call[c].target}
      /\ Hosted(call[c].target) \/ call[c].target \in WithInstance(call[c].target)
  BY <1>1, <1>2, Plain DEF WithInstance, Hosted
<1>4. CASE EnsureInstance(call[c].target) /\ Goto(c, "migrate") /\ UNCHANGED <<records, lock>>
  <2>1. SameCallAt(c, "migrate") /\ call'[c].old = call[c].old /\ call'[c].replaced = call[c].replaced
    BY <1>1, <1>4, TypesOf, GotoOnly DEF Steps1
  <2>2. Holding(c)' /\ SlotIn(c)' = SlotIn(c)
    BY <2>1 DEF Holding, SameCallAt, SlotIn
  <2>3. RecordsEffect(c) /\ SameFlags
    BY <1>1, <1>4, TypesOf, SameRecords, StateIsEffect
  <2>4. SlotsEffect(c)
    BY <1>0, <1>1, <1>4, SlotsSame DEF Known
  <2>5. spent' \in [Events -> Nat] /\ instances' = WithInstance(call[c].target)
    BY <1>1, <1>4, Spending DEF EnsureInstance
  <2>6. ~raced => PlaceStep(c)
    BY <1>0, <1>1, <2>1, <2>2 DEF PlaceStep, PlaceOf, SameCallAt
  <2>7. ~raced /\ ~torn => FlagStep(c)
    BY <1>1, <2>1, <2>2, <2>3, SameFlagStep DEF SameCallAt
  <2>8. Runs(call[c].target)'
    BY <1>3, <2>1, <2>5 DEF Runs, SameCallAt, Hosted
  <2>9. ~raced => serving'[SlotIn(c)] \in {call[c].old, call[c].target}
    BY <1>0, <1>1 DEF PlaceOf
  <2>10. call'[c].replaced \in Known(c)
    BY <2>1 DEF Known
  <2> QED
    BY <1>0, <1>3, <1>4, <2>1, <2>3, <2>4, <2>5, <2>6, <2>7, <2>8, <2>9, <2>10, GoingOn
<1>5. CASE EnsureInstance(call[c].target) /\ GiveUp(c, "requirement")
  <2>1. spent' \in [Events -> Nat] /\ instances' = WithInstance(call[c].target)
    BY <1>1, <1>5, Spending DEF EnsureInstance
  <2> QED
    BY <1>0, <1>3, <1>5, <2>1, GivingUp
<1>6. CASE StartFails(call[c].target) /\ GiveUp(c, "error")
  <2>1. spent' \in [Events -> Nat] /\ (instances' = WithInstance(call[c].target) \/ UNCHANGED instances)
    BY <1>1, <1>6, Spending DEF StartFails
  <2> QED
    BY <1>0, <1>2, <1>3, <1>6, <2>1, GivingUp
<1>7. CASE Refused("health") /\ instances' = WithInstance(call[c].target) /\ GiveUp(c, "error")
  <2>1. spent' \in [Events -> Nat]
    BY <1>1, <1>7, Spending
  <2> QED
    BY <1>0, <1>3, <1>7, <2>1, GivingUp
<1> QED
  BY <1>4, <1>5, <1>6, <1>7 DEF PrepareTarget

LEMMA MigrateStep ==
  ASSUME IInv, NEW c \in Callers, Migrate(c)
  PROVE  SwitchStep(c)
<1>0. /\ up /\ call[c].pc = "migrate" /\ Holding(c) /\ SwitchUnchanged
      /\ UNCHANGED <<selection, active, serving, armed, instances, late>>
  BY DEF Migrate, In, Holding
<1>1. /\ TypeOK /\ LocksInv /\ VettedInv /\ CallShape(c) /\ call[c].target \in Impls
      /\ call[c].actor \in Plugins /\ (~raced => PlaceOf(c))
      /\ ~raced /\ ~torn => Flagged(SlotIn(c), {call[c].old})
  BY <1>0, HoldingFacts
<1>2. spent' \in [Events -> Nat] /\ instances' \subseteq Plugins
  BY <1>0, <1>1, Spending, TypesOf DEF Migrate
<1>3. CASE records' \in {records, Tried(call[c].actor, "migrating")} /\ Goto(c, "swap") /\ UNCHANGED lock
  <2>1. SameCallAt(c, "swap") /\ call'[c].old = call[c].old /\ call'[c].replaced = call[c].replaced
    BY <1>1, <1>3, TypesOf, GotoOnly DEF Steps1
  <2>2. Holding(c)' /\ SlotIn(c)' = SlotIn(c)
    BY <2>1 DEF Holding, SameCallAt, SlotIn
  <2>3. RecordsEffect(c) /\ SameFlags
    <3>1. StateAmong(call[c].actor, {"migrating"})
      BY <1>1, <1>3, TypesOf, SameRecords, TriedAmong DEF States, InProgress
    <3> QED
      BY <1>1, <3>1, StateIsEffect
  <2>4. SlotsEffect(c)
    BY <1>0, <1>1, <1>3, SlotsSame DEF Known
  <2>6. ~raced => PlaceStep(c)
    BY <1>0, <1>1, <2>1, <2>2 DEF PlaceStep, PlaceOf, SameCallAt
  <2>7. ~raced /\ ~torn => FlagStep(c)
    BY <1>1, <2>1, <2>2, <2>3, SameFlagStep DEF SameCallAt
  <2>9. ~raced => serving'[SlotIn(c)] \in {call[c].old, call[c].target}
    BY <1>0, <1>1 DEF PlaceOf
  <2>10. call'[c].replaced \in Known(c)
    BY <2>1 DEF Known
  <2> QED
    BY <1>0, <1>2, <1>3, <2>1, <2>3, <2>4, <2>6, <2>7, <2>9, <2>10, GoingOn
<1>4. CASE GiveUp(c, "error")
  BY <1>0, <1>2, <1>4, GivingUp
<1> QED
  BY <1>3, <1>4 DEF Migrate

LEMMA SwapStep ==
  ASSUME IInv, NEW c \in Callers, Swap(c)
  PROVE  SwitchStep(c)
<1> DEFINE s == SlotIn(c)
           k == [call[c] EXCEPT !.pc = "commit", !.replaced = serving[s]]
<1>0. /\ up /\ call[c].pc = "swap" /\ Holding(c) /\ SwitchUnchanged
      /\ UNCHANGED <<selection, active, armed, instances, late>>
  BY DEF Swap, In, Holding
<1>1. /\ TypeOK /\ LocksInv /\ VettedInv /\ CallShape(c) /\ call[c].target \in Impls
      /\ call[c].actor \in Plugins /\ s \in Slots /\ (~raced => PlaceOf(c))
      /\ ~raced /\ ~torn => Flagged(SlotIn(c), {call[c].old})
  BY <1>0, HoldingFacts
<1>2. spent' \in [Events -> Nat] /\ instances' \subseteq Plugins
  BY <1>0, <1>1, Spending, TypesOf DEF Swap
<1>3. CASE /\ serving' = [serving EXCEPT ![s] = call[c].target]
           /\ records' \in {records, Tried(call[c].actor, "activating")}
           /\ call' = [call EXCEPT ![c] = k]
           /\ UNCHANGED lock
  <2>0. serving[s] \in Impls /\ call[c] \in Call
    BY <1>1, TypesOf
  <2>1. /\ k \in Call /\ k.pc = "commit" /\ k.old = call[c].old /\ k.mode = call[c].mode
        /\ k.actor = call[c].actor /\ k.was = call[c].was /\ k.target = call[c].target
        /\ k.replaced = serving[s]
    BY <2>0 DEF Call
  <2> HIDE DEF k
  <2>2. OnlyCall(c) /\ call'[c] = k
    BY <1>1, <1>3, <2>1, TypesOf DEF OnlyCall
  <2>3. SameCallAt(c, "commit") /\ Holding(c)' /\ SlotIn(c)' = s
    BY <2>1, <2>2 DEF SameCallAt, Holding, SlotIn
  <2>4. RecordsEffect(c) /\ SameFlags
    <3>1. StateAmong(call[c].actor, {"activating"})
      BY <1>1, <1>3, TypesOf, SameRecords, TriedAmong DEF States, InProgress
    <3> QED
      BY <1>1, <3>1, StateIsEffect
  <2>5. /\ serving' \in [Slots -> Impls] /\ serving'[s] = call[c].target
        /\ \A t \in Slots \ {s} : serving'[t] = serving[t]
    BY <1>1, <1>3, TypesOf
  <2>6. SlotsEffect(c)
    BY <1>0, <1>1, <1>3, <2>5, TypesOf DEF SlotsEffect, Known
  <2>7. ~raced => PlaceStep(c)
    BY <1>0, <1>1, <2>1, <2>2, <2>3, <2>5 DEF PlaceStep, PlaceOf
  <2>8. ~raced /\ ~torn => FlagStep(c)
    BY <1>1, <2>1, <2>2, <2>3, <2>4, SameFlagStep
  <2>9. serving'[s] \in {call[c].old, call[c].target} /\ call'[c].replaced \in Known(c)
    BY <2>1, <2>2, <2>5 DEF Known
  <2> QED
    BY <1>0, <1>2, <1>3, <2>1, <2>2, <2>3, <2>4, <2>6, <2>7, <2>8, <2>9, GoingOn
<1>4. CASE GiveUp(c, "error") /\ UNCHANGED serving
  BY <1>0, <1>2, <1>4, GivingUp
<1> QED
  BY <1>3, <1>4 DEF Swap

LEMMA CommitStep ==
  ASSUME IInv, NEW c \in Callers, Commit(c)
  PROVE  SwitchStep(c)
<1> DEFINE s == SlotIn(c)
           pc == IF call[c].target = NoPlugin THEN "retire" ELSE "record"
<1>0. /\ up /\ call[c].pc = "commit" /\ Holding(c) /\ SwitchUnchanged
      /\ UNCHANGED <<active, armed, instances, late>>
  BY DEF Commit, In, Holding
<1>1. /\ TypeOK /\ LocksInv /\ VettedInv /\ CallShape(c) /\ call[c].target \in Impls
      /\ call[c].actor \in Plugins /\ s \in Slots /\ (~raced => PlaceOf(c))
      /\ ~raced /\ ~torn => Flagged(s, {call[c].old})
  BY <1>0, HoldingFacts
<1>2. spent' \in [Events -> Nat] /\ instances' \subseteq Plugins
  BY <1>0, <1>1, Spending, TypesOf DEF Commit
<1>3. CASE Select(s, call[c].target) /\ Goto(c, pc) /\ UNCHANGED <<records, serving, lock>>
  <2>0. pc \in {"retire", "record"} /\ (pc = "record" <=> call[c].target # NoPlugin)
    OBVIOUS
  <2> HIDE DEF pc
  <2>1. SameCallAt(c, pc) /\ call'[c].old = call[c].old /\ call'[c].replaced = call[c].replaced
    BY <1>1, <1>3, <2>0, TypesOf, GotoOnly DEF Steps1
  <2>2. Holding(c)' /\ SlotIn(c)' = s
    BY <2>0, <2>1 DEF Holding, SameCallAt, SlotIn
  <2>3. RecordsEffect(c) /\ SameFlags
    BY <1>1, <1>3, TypesOf, SameRecords, StateIsEffect
  <2>4. /\ selection' \in [Slots -> Impls] /\ selection'[s] = call[c].target
        /\ \A t \in Slots \ {s} : selection'[t] = selection[t]
    BY <1>1, <1>3, TypesOf DEF Select
  <2>5. SlotsEffect(c)
    BY <1>0, <1>1, <1>3, <2>4, TypesOf DEF SlotsEffect, Known
  <2>6. ~raced => PlaceStep(c)
    BY <1>0, <1>1, <1>3, <2>0, <2>1, <2>2, <2>4 DEF PlaceStep, PlaceOf, SameCallAt
  <2>7. ~raced /\ ~torn => FlagStep(c)
    BY <1>1, <2>0, <2>1, <2>2, <2>3, SameFlagStep DEF SameCallAt
  <2>8. (~raced => serving'[s] \in {call[c].old, call[c].target}) /\ call'[c].replaced \in Known(c)
    BY <1>0, <1>1, <1>3, <2>1 DEF PlaceOf, Known
  <2> QED
    BY <1>0, <1>2, <1>3, <2>0, <2>1, <2>3, <2>5, <2>6, <2>7, <2>8, GoingOn
<1>4. CASE Undo(c) /\ UNCHANGED selection
  <2>1. serving' = [serving EXCEPT ![s] = call[c].replaced] /\ GiveUp(c, "error")
    BY <1>4 DEF Undo
  <2> QED
    BY <1>0, <1>2, <1>4, <2>1, GivingUp
<1> QED
  BY <1>3, <1>4 DEF Commit

LEMMA RecordNewStep ==
  ASSUME IInv, NEW c \in Callers, RecordNew(c)
  PROVE  SwitchStep(c)
<1> DEFINE s == SlotIn(c)
           t == call[c].target
           previous == IF call[c].mode = "activate" THEN call[c].old ELSE NoPlugin
           r == [records[t] EXCEPT !.state = "active", !.active = TRUE, !.previous = previous]
<1>0. /\ up /\ call[c].pc = "record" /\ Holding(c) /\ SwitchUnchanged
      /\ UNCHANGED <<selection, active, armed, instances, spent, late>>
  BY DEF RecordNew, In, Holding
<1>1. /\ TypeOK /\ LocksInv /\ VettedInv /\ CallShape(c) /\ t \in Impls /\ t # NoPlugin
      /\ call[c].actor \in Plugins /\ s \in Slots /\ call[c].old \in Impls /\ (~raced => PlaceOf(c))
      /\ ~raced /\ ~torn => Flagged(s, {call[c].old})
      /\ ~raced => Exists(t)
  BY <1>0, HoldingFacts DEF CallShape
<1>2. spent' \in [Events -> Nat] /\ instances' \subseteq Plugins
  BY <1>0, <1>1, Spending, TypesOf DEF RecordNew
<1>3. CASE Exists(t)
  <2>0. /\ records' = Updated(t, r) /\ Goto(c, "retire") /\ UNCHANGED <<serving, lock>>
        /\ t \in Plugins
    BY <1>3 DEF RecordNew, Exists
  <2>1. SameCallAt(c, "retire") /\ call'[c].old = call[c].old /\ call'[c].replaced = call[c].replaced
    BY <1>1, <2>0, TypesOf, GotoOnly DEF Steps1
  <2>2. Holding(c)' /\ SlotIn(c)' = s /\ call'[c].pc = "retire" /\ call'[c].target = t
    BY <2>1 DEF Holding, SameCallAt, SlotIn
  <2>3. records[t] \in Record /\ previous \in {NoPlugin, call[c].old} /\ previous \in Impls
    BY <1>1, <2>0, TypesOf, Plain
  <2> HIDE DEF previous
  <2>4. r \in Record /\ r.state = "active" /\ r.active = TRUE /\ r.previous = previous
    BY <2>3 DEF Record, States
  <2> HIDE DEF r
  <2>5. OnlyRecord(t) /\ records'[t] = r
    BY <1>1, <1>3, <2>0, <2>4, TypesOf, UpdatedOnly DEF States
  <2>6. RecordsEffect(c)
    <3>1. \A q \in Plugins : records'[q] # records[q] => q = t /\ Exists(q)
      BY <1>3, <2>5 DEF OnlyRecord
    <3>2. \A q \in Plugins : records'[q].active =>
            \/ records[q].active /\ records'[q].previous = records[q].previous
            \/ q = t /\ records'[q].previous \in {NoPlugin, call[c].old}
      BY <2>3, <2>4, <2>5, <3>1
    <3>3. \A q \in Plugins : records'[q].previous \in {records[q].previous, NoPlugin, call[c].old}
      BY <2>3, <2>4, <2>5, <3>1
    <3>4. t \in Known(c)
      BY DEF Known
    <3> HIDE DEF t
    <3> QED
      BY <1>0, <2>5, <3>1, <3>2, <3>3, <3>4 DEF RecordsEffect, OnlyRecord, t
  <2>7. SlotsEffect(c)
    BY <1>0, <1>1, <2>0, SlotsSame DEF Known
  <2>8. ~raced => PlaceStep(c)
    BY <1>0, <1>1, <2>0, <2>1, <2>2 DEF PlaceStep, PlaceOf, SameCallAt
  <2>9. ~raced /\ ~torn => FlagStep(c)
    <3> SUFFICES ASSUME ~raced, ~torn, NEW q \in Plugins, SlotOf[q] = s
                 PROVE  records'[q].active <=> q \in {call[c].old, t}
      BY <2>1, <2>2 DEF FlagStep
    <3>1. CASE q = t
      BY <2>4, <2>5, <3>1
    <3>2. CASE q # t
      BY <1>1, <2>5, <3>2 DEF OnlyRecord, Flagged
    <3> QED
      BY <3>1, <3>2
  <2>10. (~raced => serving'[s] \in {call[c].old, call[c].target}) /\ call'[c].replaced \in Known(c)
    BY <1>0, <1>1, <2>0, <2>1 DEF PlaceOf, Known
  <2> QED
    BY <1>0, <1>2, <2>0, <2>1, <2>6, <2>7, <2>8, <2>9, <2>10, GoingOn
<1>4. CASE ~Exists(t)
  <2>1. serving' = [serving EXCEPT ![s] = call[c].replaced] /\ GiveUp(c, "error")
    BY <1>4 DEF RecordNew, Undo
  <2> QED
    BY <1>0, <1>1, <1>2, <1>4, <2>1, GivingUp
<1> QED
  BY <1>3, <1>4

LEMMA RetireStep ==
  ASSUME IInv, NEW c \in Callers, Retire(c)
  PROVE  SwitchStep(c)
<1> DEFINE s == SlotIn(c)
           t == call[c].target
           o == call[c].old
<1>0. /\ up /\ call[c].pc = "retire" /\ Holding(c) /\ SwitchUnchanged /\ Return(c)
      /\ UNCHANGED <<selection, serving, instances, spent, late>>
      /\ records' = Retired(c) /\ active' = [active EXCEPT ![s] = t]
      /\ lock' = [lock EXCEPT ![s] = NoCaller] /\ armed' = Timers(c)
  BY DEF Retire, In, Holding
<1>1. /\ TypeOK /\ LocksInv /\ VettedInv /\ CallShape(c) /\ t \in Impls
      /\ call[c].actor \in Plugins /\ s \in Slots /\ o \in Impls /\ (~raced => PlaceOf(c))
      /\ ~raced /\ ~torn => Flagged(s, {o, t})
      /\ ~raced /\ ~torn /\ ~late => Runs(t)
  BY <1>0, HoldingFacts
<1>2. spent' \in [Events -> Nat] /\ instances' \subseteq Plugins
  BY <1>0, <1>1, Spending, TypesOf
<1>3. OnlyCall(c) /\ call'[c] = NoCall
  BY <1>0, <1>1, TypesOf, ReturnOnly
<1>4. /\ lock' \in [Slots -> Callers \cup {NoCaller}] /\ lock'[s] = NoCaller
      /\ \A u \in Slots \ {s} : lock'[u] = lock[u]
      /\ active' \in [Slots -> Impls] /\ active'[s] = t
      /\ \A u \in Slots \ {s} : active'[u] = active[u]
  BY <1>0, <1>1, TypesOf
<1>5. armed' \subseteq Plugins
  BY <1>0, <1>1, TypesOf DEF Timers, Exists
<1>6. CallEffect(c)
  BY <1>3, <1>4 DEF CallEffect
<1>7. SlotsEffect(c)
  BY <1>0, <1>1, <1>4, TypesOf DEF SlotsEffect, Known
<1>8. RecordsEffect(c) /\ \A q \in Plugins \ {o} : records'[q].active = records[q].active
  <2>1. CASE o \in {NoPlugin, t} \/ ~Exists(o)
    <3>1. records' = records
      BY <1>0, <2>1 DEF Retired, Updated
    <3> QED
      BY <1>1, <3>1, TypesOf, SameRecords, StateIsEffect DEF SameFlags
  <2>2. CASE o \notin {NoPlugin, t} /\ Exists(o)
    <3> DEFINE st == IF call[c].mode = "rollback" THEN "rolled_back" ELSE "inactive"
               r == [records[o] EXCEPT !.active = FALSE, !.state = st]
    <3>1. o \in Plugins /\ records[o] \in Record /\ st \in States /\ records' = Updated(o, r)
      BY <1>0, <1>1, <2>2, TypesOf DEF Retired, Exists, States
    <3> HIDE DEF st
    <3>2. r \in Record /\ r.state = st /\ r.active = FALSE /\ r.previous = records[o].previous
      BY <3>1 DEF Record
    <3> HIDE DEF r
    <3>3. OnlyRecord(o) /\ records'[o] = r
      BY <1>1, <2>2, <3>1, <3>2, TypesOf, UpdatedOnly
    <3>4. \A q \in Plugins : records'[q] # records[q] => q = o /\ Exists(q)
      BY <2>2, <3>3 DEF OnlyRecord
    <3>5. /\ \A q \in Plugins : records'[q].active =>
               records[q].active /\ records'[q].previous = records[q].previous
          /\ \A q \in Plugins : records'[q].previous = records[q].previous
      BY <3>2, <3>3, <3>4
    <3>6. o \in Known(c)
      BY DEF Known
    <3> HIDE DEF o
    <3> QED
      BY <3>3, <3>4, <3>5, <3>6 DEF RecordsEffect, OnlyRecord
  <2> QED
    BY <2>1, <2>2
<1>9. SwitchEffect(c)
  BY <1>0, <1>2, <1>5, <1>6, <1>7, <1>8, TypesOf, HoldingFacts
     DEF SwitchEffect, SwitchUnchanged, CallUnchanged
<1>10. ~Holding(c)'
  BY <1>3 DEF Holding, NoCall
<1>11. ~raced => PlaceStep(c)
  BY <1>0, <1>1, <1>4, <1>10 DEF PlaceStep, PlaceOf
<1>12. ~raced /\ ~torn => FlagStep(c)
  <2> SUFFICES ASSUME ~raced, ~torn, NEW q \in Plugins, SlotOf[q] = s
               PROVE  records'[q].active <=> q = t
    BY <1>0, <1>1, <1>10 DEF FlagStep, PlaceOf
  <2>1. CASE q # o
    BY <1>1, <1>8, <2>1 DEF Flagged
  <2>2. CASE q = o
    <3>1. records[q].active /\ Exists(q)
      BY <1>1, <2>2 DEF Flagged, LocksInv
    <3>2. CASE q = t
      BY <1>0, <2>2, <3>1, <3>2 DEF Retired
    <3>3. CASE q # t
      <4> DEFINE st == IF call[c].mode = "rollback" THEN "rolled_back" ELSE "inactive"
                 r == [records[q] EXCEPT !.active = FALSE, !.state = st]
      <4>1. records' = [records EXCEPT ![q] = r]
        BY <1>0, <2>2, <3>1, <3>3, Plain DEF Retired, Updated
      <4>2. r.active = FALSE
        BY <1>1, TypesOf DEF Record
      <4> HIDE DEF r
      <4> QED
        BY <1>1, <3>3, <4>1, <4>2, TypesOf
    <3> QED
      BY <3>2, <3>3
  <2> QED
    BY <2>1, <2>2
<1>13. ~raced /\ ~torn /\ ~late => RunStep(c)
  BY <1>0, <1>1, <1>10 DEF RunStep, Runs, Hosted, PlaceOf
<1> QED
  BY <1>9, <1>11, <1>12, <1>13 DEF SwitchStep

-------------------------------------------------------------------------------
(* Deletions, timers and restarts                                          *)

LEMMA TimerStep ==
  ASSUME IInv, NEW p \in Plugins, TimerFires(p)
  PROVE  p \in Callers /\ QuietEffect(p)
<1>1. TypeOK /\ "timer" \in Events /\ p \in Callers
  BY Plain DEF IInv, Events
<1>2. /\ up /\ armed' = armed \ {p} /\ stopping' \in {stopping \cup {p}, stopping}
      /\ UNCHANGED <<registryVars, up, pipe, call, lock, active, serving, instances,
                     tested, torn, stale, late>>
      /\ spent' \in [Events -> Nat]
  BY <1>1, Spending DEF TimerFires
<1> QED
  BY <1>1, <1>2, TypesOf DEF QuietEffect

(* An instance stops: p is not what a slot or a switch needs.              *)
LEMMA StoppedInstance ==
  ASSUME IInv, NEW p, instances' = instances \ {p}, up,
         UNCHANGED <<registryVars, up, pipe, lock, active, serving, tested, torn>>,
         armed' \subseteq Plugins, stopping' \subseteq Plugins, spent' \in [Events -> Nat],
         stale' = stale, late' \in BOOLEAN, late => late', raced' = (raced \/ Races'),
         NEW c \in Callers, UNCHANGED call \/ (SameCallAt(c, "erase") /\ call[c].pc = "stop"
                                       /\ call'[c].old = call[c].old
                                       /\ call'[c].replaced = call[c].replaced
                                       /\ call[c].actor = p),
         ~raced /\ ~torn /\ ~late' => /\ \A s \in Slots : serving[s] # p
                                      /\ \A d \in Callers : Holding(d) => p \notin {call[d].old, call[d].target}
  PROVE  IInv'
<1>0. /\ TypeOK /\ LocksInv /\ VettedInv /\ (~raced' => ~raced /\ RecordedInv /\ PlaceInv)
      /\ UNCHANGED <<records, selection>>
      /\ ~raced' /\ ~torn => FlagInv
      /\ ~raced' /\ ~torn /\ ~late' => RunInv
  BY DEF IInv, registryVars
<1>1. /\ call' \in [Callers -> Call]
      /\ \A d \in Callers :
           /\ call'[d].mode = call[d].mode /\ call'[d].actor = call[d].actor
           /\ call'[d].was = call[d].was /\ call'[d].target = call[d].target
           /\ call'[d].old = call[d].old /\ call'[d].replaced = call[d].replaced
           /\ call'[d] = call[d] \/ (call[d].pc = "stop" /\ call'[d].pc = "erase" /\ call[d].actor = p)
  BY <1>0, TypesOf DEF SameCallAt, OnlyCall
<1>2. \A d \in Callers : /\ SlotIn(d)' = SlotIn(d) /\ (Holding(d)' <=> Holding(d))
                         /\ (Holding(d) => call'[d] = call[d]) /\ CallShape(d)'
  BY <1>0, <1>1 DEF SlotIn, Holding, CallShape, LocksInv
<1>3. TypeOK'
  <2>1. Races' \in BOOLEAN
    BY DEF Races
  <2>2. raced' \in BOOLEAN
    BY <1>0, <2>1, TypesOf
  <2> QED
    BY <1>0, <1>1, <2>2, TypesOf DEF TypeOK, RegistryTypeOK, registryVars
<1>4. LocksInv'
  <2>1. ASSUME NEW s \in Slots, lock'[s] # NoCaller
        PROVE  Holding(lock[s])' /\ SlotIn(lock[s])' = s
    <3>1. lock'[s] = lock[s] /\ Holding(lock[s]) /\ SlotIn(lock[s]) = s /\ lock[s] \in Callers
      BY <1>0, <2>1, TypesOf DEF LocksInv
    <3>2. call'[lock[s]] = call[lock[s]]
      BY <1>2, <3>1
    <3> QED
      BY <3>1, <3>2 DEF Holding, SlotIn
  <2>2. \A q \in Plugins : records'[q].active => Exists(q)'
    BY <1>0 DEF LocksInv, Exists
  <2>3. \A d \in Callers : CallShape(d)' /\ (Holding(d)' => lock'[SlotIn(d)'] = d)
    BY <1>0, <1>2 DEF LocksInv
  <2> QED
    BY <2>1, <2>2, <2>3 DEF LocksInv
<1>5. VettedInv'
  <2>1. \A q, t : Vetted(q, t)' <=> Vetted(q, t)
    BY DEF Vetted
  <2>2. ASSUME NEW d \in Callers, call'[d].mode \in {"activate", "deactivate", "rollback"}
        PROVE  /\ call'[d].actor \in tested'
               /\ Vetted(call[d].target, SlotIn(d))' /\ Vetted(call[d].old, SlotIn(d))'
               /\ Vetted(call[d].replaced, SlotIn(d))'
    BY <1>0, <1>1, <1>2, <2>2 DEF VettedInv, Vetted
  <2> QED
    BY <1>0, <2>2 DEF VettedInv, Vetted
<1>6. ASSUME ~raced' PROVE RecordedInv'
  <2>0. RecordedInv /\ ~raced
    BY <1>0, <1>6
  <2>e. \A q : Exists(q)' <=> Exists(q)
    BY <1>0 DEF Exists
  <2>1. \A q \in Plugins : pipe'[q].pc # "none" => Exists(q)'
    BY <2>0, <2>e DEF RecordedInv
  <2>2. \A q \in Plugins : Busy(q)' => Unknown(q)'
    BY <1>0, <1>1, <2>0 DEF RecordedInv, Busy, Unknown
  <2>3. \A d \in Callers : Holding(d)' => call'[d].target = NoPlugin \/ Exists(call[d].target)'
    BY <1>0, <1>1, <1>2, <2>0 DEF RecordedInv, Exists
  <2>4. \A q \in instances' : Exists(q)'
    BY <2>0, <2>e DEF RecordedInv
  <2>5. ASSUME NEW d \in Callers, call'[d].mode = "delete"
        PROVE  /\ ~records'[call'[d].actor].active
               /\ call'[d].pc \in {"stop", "erase"} => ~RollbackTarget(call[d].actor)'
               /\ call'[d].pc = "erase" => call'[d].actor \notin instances'
    <3>1. RollbackTarget(call[d].actor)' => RollbackTarget(call[d].actor)
      BY <1>0, <1>1 DEF RollbackTarget, Listed, Exists
    <3> QED
      BY <1>0, <1>1, <2>0, <2>5, <3>1 DEF RecordedInv
  <2> QED
    BY <2>1, <2>2, <2>3, <2>4, <2>5 DEF RecordedInv
<1>7. ASSUME ~raced' PROVE PlaceInv'
  <2>1. PlaceInv
    BY <1>0, <1>7
  <2>2. ASSUME NEW d \in Callers, Holding(d)' PROVE PlaceOf(d)'
    <3>1. PlaceOf(d) /\ call'[d] = call[d]
      BY <1>2, <2>1, <2>2 DEF PlaceInv
    <3> QED
      BY <1>0, <3>1 DEF PlaceOf, SlotIn
  <2> QED
    BY <1>0, <2>1, <2>2 DEF PlaceInv
<1>8. ASSUME ~raced', ~torn' PROVE FlagInv'
  <2>1. FlagInv
    BY <1>0, <1>8
  <2>2. ASSUME NEW d \in Callers, Holding(d)'
        PROVE  Flagged(SlotIn(d), IF call[d].pc = "retire" THEN {call[d].old, call[d].target}
                                                          ELSE {call[d].old})'
    BY <1>0, <1>2, <2>1, <2>2 DEF FlagInv, Flagged
  <2>3. \A s \in Slots : lock'[s] = NoCaller => Flagged(s, {selection[s]})'
    BY <1>0, <2>1 DEF FlagInv, Flagged
  <2> QED
    BY <1>0, <2>1, <2>2, <2>3 DEF FlagInv, Exists
<1>9. ASSUME ~raced', ~torn', ~late' PROVE RunInv'
  <2>1. RunInv /\ ~raced
    BY <1>0, <1>9
  <2> QED
    BY <1>2, <1>9, <2>1 DEF RunInv, Runs, Hosted
<1>10. Races' => raced'
  OBVIOUS
<1> QED
  BY <1>3, <1>4, <1>5, <1>6, <1>7, <1>8, <1>9, <1>10 DEF IInv

(* What is not flagged active serves no slot, when no record is torn.      *)
LEMMA FlaggedServe ==
  ASSUME IInv, up, ~raced, ~torn, NEW p \in Plugins, ~records[p].active, ~InUse(p), NEW s \in Slots
  PROVE  serving[s] # p
<1>0. TypeOK /\ LocksInv /\ VettedInv /\ PlaceInv /\ FlagInv
  BY DEF IInv
<1>1. CASE lock[s] = NoCaller
  BY <1>0, <1>1, Plain DEF PlaceInv, FlagInv, Flagged, VettedInv, Vetted
<1>2. CASE lock[s] # NoCaller
  <2>1. PICK c \in Callers : lock[s] = c /\ Holding(c) /\ SlotIn(c) = s
    BY <1>0, <1>2, TypesOf DEF LocksInv
  <2>2. PlaceOf(c) /\ call[c].mode # "delete"
    BY <1>0, <2>1 DEF PlaceInv, LocksInv, CallShape
  <2>3. serving[s] \in {call[c].old, call[c].target}
    BY <2>1, <2>2 DEF PlaceOf, Holding
  <2> QED
    BY <2>2, <2>3 DEF InUse
<1> QED
  BY <1>1, <1>2

LEMMA StopDeletedStep ==
  ASSUME IInv, NEW c \in Callers, StopDeleted(c), raced' = (raced \/ Races')
  PROVE  IInv'
<1> DEFINE a == call[c].actor
<1>0. TypeOK /\ LocksInv /\ VettedInv /\ (~raced => RecordedInv)
  BY DEF IInv
<1>1. /\ up /\ call[c].pc = "stop" /\ armed' = armed \ {a} /\ instances' = instances \ {a}
      /\ Goto(c, "erase") /\ UNCHANGED <<records, selection, lock, active, serving, spent, late>>
      /\ UNCHANGED <<up, pipe, stopping, tested, torn, stale>>
  BY DEF StopDeleted, In, DeleteUnchanged, SwitchUnchanged, CallUnchanged
<1>2. call[c].mode = "delete" /\ a \in Plugins
  BY <1>0, <1>1 DEF LocksInv, CallShape
<1>3. SameCallAt(c, "erase") /\ call'[c].old = call[c].old /\ call'[c].replaced = call[c].replaced
  BY <1>0, <1>1, TypesOf, GotoOnly DEF Steps1
<1>4. ~raced => ~records[a].active /\ ~InUse(a)
  BY <1>0, <1>2 DEF RecordedInv, IInv, Races
<1>5. ~raced /\ ~torn /\ ~late' =>
        /\ \A s \in Slots : serving[s] # a
        /\ \A d \in Callers : Holding(d) => a \notin {call[d].old, call[d].target}
  <2>1. \A d \in Callers : Holding(d) => call[d].mode # "delete"
    BY <1>0 DEF LocksInv, CallShape
  <2> QED
    BY <1>1, <1>2, <1>4, <2>1, FlaggedServe DEF InUse
<1>6. /\ armed' \subseteq Plugins /\ stopping' \subseteq Plugins /\ spent' \in [Events -> Nat]
      /\ late' \in BOOLEAN /\ UNCHANGED registryVars
  BY <1>0, <1>1, TypesOf DEF registryVars
<1> HIDE DEF a
<1>7. a = call[c].actor
  BY DEF a
<1> QED
  BY <1>1, <1>3, <1>5, <1>6, <1>7, StoppedInstance

LEMMA StopReplacedStep ==
  ASSUME IInv, NEW p \in Plugins, StopReplaced(p), raced' = (raced \/ Races')
  PROVE  IInv'
<1>0. TypeOK /\ LocksInv /\ VettedInv
  BY DEF IInv
<1>1. /\ up /\ stopping' = stopping \ {p} /\ instances' = instances \ {p}
      /\ late' = (late \/ Chosen(p))
      /\ UNCHANGED <<registryVars, up, pipe, call, lock, active, serving, armed,
                     spent, tested, torn, stale>>
  BY DEF StopReplaced
<1>2. ~late' => /\ \A s \in Slots : serving[s] # p
                /\ \A d \in Callers : Holding(d) => p \notin {call[d].old, call[d].target}
  <2> HAVE ~late'
  <2>1. ~Chosen(p)
    BY <1>1
  <2>2. \A d \in Callers : Holding(d) => call[d].mode # "delete" /\ call[d].pc \notin {"idle", "lock"}
    BY <1>0 DEF LocksInv, CallShape, Holding
  <2>3. \A s \in Slots : serving[s] = p => SlotOf[p] = s
    BY <1>0, Plain DEF VettedInv, Vetted
  <2> QED
    BY <2>1, <2>2, <2>3 DEF Chosen
<1>3. /\ armed' \subseteq Plugins /\ stopping' \subseteq Plugins /\ spent' \in [Events -> Nat]
      /\ late' \in BOOLEAN
  <2>1. Chosen(p) \in BOOLEAN
    BY DEF Chosen
  <2> QED
    BY <1>0, <1>1, <2>1, TypesOf
<1>4. p \in Callers
  BY Plain
<1> QED
  BY <1>1, <1>2, <1>3, <1>4, StoppedInstance

LEMMA EraseStep ==
  ASSUME IInv, NEW c \in Callers, EraseRecord(c), raced' = (raced \/ Races')
  PROVE  IInv'
<1> DEFINE a == call[c].actor
<1>0. /\ TypeOK /\ LocksInv /\ VettedInv /\ (~raced' => ~raced /\ RecordedInv /\ PlaceInv)
      /\ ~raced' /\ ~torn => FlagInv
      /\ ~raced' /\ ~torn /\ ~late => RunInv
  BY DEF IInv
<1>1. /\ up /\ call[c].pc = "erase" /\ Erase(a) /\ Return(c) /\ UNCHANGED <<armed, instances>>
      /\ UNCHANGED <<selection, lock, active, serving, spent, late>>
      /\ UNCHANGED <<up, pipe, stopping, tested, torn, stale>>
  BY DEF EraseRecord, In, DeleteUnchanged, SwitchUnchanged, CallUnchanged
<1>2. call[c].mode = "delete" /\ a \in Plugins /\ ~Holding(c)
  BY <1>0, <1>1 DEF LocksInv, CallShape, Holding
<1>3. OnlyCall(c) /\ call'[c] = NoCall
  BY <1>0, <1>1, TypesOf, ReturnOnly
<1> DEFINE r == Blank("deleted")
<1>4. /\ r \in Record /\ r.state = "deleted" /\ r.active = FALSE /\ r.previous = NoPlugin
      /\ r.passed = FALSE
  BY Plain DEF Blank, Record
<1> HIDE DEF r
<1>5. /\ records' \in [Plugins -> Record] /\ records'[a] = r
      /\ \A q \in Plugins \ {a} : records'[q] = records[q]
  BY <1>0, <1>1, <1>2, <1>4, TypesOf DEF Erase, r
<1>6. /\ \A q \in Plugins : records'[q].active => records[q].active /\ records'[q] = records[q]
      /\ \A q \in Plugins : records'[q].previous \in {records[q].previous, NoPlugin}
      /\ \A q \in Plugins \ {a} : Exists(q) => Exists(q)'
  BY <1>4, <1>5 DEF Exists
<1>7. ~raced => /\ ~records[a].active /\ ~InUse(a) /\ ~RollbackTarget(a) /\ a \notin instances
  BY <1>1, <1>2 DEF IInv, RecordedInv, Races
<1> HIDE DEF a
<1>8. \A d \in Callers : Holding(d)' =>
        Holding(d) /\ SlotIn(d)' = SlotIn(d) /\ call'[d] = call[d]
  BY <1>3 DEF Holding, SlotIn, OnlyCall, NoCall
<1>9. TypeOK'
  <2>1. Races' \in BOOLEAN
    BY DEF Races
  <2>2. raced' \in BOOLEAN
    BY <1>0, <2>1, TypesOf
  <2> QED
    BY <1>0, <1>1, <1>3, <1>5, <2>2, TypesOf DEF TypeOK, RegistryTypeOK, OnlyCall
<1>10. LocksInv'
  <2>1. ASSUME NEW s \in Slots, lock'[s] # NoCaller
        PROVE  Holding(lock[s])' /\ SlotIn(lock[s])' = s
    <3>1. lock'[s] = lock[s] /\ Holding(lock[s]) /\ SlotIn(lock[s]) = s /\ lock[s] \in Callers
      BY <1>0, <1>1, <2>1, TypesOf DEF LocksInv
    <3>2. call'[lock[s]] = call[lock[s]]
      BY <1>2, <1>3, <3>1 DEF OnlyCall
    <3> QED
      BY <3>1, <3>2 DEF Holding, SlotIn
  <2>2. \A q \in Plugins : records'[q].active => Exists(q)'
    BY <1>0, <1>6 DEF LocksInv, Exists
  <2>3. \A d \in Callers : CallShape(d)'
    BY <1>0, <1>3 DEF LocksInv, CallShape, Holding, NoCall, OnlyCall
  <2>4. \A d \in Callers : Holding(d)' => lock'[SlotIn(d)'] = d
    BY <1>0, <1>1, <1>8 DEF LocksInv
  <2> QED
    BY <1>1, <2>1, <2>2, <2>3, <2>4 DEF LocksInv
<1>11. VettedInv'
  <2>1. \A s \in Slots : Vetted(selection[s], s)' /\ Vetted(active[s], s)' /\ Vetted(serving[s], s)'
    BY <1>0, <1>1 DEF VettedInv, Vetted
  <2>2. ASSUME NEW q \in Plugins
        PROVE  /\ records'[q].state \in Proven \/ records'[q].passed \/ records'[q].active => q \in tested'
               /\ Vetted(records[q].previous, SlotOf[q])'
               /\ pipe'[q].pc = "health" => q \in tested'
               /\ q \in tested' \/ pipe'[q].pc # "none" => records'[q].state # "none"
    <3>1. CASE q = a
      BY <1>0, <1>1, <1>4, <1>5, <3>1, Plain DEF VettedInv, Vetted, Proven, States, InProgress
    <3>2. CASE q # a
      BY <1>0, <1>1, <1>5, <3>2 DEF VettedInv, Vetted
    <3> QED
      BY <3>1, <3>2
  <2>3. ASSUME NEW d \in Callers, call'[d].mode \in {"activate", "deactivate", "rollback"}
        PROVE  /\ call'[d].actor \in tested'
               /\ Vetted(call[d].target, SlotIn(d))' /\ Vetted(call[d].old, SlotIn(d))'
               /\ Vetted(call[d].replaced, SlotIn(d))'
    <3>1. d # c /\ call'[d] = call[d]
      BY <1>3, <2>3 DEF OnlyCall, NoCall
    <3> QED
      BY <1>0, <1>1, <2>3, <3>1, OtherCalls DEF VettedInv, Vetted
  <2> QED
    BY <2>1, <2>2, <2>3 DEF VettedInv
<1>12. ASSUME ~raced' PROVE RecordedInv'
  <2>0. RecordedInv /\ ~raced
    BY <1>0, <1>12
  <2>1. ASSUME NEW q \in Plugins, pipe'[q].pc # "none" PROVE Exists(q)'
    BY <1>1, <1>2, <1>6, <1>7, <2>0, <2>1 DEF RecordedInv, InUse
  <2>2. ASSUME NEW q \in Plugins, Busy(q)' PROVE Unknown(q)'
    <3>1. Busy(q) /\ Unknown(q) /\ pipe[q].pc # "none"
      BY <1>1, <2>0, <2>2 DEF RecordedInv, Busy
    <3>2. q # a /\ records'[q] = records[q]
      BY <1>5, <1>7, <2>0, <3>1 DEF InUse
    <3>3. \A o \in Plugins : records'[o].previous # q
      BY <1>6, <3>1, Plain DEF Unknown
    <3>4. \A d \in Callers : call'[d].mode # "delete" =>
            q \notin {call'[d].actor, call'[d].target, call'[d].old, call'[d].replaced}
      BY <1>3, <3>1, Plain DEF Unknown, OnlyCall, NoCall
    <3> QED
      BY <1>1, <3>1, <3>2, <3>3, <3>4 DEF Unknown
  <2>3. ASSUME NEW d \in Callers, Holding(d)', call'[d].target # NoPlugin PROVE Exists(call[d].target)'
    <3>1. Holding(d) /\ call'[d] = call[d] /\ Exists(call[d].target)
      BY <1>8, <2>0, <2>3 DEF RecordedInv
    <3>2. call[d].target # a
      BY <1>0, <1>7, <2>0, <3>1 DEF InUse, LocksInv, CallShape
    <3> QED
      BY <1>5, <3>1, <3>2 DEF Exists
  <2>4. \A q \in instances' : Exists(q)'
    BY <1>0, <1>1, <1>6, <1>7, <2>0, TypesOf DEF RecordedInv
  <2>5. ASSUME NEW d \in Callers, call'[d].mode = "delete"
        PROVE  /\ ~records'[call'[d].actor].active
               /\ call'[d].pc \in {"stop", "erase"} => ~RollbackTarget(call[d].actor)'
               /\ call'[d].pc = "erase" => call'[d].actor \notin instances'
    <3>1. d # c /\ call'[d] = call[d]
      BY <1>3, <2>5 DEF OnlyCall, NoCall
    <3>2. call[d].actor \in Plugins
      BY <1>0, <2>5, <3>1 DEF LocksInv, CallShape, NoCall
    <3>3. RollbackTarget(call[d].actor)' => RollbackTarget(call[d].actor)
      BY <1>0, <1>6, <3>1 DEF RollbackTarget, Listed, LocksInv
    <3> QED
      BY <1>1, <1>6, <2>0, <2>5, <3>1, <3>2, <3>3 DEF RecordedInv
  <2> QED
    BY <2>1, <2>2, <2>3, <2>4, <2>5 DEF RecordedInv
<1>13. ASSUME ~raced' PROVE PlaceInv'
  <2>1. PlaceInv
    BY <1>0, <1>13
  <2>2. ASSUME NEW d \in Callers, Holding(d)' PROVE PlaceOf(d)'
    <3>1. PlaceOf(d) /\ call'[d] = call[d]
      BY <1>1, <1>8, <2>1, <2>2 DEF PlaceInv
    <3> QED
      BY <1>1, <3>1 DEF PlaceOf, SlotIn
  <2> QED
    BY <1>1, <2>1, <2>2 DEF PlaceInv
<1>14. ASSUME ~raced', ~torn' PROVE FlagInv'
  <2>1. FlagInv /\ ~raced
    BY <1>0, <1>1, <1>14
  <2>2. \A q \in Plugins : records'[q].active <=> records[q].active
    <3>1. records'[a].active = FALSE /\ records[a].active = FALSE
      BY <1>0, <1>2, <1>4, <1>5, <1>7, <2>1, TypesOf DEF a, Record
    <3> QED
      BY <1>5, <3>1
  <2>3. ASSUME NEW d \in Callers, Holding(d)'
        PROVE  Flagged(SlotIn(d), IF call[d].pc = "retire" THEN {call[d].old, call[d].target}
                                                          ELSE {call[d].old})'
    BY <1>8, <2>1, <2>2, <2>3 DEF FlagInv, Flagged
  <2>4. \A s \in Slots : lock'[s] = NoCaller => Flagged(s, {selection[s]})'
    BY <1>1, <2>1, <2>2 DEF FlagInv, Flagged
  <2>5. ASSUME NEW q \in Plugins, records'[q].active, records'[q].previous # NoPlugin
        PROVE  Exists(records[q].previous)'
    <3>1. records[q].active /\ records'[q] = records[q] /\ Exists(q)
      BY <1>0, <1>6, <2>5 DEF LocksInv
    <3>2. Exists(records[q].previous)
      BY <2>1, <2>5, <3>1 DEF FlagInv
    <3>3. records[q].previous # a
      BY <1>7, <2>1, <3>1 DEF RollbackTarget, Listed
    <3> QED
      BY <1>5, <3>1, <3>2, <3>3 DEF Exists
  <2> QED
    BY <2>3, <2>4, <2>5 DEF FlagInv
<1>15. ASSUME ~raced', ~torn', ~late' PROVE RunInv'
  BY <1>0, <1>1, <1>8, <1>15 DEF RunInv, Runs, Hosted
<1>16. Races' => raced'
  OBVIOUS
<1> QED
  BY <1>9, <1>10, <1>11, <1>12, <1>13, <1>14, <1>15, <1>16 DEF IInv

(* A process that has just started, or stopped, is not doing anything.     *)
LEMMA NothingUnderWay ==
  ASSUME \A c \in Callers : call'[c] = NoCall
  PROVE  /\ \A c \in Callers : CallShape(c)' /\ ~Holding(c)' /\ call'[c].mode = "none"
         /\ ~Races'
<1>1. \A c \in Callers : CallShape(c)' /\ ~Holding(c)' /\ call'[c].mode = "none"
  BY DEF CallShape, Holding, NoCall
<1> QED
  BY <1>1 DEF Races

LEMMA CrashStep ==
  ASSUME IInv, Crash, raced' = (raced \/ Races')
  PROVE  IInv'
<1>0. /\ TypeOK /\ LocksInv /\ VettedInv /\ (~raced => RecordedInv /\ PlaceInv)
      /\ ~raced /\ ~torn => FlagInv
  BY DEF IInv
<1>1. /\ up /\ up' = FALSE /\ pipe' = [p \in Plugins |-> NoPipe] /\ call' = [c \in Callers |-> NoCall]
      /\ lock' = [s \in Slots |-> NoCaller] /\ active' = [s \in Slots |-> NoPlugin]
      /\ serving' = [s \in Slots |-> NoPlugin] /\ armed' = {} /\ stopping' = {}
      /\ torn' = (torn \/ \E c \in Callers : call[c].pc \in {"record", "retire"})
      /\ UNCHANGED <<registryVars, instances, tested, stale, late>>
      /\ spent' \in [Events -> Nat]
  BY <1>0, Spending DEF Crash, Events
<1>2. /\ \A c \in Callers : CallShape(c)' /\ ~Holding(c)' /\ call'[c].mode = "none"
      /\ ~Races'
  BY <1>1, NothingUnderWay
<1>3. raced' = raced
  BY <1>0, <1>2, TypesOf
<1>4. \A q : Exists(q)' <=> Exists(q)
  BY <1>1 DEF Exists, registryVars
<1>5. NoPipe \in Pipe /\ NoCall \in Call /\ NoPipe.pc = "none"
  BY Plain DEF NoPipe, Pipe, NoCall, Call
<1>6. TypeOK'
  <2>1. torn' \in BOOLEAN
    BY <1>0, <1>1, TypesOf
  <2> QED
    BY <1>0, <1>1, <1>3, <1>5, <2>1, TypesOf, Plain DEF TypeOK, RegistryTypeOK, registryVars
<1>7. LocksInv'
  BY <1>0, <1>1, <1>2, <1>4 DEF LocksInv, registryVars
<1>8. VettedInv'
  BY <1>0, <1>1, <1>2, <1>5 DEF VettedInv, Vetted, registryVars
<1>9. ~raced' => RecordedInv'
  BY <1>0, <1>1, <1>2, <1>3, <1>4, <1>5 DEF RecordedInv, Busy, registryVars
<1>10. PlaceInv' /\ RunInv'
  BY <1>1 DEF PlaceInv, RunInv
<1>11. ASSUME ~raced', ~torn' PROVE FlagInv'
  <2>1. FlagInv /\ PlaceInv /\ \A c \in Callers : call[c].pc \notin {"record", "retire"}
    BY <1>0, <1>1, <1>3, <1>11
  <2>2. ASSUME NEW s \in Slots PROVE Flagged(s, {selection[s]})
    <3>1. CASE lock[s] = NoCaller
      BY <2>1, <3>1 DEF FlagInv
    <3>2. CASE lock[s] # NoCaller
      <4>1. PICK c \in Callers : lock[s] = c /\ Holding(c) /\ SlotIn(c) = s
        BY <1>0, <3>2, TypesOf DEF LocksInv
      <4>2. selection[s] = call[c].old /\ Flagged(s, {call[c].old})
        BY <1>1, <2>1, <4>1 DEF PlaceInv, PlaceOf, FlagInv, Holding
      <4> QED
        BY <4>2
    <3> QED
      BY <3>1, <3>2
  <2>3. \A s \in Slots : Flagged(s, {selection[s]})'
    BY <1>1, <2>2 DEF Flagged, registryVars
  <2>4. \A p \in Plugins : records'[p].active /\ records'[p].previous # NoPlugin =>
          Exists(records[p].previous)'
    BY <1>1, <2>1 DEF FlagInv, Exists, registryVars
  <2> QED
    BY <1>2, <2>3, <2>4 DEF FlagInv
<1> QED
  BY <1>2, <1>6, <1>7, <1>8, <1>9, <1>10, <1>11 DEF IInv

(* What a restart could not restore in s.                                  *)
GivenUp(s, chosen) ==
  /\ Found[s] # NoPlugin /\ chosen = [Found EXCEPT ![s] = NoPlugin]
  /\ records' = Updated(Found[s], [records[Found[s]] EXCEPT !.active = FALSE, !.state = "failed"])

LEMMA RestoreStep ==
  ASSUME IInv, Restore, raced' = (raced \/ Races')
  PROVE  IInv'
<1>0. /\ TypeOK /\ LocksInv /\ VettedInv /\ (~raced => RecordedInv)
      /\ ~raced /\ ~torn => FlagInv
  BY DEF IInv
<1>1. PICK chosen : /\ RestoreAs(chosen) /\ spent' \in [Events -> Nat]
                    /\ \/ chosen = Found /\ UNCHANGED records
                       \/ \E s \in Slots : GivenUp(s, chosen)
  <2>1. CASE Answered /\ RestoreAs(Found) /\ UNCHANGED records
    <3>1. spent' \in [Events -> Nat]
      BY <1>0, <2>1, Spending
    <3> QED
      BY <2>1, <3>1
  <2>2. ASSUME NEW s \in Slots, Found[s] # NoPlugin, Refused("restore"),
               RestoreAs([Found EXCEPT ![s] = NoPlugin]),
               records' = Updated(Found[s], [records[Found[s]] EXCEPT !.active = FALSE, !.state = "failed"])
        PROVE  \E chosen : RestoreAs(chosen) /\ spent' \in [Events -> Nat] /\ GivenUp(s, chosen)
    <3>1. spent' \in [Events -> Nat]
      BY <1>0, <2>2, Spending
    <3>2. GivenUp(s, [Found EXCEPT ![s] = NoPlugin])
      BY <2>2 DEF GivenUp
    <3> QED
      BY <2>2, <3>1, <3>2
  <2>3. CASE \E s \in Slots \ StateBearing :
               /\ Found[s] # NoPlugin
               /\ Refused("restore")
               /\ RestoreAs([Found EXCEPT ![s] = NoPlugin])
               /\ records' = Updated(Found[s], [records[Found[s]] EXCEPT !.active = FALSE,
                                                                         !.state = "failed"])
    <3>1. PICK s \in Slots :
               /\ Found[s] # NoPlugin
               /\ Refused("restore")
               /\ RestoreAs([Found EXCEPT ![s] = NoPlugin])
               /\ records' = Updated(Found[s], [records[Found[s]] EXCEPT !.active = FALSE,
                                                                         !.state = "failed"])
      BY <2>3
    <3>2. PICK chosen : RestoreAs(chosen) /\ spent' \in [Events -> Nat] /\ GivenUp(s, chosen)
      BY <2>2, <3>1
    <3> QED
      BY <3>2
  <2> QED
    BY <2>1, <2>3 DEF Restore
<1>p. RestoreAs(chosen)
  BY <1>1
<1>2. /\ ~up /\ up' = TRUE /\ selection' = chosen /\ active' = chosen /\ serving' = chosen
      /\ \A p : p \in instances' <=>
           p \in instances \/ (p \in Plugins /\ ~Hosted(p) /\ \E s \in Slots : chosen[s] = p)
      /\ UNCHANGED <<pipe, call, lock, armed, stopping, tested, torn, stale, late>>
  BY <1>p DEF RestoreAs
<1>3. /\ \A c \in Callers : call[c] = NoCall /\ call'[c] = NoCall
      /\ \A p \in Plugins : pipe[p] = NoPipe /\ pipe'[p] = NoPipe
  BY <1>0, <1>2 DEF LocksInv
<1>4. /\ \A c \in Callers : CallShape(c)' /\ ~Holding(c)' /\ call'[c].mode = "none"
      /\ ~Races'
  BY <1>3, NothingUnderWay
<1>5. \A s \in Slots : lock[s] = NoCaller
  BY <1>0, <1>3, TypesOf DEF LocksInv, Holding, NoCall
<1>6. \A s \in Slots : Found[s] \in Impls /\ Vetted(Found[s], s)
                       /\ (Found[s] # NoPlugin => Exists(Found[s]) /\ Found[s] = selection[s])
  BY <1>0, TypesOf, Plain DEF Found, VettedInv, Vetted
<1>7. /\ chosen \in [Slots -> Impls]
      /\ \A s \in Slots : Vetted(chosen[s], s) /\ (chosen[s] = NoPlugin \/ (chosen[s] = selection[s] /\ Exists(chosen[s])))
  <2>0. Found \in [Slots -> Impls]
    BY <1>6 DEF Found
  <2>1. ASSUME NEW s \in Slots, GivenUp(s, chosen)
        PROVE  chosen \in [Slots -> Impls] /\ \A t \in Slots : chosen[t] \in {Found[t], NoPlugin}
    <3>1. chosen = [Found EXCEPT ![s] = NoPlugin]
      BY <2>1 DEF GivenUp
    <3> HIDE DEF Found
    <3> QED
      BY <2>0, <3>1, Plain
  <2>2. chosen \in [Slots -> Impls] /\ \A t \in Slots : chosen[t] \in {Found[t], NoPlugin}
    BY <1>1, <2>0, <2>1
  <2>3. ASSUME NEW s \in Slots
        PROVE  Vetted(chosen[s], s) /\ (chosen[s] = NoPlugin \/ (chosen[s] = selection[s] /\ Exists(chosen[s])))
    <3>1. CASE chosen[s] = NoPlugin
      BY <3>1 DEF Vetted
    <3>2. CASE chosen[s] = Found[s] /\ chosen[s] # NoPlugin
      BY <1>6, <3>2
    <3> QED
      BY <2>2, <3>1, <3>2
  <2> QED
    BY <2>2, <2>3
(* The record of a plugin that could not be restored.                      *)
<1>8. /\ records' \in [Plugins -> Record] /\ \A q : Exists(q)' <=> Exists(q)
      /\ \A q \in Plugins :
           \/ records'[q] = records[q]
           \/ /\ q \in tested /\ Exists(q) /\ selection[SlotOf[q]] = q /\ chosen[SlotOf[q]] = NoPlugin
              /\ records'[q].active = FALSE /\ records'[q].previous = records[q].previous
              /\ records'[q].state = "failed"
      /\ \A s \in Slots : selection[s] # NoPlugin /\ Exists(selection[s]) =>
            chosen[s] = selection[s] \/ records'[selection[s]].active = FALSE
  <2>1. CASE chosen = Found /\ UNCHANGED records
    BY <1>0, <2>1, TypesOf DEF Exists, Found
  <2>2. ASSUME NEW s \in Slots, GivenUp(s, chosen)
        PROVE  /\ records' \in [Plugins -> Record] /\ \A q : Exists(q)' <=> Exists(q)
               /\ \A q \in Plugins :
                    \/ records'[q] = records[q]
                    \/ /\ q \in tested /\ Exists(q) /\ selection[SlotOf[q]] = q
                       /\ chosen[SlotOf[q]] = NoPlugin /\ records'[q].active = FALSE
                       /\ records'[q].previous = records[q].previous /\ records'[q].state = "failed"
               /\ \A t \in Slots : selection[t] # NoPlugin /\ Exists(selection[t]) =>
                     chosen[t] = selection[t] \/ records'[selection[t]].active = FALSE
    <3>1. /\ Found[s] # NoPlugin /\ chosen = [Found EXCEPT ![s] = NoPlugin]
          /\ records' = Updated(Found[s], [records[Found[s]] EXCEPT
                                              !.active = FALSE, !.state = "failed"])
      BY <2>2 DEF GivenUp
    <3> DEFINE p == Found[s]
               r == [records[p] EXCEPT !.active = FALSE, !.state = "failed"]
    <3>2. /\ p \in Plugins /\ Exists(p) /\ p = selection[s] /\ p \in tested /\ SlotOf[p] = s
          /\ records[p] \in Record /\ records' = Updated(p, r)
      BY <1>0, <1>6, <3>1, TypesOf, Plain DEF Vetted
    <3>3. r \in Record /\ r.active = FALSE /\ r.state = "failed" /\ r.previous = records[p].previous
      BY <3>2 DEF Record, States
    <3>4. chosen[s] = NoPlugin /\ \A t \in Slots \ {s} : chosen[t] = Found[t]
      BY <3>1 DEF Found
    <3>5. p = Found[s]
      OBVIOUS
    <3> HIDE DEF r, p
    <3>6. OnlyRecord(p) /\ records'[p] = r
      BY <1>0, <3>2, <3>3, TypesOf, UpdatedOnly DEF States
    <3>7. \A q \in Plugins : records'[q] # records[q] => q = p
      BY <3>6 DEF OnlyRecord
    <3>8. \A t \in Slots \ {s} : selection[t] # NoPlugin /\ Exists(selection[t]) => chosen[t] = selection[t]
      BY <3>4 DEF Found
    <3>9. records' \in [Plugins -> Record] /\ \A q : Exists(q)' <=> Exists(q)
      BY <3>6 DEF OnlyRecord
    <3>10. \A q \in Plugins :
           \/ records'[q] = records[q]
           \/ /\ q \in tested /\ Exists(q) /\ selection[SlotOf[q]] = q /\ chosen[SlotOf[q]] = NoPlugin
              /\ records'[q].active = FALSE /\ records'[q].previous = records[q].previous
              /\ records'[q].state = "failed"
      BY <3>2, <3>3, <3>4, <3>6, <3>7
    <3>11. records'[selection[s]].active = FALSE
      BY <3>2, <3>3, <3>6
    <3> QED
      BY <3>8, <3>9, <3>10, <3>11
  <2>3. CASE \E s \in Slots : GivenUp(s, chosen)
    BY <2>2, <2>3
  <2> QED
    BY <1>1, <2>1, <2>3
<1>9. raced' = raced
  BY <1>0, <1>4, TypesOf
<1>10. TypeOK'
  <2>1. instances' \subseteq Plugins
    BY <1>0, <1>2, TypesOf
  <2> QED
    <3>1. spent' \in [Events -> Nat] /\ raced' \in BOOLEAN
      BY <1>0, <1>1, <1>9, TypesOf
    <3> QED
      BY <1>0, <1>2, <1>7, <1>8, <2>1, <3>1, TypesOf DEF TypeOK, RegistryTypeOK
<1>11. LocksInv'
  <2>1. \A q \in Plugins : records'[q].active => Exists(q)'
    BY <1>0, <1>8 DEF LocksInv
  <2> QED
    BY <1>2, <1>4, <1>5, <2>1 DEF LocksInv
<1>12. VettedInv'
  <2>1. \A s \in Slots : Vetted(selection[s], s)' /\ Vetted(active[s], s)' /\ Vetted(serving[s], s)'
    BY <1>2, <1>7 DEF Vetted
  <2>2. ASSUME NEW q \in Plugins
        PROVE  /\ records'[q].state \in Proven \/ records'[q].passed \/ records'[q].active => q \in tested'
               /\ Vetted(records[q].previous, SlotOf[q])'
               /\ pipe'[q].pc = "health" => q \in tested'
               /\ q \in tested' \/ pipe'[q].pc # "none" => records'[q].state # "none"
    <3>1. CASE records'[q] = records[q]
      BY <1>0, <1>2, <3>1 DEF VettedInv, Vetted
    <3>2. CASE records'[q] # records[q]
      BY <1>0, <1>2, <1>3, <1>8, <3>2 DEF VettedInv, Vetted, NoPipe
    <3> QED
      BY <3>1, <3>2
  <2> QED
    BY <1>4, <2>1, <2>2 DEF VettedInv
<1>13. ASSUME ~raced' PROVE RecordedInv'
  <2>1. \A q \in instances' : Exists(q)'
    BY <1>0, <1>2, <1>7, <1>8, <1>9, <1>13, Plain DEF RecordedInv
  <2>2. \A q \in Plugins : pipe'[q].pc = "none"
    BY <1>3 DEF NoPipe
  <2> QED
    BY <1>4, <2>1, <2>2 DEF RecordedInv, Busy
<1>14. PlaceInv'
  BY <1>2, <1>4 DEF PlaceInv
<1>15. ASSUME ~raced', ~torn' PROVE FlagInv'
  <2>1. FlagInv
    BY <1>0, <1>2, <1>9, <1>15
  <2>2. ASSUME NEW s \in Slots, NEW p \in Plugins, SlotOf[p] = s
        PROVE  records'[p].active <=> p \in {selection'[s]}
    <3>1. records[p].active <=> p = selection[s]
      BY <1>5, <2>1, <2>2 DEF FlagInv, Flagged
    <3>2. CASE p = selection[s]
      <4>1. Exists(p)
        BY <1>0, <3>1, <3>2 DEF LocksInv
      <4> QED
        BY <1>2, <1>8, <2>2, <3>1, <3>2, <4>1, Plain
    <3>3. CASE p # selection[s]
      BY <1>2, <1>7, <1>8, <2>2, <3>1, <3>3, Plain
    <3> QED
      BY <3>2, <3>3
  <2>3. \A s \in Slots : Flagged(s, {selection[s]})'
    BY <2>2 DEF Flagged
  <2>4. \A q \in Plugins : records'[q].active /\ records'[q].previous # NoPlugin =>
          Exists(records'[q].previous)
    BY <1>8, <2>1 DEF FlagInv
  <2>5. \A q \in Plugins : records'[q].active /\ records'[q].previous # NoPlugin =>
          Exists(records[q].previous)'
    <3>1. \A q \in Plugins : Exists(q) => records'[q].state \notin {"none", "deleted"}
      BY <1>8 DEF Exists
    <3> QED
      BY <2>4, <3>1 DEF Exists
  <2> QED
    BY <1>4, <2>3, <2>5 DEF FlagInv
<1>16. RunInv'
  <2>1. ASSUME NEW s \in Slots PROVE Runs(serving[s])'
    <3>1. serving'[s] = chosen[s] /\ chosen[s] \in Impls
      BY <1>2, <1>7
    <3>2. Hosted(chosen[s]) \/ chosen[s] \in instances'
      BY <1>2, <3>1, Plain DEF Hosted
    <3> QED
      BY <3>1, <3>2 DEF Runs, Hosted
  <2> QED
    BY <1>4, <2>1 DEF RunInv
<1> QED
  BY <1>4, <1>10, <1>11, <1>12, <1>13, <1>14, <1>15, <1>16 DEF IInv

-------------------------------------------------------------------------------
(* The theorems                                                            *)

LEMMA CallStepPreserves ==
  ASSUME IInv, NEW c \in Callers, CallStep(c), raced' = (raced \/ Races')
  PROVE  IInv'
<1>1. ASSUME SwitchStep(c) PROVE IInv'
  BY <1>1, SwitchPreserves DEF SwitchStep
<1>2. CASE Lock(c)
  <2>1. CASE lock[SlotIn(c)] = NoCaller /\ Locking(c)
    BY <1>1, <1>2, <2>1, LockGranted
  <2>2. CASE ~(lock[SlotIn(c)] = NoCaller /\ Locking(c))
    <3>1. Return(c) /\ UNCHANGED <<records, lock, stale>>
      BY <1>2, <2>2 DEF Lock
    <3> QED
      BY <1>2, <3>1, LockRefused, QuietPreserves
  <2> QED
    BY <2>1, <2>2
<1>3. CASE CheckTargets(c)
  BY <1>3, TargetsChecked, QuietPreserves
<1> QED
  BY <1>1, <1>2, <1>3, PrepareTargetStep, MigrateStep, SwapStep, CommitStep, RecordNewStep,
     RetireStep, StopDeletedStep, EraseStep DEF CallStep

LEMMA Initially == Init => IInv
<1> SUFFICES ASSUME Init PROVE IInv
  OBVIOUS
<1>1. /\ up = TRUE /\ pipe = [p \in Plugins |-> NoPipe] /\ call = [c \in Callers |-> NoCall]
      /\ lock = [s \in Slots |-> NoCaller] /\ active = [s \in Slots |-> NoPlugin]
      /\ serving = [s \in Slots |-> NoPlugin] /\ selection = [s \in Slots |-> NoPlugin]
      /\ armed = {} /\ stopping = {} /\ instances = {} /\ tested = {}
      /\ spent = [e \in Events |-> 0] /\ records = [p \in Plugins |-> Blank("none")]
      /\ raced = FALSE /\ torn = FALSE /\ stale = FALSE /\ late = FALSE
  BY DEF Init, RegistryInit
<1>2. /\ Blank("none") \in Record /\ Blank("none").state = "none" /\ Blank("none").active = FALSE
      /\ Blank("none").previous = NoPlugin /\ Blank("none").passed = FALSE /\ "none" \notin Proven
  BY Plain DEF Blank, Record, Proven, States
<1>3. NoPipe \in Pipe /\ NoPipe.pc = "none" /\ NoCall \in Call
  BY Plain DEF NoPipe, Pipe, NoCall, Call
<1>4. TypeOK
  BY <1>1, <1>2, <1>3, Plain DEF TypeOK, RegistryTypeOK
<1>5. \A c \in Callers : CallShape(c) /\ ~Holding(c) /\ call[c].mode = "none"
  BY <1>1 DEF CallShape, Holding, NoCall
<1>6. \A p \in Plugins : records[p] = Blank("none") /\ pipe[p] = NoPipe
  BY <1>1
<1> HIDE DEF NoPipe, NoCall, Blank
<1>7. LocksInv
  BY <1>1, <1>2, <1>5, <1>6 DEF LocksInv
<1>8. VettedInv
  BY <1>1, <1>2, <1>3, <1>5, <1>6 DEF VettedInv, Vetted
<1>9. RecordedInv
  BY <1>1, <1>2, <1>3, <1>5, <1>6 DEF RecordedInv, Busy
<1>10. PlaceInv /\ RunInv
  BY <1>1, <1>5 DEF PlaceInv, RunInv, Runs, Hosted
<1>11. FlagInv
  BY <1>1, <1>2, <1>5, <1>6, Plain DEF FlagInv, Flagged
<1>12. ~Races
  BY <1>5 DEF Races
<1> QED
  BY <1>4, <1>7, <1>8, <1>9, <1>10, <1>11, <1>12 DEF IInv

LEMMA Stuttering == ASSUME IInv, UNCHANGED vars PROVE IInv'
<1>1. /\ UNCHANGED <<records, selection, up, pipe, call, lock, active, serving, armed, stopping>>
      /\ UNCHANGED <<instances, spent, tested, raced, torn, stale, late>>
  BY DEF vars, memoryVars, registryVars
<1>2. TypeOK'
  BY <1>1 DEF IInv, TypeOK, RegistryTypeOK
<1>3. LocksInv'
  BY <1>1 DEF IInv, LocksInv, CallShape, Holding, SlotIn, Exists
<1>4. VettedInv'
  BY <1>1 DEF IInv, VettedInv, Vetted, SlotIn
<1>5. (Races' <=> Races) /\ raced' = raced
  BY <1>1 DEF Races, InUse
<1>6. (RecordedInv' <=> RecordedInv)
  BY <1>1 DEF RecordedInv, Holding, Exists, Unknown, Busy, RollbackTarget, Listed
<1>7. (PlaceInv' <=> PlaceInv)
  BY <1>1 DEF PlaceInv, PlaceOf, Holding, SlotIn
<1>8. (FlagInv' <=> FlagInv)
  BY <1>1 DEF FlagInv, Flagged, Holding, SlotIn, Exists
<1>9. (RunInv' <=> RunInv)
  BY <1>1 DEF RunInv, Runs, Holding
<1> QED
  BY <1>1, <1>2, <1>3, <1>4, <1>5, <1>6, <1>7, <1>8, <1>9 DEF IInv

LEMMA Inductive == IInv /\ [Next]_vars => IInv'
<1> SUFFICES ASSUME IInv, [Next]_vars PROVE IInv'
  OBVIOUS
<1>1. CASE Steps /\ raced' = (raced \/ Races')
  <2>0. TypeOK /\ LocksInv
    BY DEF IInv
  <2>1. ASSUME NEW p \in Plugins, Install(p) \/ PipelineStep(p) PROVE IInv'
    BY <1>1, <2>0, <2>1, InstallEffects, StageEffects, PipePreserves
  <2>2. ASSUME NEW p \in Plugins, AutoActivate(p) PROVE IInv'
    <3>1. p \in Callers
      BY Plain
    <3> QED
      BY <1>1, <2>2, <3>1, ReadSteps, QuietPreserves
  <2>3. ASSUME NEW p \in Plugins, NEW q \in Plugins, Upgrade(q, p) PROVE IInv'
    BY <2>1, <2>3 DEF Upgrade
  <2>4. ASSUME NEW c \in Admins, NEW p \in Plugins, Requests(c, p) PROVE IInv'
    <3>1. c \in Callers
      BY Plain
    <3>2. QuietEffect(c)
      BY <2>4, <3>1, ReadSteps DEF Requests
    <3> QED
      BY <1>1, <3>1, <3>2, QuietPreserves
  <2>5. ASSUME NEW c \in Callers, CallStep(c) PROVE IInv'
    BY <1>1, <2>5, CallStepPreserves
  <2>6. ASSUME NEW p \in Plugins, TimerFires(p) PROVE IInv'
    BY <1>1, <2>6, TimerStep, QuietPreserves
  <2>7. ASSUME NEW p \in Plugins, StopReplaced(p) PROVE IInv'
    BY <1>1, <2>7, StopReplacedStep
  <2>8. CASE Crash \/ Restore
    BY <1>1, <2>8, CrashStep, RestoreStep
  <2> QED
    BY <1>1, <2>1, <2>2, <2>3, <2>4, <2>5, <2>6, <2>7, <2>8 DEF Steps
<1>2. CASE UNCHANGED vars
  BY <1>2, Stuttering
<1> QED
  BY <1>1, <1>2 DEF Next, CheckActiveHealth

LEMMA Always == Spec => []IInv
<1> QED
  BY Initially, Inductive, PTL DEF Spec

(* A plugin serves a slot only after its contract suite has passed, in any *)
(* number of installs, switches, rollbacks, deletions, faults and crashes. *)
THEOREM ServedHasPassed == Spec => []ServedIsTested
<1>1. IInv => ServedIsTested
  BY DEF IInv, VettedInv, Vetted, ServedIsTested
<1> QED
  BY <1>1, Always, PTL

(* What an unlocked slot selects serves it and alone is flagged active,    *)
(* unless a deletion raced a switch or a crash tore a commit; and no       *)
(* container outlives its record, unless a deletion raced.                 *)
THEOREM MemoryAgrees == Spec => []RecordsAgree
<1>1. IInv => RecordsAgree
  <2> SUFFICES ASSUME IInv PROVE RecordsAgree
    OBVIOUS
  <2>1. TypeOK /\ InstancesHaveRecords
    BY DEF IInv, RecordedInv, InstancesHaveRecords
  <2>2. SelectionKept
    <3>1. ASSUME ~torn, ~raced, up, NEW s \in Slots, lock[s] = NoCaller
          PROVE  /\ selection[s] = serving[s] /\ selection[s] = active[s]
                 /\ \A p \in Plugins : SlotOf[p] = s => (records[p].active <=> selection[s] = p)
      BY <3>1 DEF IInv, PlaceInv, FlagInv, Flagged
    <3> QED
      BY <3>1 DEF SelectionKept, SelectedIsActive
  <2> QED
    BY <2>1, <2>2 DEF RecordsAgree
<1> QED
  BY <1>1, Always, PTL

(* The plugin an active one would roll back to is still installed, unless  *)
(* a deletion raced a switch or a crash tore a commit.                     *)
THEOREM TargetKept == Spec => []RollbackTargetKept
<1>1. IInv => RollbackTargetKept
  BY DEF IInv, FlagInv, RollbackTargetKept
<1> QED
  BY <1>1, Always, PTL

(* The plugin that serves a slot runs, unless a timer was late, a deletion *)
(* raced a switch or a crash tore a commit.                                *)
THEOREM ServedKeepsRunning == Spec => []ServedRunsUnlessLate
<1>1. IInv => ServedRunsUnlessLate
  <2>1. RunInv => (up => \A s \in Slots : Hosted(serving[s]) \/ serving[s] \in instances)
    BY DEF RunInv, Runs
  <2> QED
    BY <2>1 DEF IInv, ServedRunsUnlessLate, ServedRuns
<1> QED
  BY <1>1, Always, PTL
===============================================================================
