---------------------------- MODULE SlotSwitchProofs ----------------------------
(***************************************************************************)
(* What a switch of a slot keeps, for any number of plugins, entries,      *)
(* queries, switches, failing calls and crashes, as long as the registry's *)
(* own calls do not leave the manager in doubt: memory and registry agree  *)
(* about what serves each slot, the live threshold fits the index in use,  *)
(* a re-embedding is all or nothing, and what is stored stays servable.    *)
(***************************************************************************)
EXTENDS SlotSwitch, TLAPS

(* A refused SetActive has an undo; its lost reply, and any failure of the *)
(* updates of records that follow it, has none.                            *)
RegistryReliable ==
  Faults \cap {<<"setActive", "replyLost">>, <<"recordNew", "refused">>,
               <<"recordNew", "replyLost">>, <<"recordOld", "refused">>} = {}

BeforeSwap == {"plan", "pause", "migrate", "save", "restore", "swap", "abort"}
BeforeCommit == {"after", "release", "commit"}

(* A switch is among the implementations of its slot, and what it does to  *)
(* contents belongs to that slot.                                          *)
Placed(s, r) ==
  /\ r.target \in ImplsOf(s) /\ r.old \in ImplsOf(s) /\ r.replaced \in ImplsOf(s)
  /\ r.how = "reembed" => s = "embedder"
  /\ r.how = "adopt" => s = "persistence"
  /\ r.pc \in {"save", "restore"} => r.how = "reembed"
  /\ r.how = "reembed" /\ r.pc \notin {"idle", "plan", "pause"} => r.saved # NoThreshold
  /\ r.pc = "record" => r.target # NoPlugin

(* What serves, what the manager believes and what the registry selects.   *)
Follows(r, srv, act, sel) ==
  /\ r.pc \in BeforeSwap \cup {"idle"} => srv = act /\ sel = act
  /\ r.pc \in BeforeCommit => srv = r.target /\ r.replaced = act /\ sel = act
  /\ r.pc \in {"record", "finish"} => srv = r.target /\ sel = r.target
  /\ r.pc # "idle" => r.old = act

(* Which records are flagged active.                                       *)
Flagged(s) ==
  \A p \in Plugins : SlotOf[p] = s =>
    /\ sw[s].pc = "finish" =>
         (records[p].active <=> p \in {sw[s].target, sw[s].old})
    /\ sw[s].pc # "finish" => (records[p].active <=> active[s] = p)

SlotInv(s) ==
  /\ Placed(s, sw[s])
  /\ up => Follows(sw[s], serving[s], active[s], selection[s])
  /\ ~up => Idle(s)
  /\ spent["crash"] = 0 => Flagged(s)

ImplsInPlace ==
  /\ \A s \in Slots :
       serving[s] \in ImplsOf(s) /\ selection[s] \in ImplsOf(s) /\ active[s] \in ImplsOf(s)
  /\ \A p \in Plugins : records[p].previous \in ImplsOf(SlotOf[p])

SwitchInv ==
  /\ TypeOK
  /\ ImplsInPlace
  /\ ~up => spent["crash"] > 0
  /\ \A s \in Slots : SlotInv(s)

-------------------------------------------------------------------------------
(* Slots and switches                                                      *)

LEMMA Constants ==
  /\ Slots = {"embedder", "vectorStore", "persistence", "policy"}
  /\ NoPlugin \notin Plugins /\ NoSlot \notin Slots
  /\ \A s \in Slots : NoPlugin \in ImplsOf(s) /\ ImplsOf(s) \subseteq Impls
  /\ \A s \in Slots : \A p \in ImplsOf(s) : p = NoPlugin \/ (p \in Plugins /\ SlotOf[p] = s)
  /\ \A p \in Plugins : SlotOf[p] \in Slots /\ p \in ImplsOf(SlotOf[p])
  /\ \A p \in ImplsOf("embedder") : SpaceOf[p] \in Spaces
  /\ \A p \in ImplsOf("vectorStore") : MetricOf[p] \in Thresholds
  /\ Blocked \notin Thresholds /\ NoThreshold \notin Thresholds /\ Blocked # NoThreshold
  BY PluginsAssumption, SlotsAssumption, SpacesAssumption DEF ImplsOf, Impls

(* A switch with some steps made.                                          *)
SameSwitch(q, r) ==
  /\ q.target = r.target /\ q.old = r.old /\ q.replaced = r.replaced
  /\ q.how = r.how /\ q.saved = r.saved

LEMMA GoKeeps ==
  ASSUME NEW s \in Slots, NEW step \in Steps, sw \in [Slots -> Switch], Go(s, step)
  PROVE  /\ sw' \in [Slots -> Switch]
         /\ sw'[s].pc = step /\ SameSwitch(sw'[s], sw[s])
         /\ \A t \in Slots \ {s} : sw'[t] = sw[t]
<1>1. sw' = [sw EXCEPT ![s] = [sw[s] EXCEPT !.pc = step]]
  BY DEF Go
<1> DEFINE r == [sw[s] EXCEPT !.pc = step]
<1>2. r \in Switch /\ r.pc = step /\ SameSwitch(r, sw[s])
  BY DEF Switch, SameSwitch
<1> HIDE DEF r
<1> QED
  BY <1>1, <1>2 DEF r

(* A switch whose entries to save shrink, or that has swapped.             *)
LEMMA SavedLess ==
  ASSUME NEW r \in Switch, NEW todo \in SUBSET Ids
  PROVE  /\ [r EXCEPT !.todo = todo] \in Switch
         /\ [r EXCEPT !.todo = todo].pc = r.pc
         /\ SameSwitch([r EXCEPT !.todo = todo], r)
<1> DEFINE q == [r EXCEPT !.todo = todo]
<1>1. q \in Switch
  BY DEF Switch
<1>2. /\ q.pc = r.pc /\ q.target = r.target /\ q.old = r.old /\ q.replaced = r.replaced
      /\ q.how = r.how /\ q.saved = r.saved
  BY DEF Switch
<1> QED
  BY <1>1, <1>2 DEF SameSwitch

LEMMA Swapped ==
  ASSUME NEW r \in Switch, NEW step \in Steps, NEW old \in Impls
  PROVE  LET q == [r EXCEPT !.replaced = old, !.pc = step]
         IN  /\ q \in Switch /\ q.pc = step /\ q.replaced = old
             /\ q.target = r.target /\ q.old = r.old /\ q.how = r.how
             /\ q.saved = r.saved
<1> DEFINE q == [r EXCEPT !.replaced = old, !.pc = step]
<1>1. q \in Switch
  BY DEF Switch
<1>2. q.pc = step /\ q.replaced = old
  BY DEF Switch
<1>3. q.target = r.target /\ q.old = r.old /\ q.how = r.how /\ q.saved = r.saved
  BY DEF Switch
<1> QED
  BY <1>1, <1>2, <1>3

LEMMA Retired ==
  ASSUME NEW r \in Record
  PROVE  LET q == [r EXCEPT !.state = "ready", !.active = FALSE]
         IN  q \in Record /\ q.previous = r.previous /\ ~q.active
<1>1. "ready" \in States /\ FALSE \in BOOLEAN
  BY DEF States
<1> QED
  BY <1>1 DEF Record

LEMMA NoSwitchFits ==
  /\ NoSwitch \in Switch
  /\ NoSwitch.pc = "idle" /\ NoSwitch.target = NoPlugin /\ NoSwitch.old = NoPlugin
  /\ NoSwitch.replaced = NoPlugin /\ NoSwitch.how = "none"
  BY DEF NoSwitch, Switch, Steps, Impls, States, GivenThresholds, Hows, Contents, Nothing

LEMMA DoneKeeps ==
  ASSUME NEW s \in Slots, sw \in [Slots -> Switch], Done(s)
  PROVE  /\ sw' \in [Slots -> Switch]
         /\ sw'[s] = NoSwitch /\ sw'[s].pc = "idle" /\ Placed(s, sw'[s])
         /\ \A t \in Slots \ {s} : sw'[t] = sw[t]
<1>1. sw' = [sw EXCEPT ![s] = NoSwitch]
  BY DEF Done
<1>2. Placed(s, NoSwitch)
  BY NoSwitchFits, Constants DEF Placed
<1> QED
  BY <1>1, <1>2, NoSwitchFits

LEMMA StateChange ==
  ASSUME SwitchInv, NEW p, NEW st \in States, SetState(p, st)
  PROVE  /\ records' \in [Plugins -> Record]
         /\ \A q \in Plugins : /\ records'[q].active = records[q].active
                               /\ records'[q].previous = records[q].previous
<1>1. records \in [Plugins -> Record]
  BY DEF SwitchInv, TypeOK, RegistryTypeOK
<1>2. records' = [q \in Plugins |-> IF q = p THEN [records[q] EXCEPT !.state = st]
                                             ELSE records[q]]
  BY <1>1 DEF SetState
<1>3. ASSUME NEW q \in Plugins
      PROVE  /\ records'[q] \in Record
             /\ records'[q].active = records[q].active
             /\ records'[q].previous = records[q].previous
  BY <1>1, <1>2 DEF Record
<1> QED
  BY <1>2, <1>3

LEMMA Spending ==
  ASSUME SwitchInv, NEW e \in Events \ {"crash"}, Spend(e) \/ Answered
  PROVE  spent' \in [Events -> Nat] /\ spent'["crash"] = spent["crash"]
  BY DEF SwitchInv, TypeOK, Spend, Answered, Events

(* A slot that a step does not concern.                                    *)
LEMMA OtherSlot ==
  ASSUME NEW t \in Slots, SlotInv(t), sw'[t] = sw[t], serving'[t] = serving[t],
         active'[t] = active[t], selection'[t] = selection[t], up' = up,
         spent'["crash"] = spent["crash"],
         \A p \in Plugins : SlotOf[p] = t => records'[p].active = records[p].active
  PROVE  SlotInv(t)'
  BY DEF SlotInv, Placed, Follows, Flagged, Idle

LEMMA TypesOf ==
  ASSUME SwitchInv
  PROVE  /\ records \in [Plugins -> Record] /\ selection \in [Slots -> Impls]
         /\ serving \in [Slots -> Impls] /\ active \in [Slots -> Impls]
         /\ sw \in [Slots -> Switch]
         /\ kept \in [ImplsOf("persistence") -> Contents]
         /\ indexed \in [ImplsOf("vectorStore") -> Contents]
         /\ tracked \in [ImplsOf("policy") -> SUBSET Ids]
         /\ gate \in Slots \cup {NoSlot} /\ threshold \in Thresholds \cup {Blocked}
         /\ asked \in [Clients -> Spaces \cup {NoSpace}] /\ queued \in [Spaces -> Nat]
         /\ up \in BOOLEAN /\ spent \in [Events -> Nat]
         /\ overlapped \in BOOLEAN /\ skipped \in BOOLEAN /\ unrestored \in BOOLEAN
  BY DEF SwitchInv, TypeOK, RegistryTypeOK, CacheTypeOK

(* The contents of the components in use.                                  *)
LEMMA InUse ==
  ASSUME SwitchInv
  PROVE  Store \in Contents /\ Index \in Contents /\ Tracked \subseteq Ids
<1>1. /\ serving["persistence"] \in ImplsOf("persistence")
      /\ serving["vectorStore"] \in ImplsOf("vectorStore")
      /\ serving["policy"] \in ImplsOf("policy")
  BY Constants DEF SwitchInv, ImplsInPlace
<1> QED
  BY <1>1, TypesOf DEF Store, Index, Tracked

LEMMA NothingFits ==
  Nothing \in Contents /\ \A f \in Contents : Held(f) \subseteq Ids
  BY DEF Nothing, Contents, Held

LEMMA KeptAs ==
  ASSUME SwitchInv, NEW f \in Contents
  PROVE  /\ KeepAs(f) => kept' \in [ImplsOf("persistence") -> Contents]
         /\ IndexAs(f) => indexed' \in [ImplsOf("vectorStore") -> Contents]
  BY TypesOf DEF KeepAs, IndexAs

LEMMA TrackedAs ==
  ASSUME SwitchInv, NEW S \in SUBSET Ids, TrackAs(S)
  PROVE  tracked' \in [ImplsOf("policy") -> SUBSET Ids]
  BY TypesOf DEF TrackAs

(* A step of a migration: nothing but contents changes, and the switch     *)
(* stays before its swap.                                                  *)
LEMMA MigrationKeeps ==
  ASSUME SwitchInv, NEW s \in Slots, up,
         sw[s].pc \in BeforeSwap \ {"plan", "pause"},
         sw' \in [Slots -> Switch],
         \A t \in Slots \ {s} : sw'[t] = sw[t],
         SameSwitch(sw'[s], sw[s]),
         sw'[s].pc \in BeforeSwap \ {"plan", "pause"},
         sw'[s].pc \in {"save", "restore"} => sw[s].how = "reembed",
         UNCHANGED <<registryVars, serving, gate, threshold, trafficVars, up, active,
                     overlapped, skipped>>,
         unrestored' \in BOOLEAN,
         spent' \in [Events -> Nat] /\ spent'["crash"] = spent["crash"],
         kept' \in [ImplsOf("persistence") -> Contents],
         indexed' \in [ImplsOf("vectorStore") -> Contents],
         tracked' \in [ImplsOf("policy") -> SUBSET Ids]
  PROVE  SwitchInv'
<1>1. TypeOK'
  BY TypesOf DEF TypeOK, RegistryTypeOK, CacheTypeOK, registryVars, trafficVars
<1>2. ImplsInPlace' /\ (~up => spent["crash"] > 0)'
  BY DEF SwitchInv, ImplsInPlace, registryVars
<1>3. SlotInv(s)'
  <2>1. SlotInv(s)
    BY DEF SwitchInv
  <2>2. /\ sw'[s].target = sw[s].target /\ sw'[s].old = sw[s].old
        /\ sw'[s].replaced = sw[s].replaced
        /\ sw'[s].how = sw[s].how /\ sw'[s].saved = sw[s].saved
    BY DEF SameSwitch
  <2>3. /\ sw[s].pc \notin {"idle", "plan", "pause", "record", "finish"}
        /\ sw'[s].pc \notin {"idle", "plan", "pause", "record", "finish"}
        /\ sw'[s].pc \notin BeforeCommit
    BY DEF BeforeSwap, BeforeCommit
  <2>4. Placed(s, sw'[s])
    BY <2>1, <2>2, <2>3 DEF SlotInv, Placed
  <2>5. Follows(sw'[s], serving[s], active[s], selection[s])
    BY <2>1, <2>2, <2>3 DEF SlotInv, Follows
  <2>6. spent["crash"] = 0 => Flagged(s)'
    BY <2>1, <2>2, <2>3 DEF SlotInv, Flagged, registryVars
  <2> QED
    BY <2>4, <2>5, <2>6 DEF SlotInv, registryVars
<1>4. \A t \in Slots \ {s} : SlotInv(t)'
  BY OtherSlot DEF SwitchInv, registryVars
<1> QED
  BY <1>1, <1>2, <1>3, <1>4 DEF SwitchInv

-------------------------------------------------------------------------------
(* Migrations                                                              *)

LEMMA StepNames ==
  BeforeSwap \cup BeforeCommit \cup {"idle", "record", "finish"} = Steps
  BY DEF BeforeSwap, BeforeCommit, Steps

LEMMA FlushKeeps ==
  ASSUME SwitchInv, NEW s \in Slots, MigrateByFlush(s)
  PROVE  SwitchInv'
<1>1. up /\ sw[s].pc = "migrate"
  BY DEF MigrateByFlush, At
<1>2. PICK step \in {"swap", "abort"} : Go(s, step)
  BY DEF MigrateByFlush
<1>3. /\ sw' \in [Slots -> Switch] /\ sw'[s].pc = step /\ SameSwitch(sw'[s], sw[s])
      /\ \A t \in Slots \ {s} : sw'[t] = sw[t]
  BY <1>2, GoKeeps, TypesOf DEF Steps
<1>4. /\ UNCHANGED <<registryVars, serving, gate, threshold, trafficVars, up, active, histVars>>
      /\ KeepAs(Nothing) \/ UNCHANGED kept
      /\ IndexAs(Nothing) \/ UNCHANGED indexed
      /\ TrackAs({}) \/ UNCHANGED tracked
  BY DEF MigrateByFlush
<1>5. /\ kept' \in [ImplsOf("persistence") -> Contents]
      /\ indexed' \in [ImplsOf("vectorStore") -> Contents]
      /\ tracked' \in [ImplsOf("policy") -> SUBSET Ids]
  BY <1>4, KeptAs, TrackedAs, NothingFits, TypesOf
<1>6. spent' \in [Events -> Nat] /\ spent'["crash"] = spent["crash"]
  BY Spending DEF MigrateByFlush, Refused, ReplyLost, Events
<1>7. unrestored' \in BOOLEAN /\ overlapped' = overlapped /\ skipped' = skipped
  BY <1>4, TypesOf DEF histVars
<1> QED
  BY <1>1, <1>2, <1>3, <1>4, <1>5, <1>6, <1>7, MigrationKeeps DEF BeforeSwap

LEMMA EmbedKeeps ==
  ASSUME SwitchInv, NEW s \in Slots, EmbedEntries(s)
  PROVE  SwitchInv'
<1>1. up /\ sw[s].pc = "migrate" /\ sw[s].how = "reembed"
  BY DEF EmbedEntries, At
<1> DEFINE q == [sw[s] EXCEPT !.pc = "save", !.listed = Store, !.todo = Held(Store)]
           a == [sw[s] EXCEPT !.pc = "abort", !.listed = Store]
<1>2. sw[s] \in Switch /\ Store \in Contents /\ Held(Store) \subseteq Ids
  BY TypesOf, InUse, NothingFits
<1>3. /\ q \in Switch /\ q.pc = "save" /\ SameSwitch(q, sw[s])
      /\ a \in Switch /\ a.pc = "abort" /\ SameSwitch(a, sw[s])
  BY <1>2 DEF Switch, SameSwitch, Steps
<1>4. sw' = [sw EXCEPT ![s] = q] \/ sw' = [sw EXCEPT ![s] = a]
  BY DEF EmbedEntries
<1> HIDE DEF q, a
<1>5. /\ sw' \in [Slots -> Switch] /\ sw'[s].pc \in {"save", "abort"}
      /\ SameSwitch(sw'[s], sw[s])
      /\ \A t \in Slots \ {s} : sw'[t] = sw[t]
  BY <1>3, <1>4, TypesOf
<1>6. UNCHANGED <<registryVars, cacheVars, up, active, histVars>>
  BY DEF EmbedEntries
<1>7. spent' \in [Events -> Nat] /\ spent'["crash"] = spent["crash"]
  BY Spending DEF EmbedEntries, Faulty, Refused, ReplyLost, Events
<1> QED
  BY <1>1, <1>5, <1>6, <1>7, TypesOf, MigrationKeeps
     DEF BeforeSwap, cacheVars, contentVars, histVars

LEMMA SaveKeeps ==
  ASSUME SwitchInv, NEW s \in Slots, SaveEntry(s)
  PROVE  SwitchInv'
<1>1. up /\ sw[s].pc = "save"
  BY DEF SaveEntry, At
<1>2. sw[s].how = "reembed" /\ s = "embedder" /\ SpaceOf[sw[s].target] \in Spaces
  BY <1>1, Constants DEF SwitchInv, SlotInv, Placed
<1>3. PICK i \in sw[s].todo :
        \/ /\ Answered
           /\ KeepAs([Store EXCEPT ![i] = SpaceOf[sw[s].target]])
           /\ sw' = [sw EXCEPT ![s].todo = Unsaved(s, i)]
        \/ /\ Go(s, "restore")
           /\ \/ Refused("save") /\ UNCHANGED kept
              \/ /\ ReplyLost("save")
                 /\ KeepAs([Store EXCEPT ![i] = SpaceOf[sw[s].target]])
  BY DEF SaveEntry
<1>4. [Store EXCEPT ![i] = SpaceOf[sw[s].target]] \in Contents
  BY <1>2, InUse DEF Contents
<1>5. kept' \in [ImplsOf("persistence") -> Contents]
  BY <1>3, <1>4, KeptAs, TypesOf
<1> DEFINE q == [sw[s] EXCEPT !.todo = Unsaved(s, i)]
<1>6. q \in Switch /\ q.pc = "save" /\ SameSwitch(q, sw[s])
  <2>1. sw[s] \in Switch /\ sw[s].todo \in SUBSET Ids
    BY TypesOf DEF Switch
  <2>2. Unsaved(s, i) \in SUBSET Ids
    BY <2>1 DEF Unsaved
  <2> HIDE DEF q
  <2>3. q = [sw[s] EXCEPT !.todo = Unsaved(s, i)]
    BY DEF q
  <2> QED
    BY <1>1, <2>1, <2>2, <2>3, SavedLess
<1>7. sw' = [sw EXCEPT ![s] = q] \/ Go(s, "restore")
  BY <1>3
<1> HIDE DEF q
<1>8. /\ sw' \in [Slots -> Switch] /\ sw'[s].pc \in {"save", "restore"}
      /\ SameSwitch(sw'[s], sw[s])
      /\ \A t \in Slots \ {s} : sw'[t] = sw[t]
  <2>1. CASE sw' = [sw EXCEPT ![s] = q]
    BY <1>6, <2>1, TypesOf
  <2>2. CASE Go(s, "restore")
    BY <2>2, GoKeeps, TypesOf DEF Steps
  <2> QED
    BY <1>7, <2>1, <2>2
<1>9. UNCHANGED <<registryVars, serving, indexed, tracked, gate, threshold, trafficVars, up,
                  active, histVars>>
  BY DEF SaveEntry
<1>10. spent' \in [Events -> Nat] /\ spent'["crash"] = spent["crash"]
  BY <1>3, Spending DEF Refused, ReplyLost, Events
<1> QED
  BY <1>1, <1>2, <1>5, <1>8, <1>9, <1>10, TypesOf, MigrationKeeps DEF BeforeSwap, histVars

LEMMA RebuildIndexKeeps ==
  ASSUME SwitchInv, NEW s \in Slots, RebuildIndex(s)
  PROVE  SwitchInv'
<1>1. up /\ sw[s].pc = "save"
  BY DEF RebuildIndex, At
<1>2. sw[s].how = "reembed" /\ s = "embedder" /\ SpaceOf[sw[s].target] \in Spaces
  BY <1>1, Constants DEF SwitchInv, SlotInv, Placed
<1>3. PICK step \in {"swap", "restore"} : Go(s, step)
  BY DEF RebuildIndex
<1>4. /\ sw' \in [Slots -> Switch] /\ sw'[s].pc = step /\ SameSwitch(sw'[s], sw[s])
      /\ \A t \in Slots \ {s} : sw'[t] = sw[t]
  BY <1>3, GoKeeps, TypesOf DEF Steps
<1>5. Reembedded(s) \in Contents
  BY <1>2 DEF Reembedded, Contents
<1>6. indexed' \in [ImplsOf("vectorStore") -> Contents]
  BY <1>5, KeptAs, TypesOf DEF RebuildIndex
<1>7. UNCHANGED <<registryVars, serving, kept, tracked, gate, threshold, trafficVars, up,
                  active, histVars>>
  BY DEF RebuildIndex
<1>8. spent' \in [Events -> Nat] /\ spent'["crash"] = spent["crash"]
  BY Spending DEF RebuildIndex, Refused, ReplyLost, Events
<1> QED
  BY <1>1, <1>2, <1>4, <1>6, <1>7, <1>8, TypesOf, MigrationKeeps DEF BeforeSwap, histVars

LEMMA RestoreKeeps ==
  ASSUME SwitchInv, NEW s \in Slots, Restore(s)
  PROVE  SwitchInv'
<1>1. up /\ sw[s].pc = "restore" /\ Go(s, "abort")
  BY DEF Restore, At
<1>2. /\ sw' \in [Slots -> Switch] /\ sw'[s].pc = "abort" /\ SameSwitch(sw'[s], sw[s])
      /\ \A t \in Slots \ {s} : sw'[t] = sw[t]
  BY <1>1, GoKeeps, TypesOf DEF Steps
<1>3. sw[s].listed \in Contents
  BY TypesOf DEF Switch
<1>4. \A S \in SUBSET Ids : PutBack(sw[s].listed, S) \in Contents
  BY <1>3, InUse DEF PutBack, Contents
<1>5. PICK S \in SUBSET Ids : KeepAs(PutBack(sw[s].listed, S))
  <2>1. Held(sw[s].listed) \subseteq Ids
    BY DEF Held
  <2> QED
    BY <2>1 DEF Restore
<1>6. kept' \in [ImplsOf("persistence") -> Contents]
  BY <1>4, <1>5, KeptAs
<1>7. IndexAs(sw[s].listed) \/ UNCHANGED indexed
  BY DEF Restore
<1>8. indexed' \in [ImplsOf("vectorStore") -> Contents]
  BY <1>3, <1>7, KeptAs, TypesOf
<1>9. /\ UNCHANGED <<registryVars, serving, tracked, gate, threshold, trafficVars, up, active,
                     overlapped, skipped>>
      /\ unrestored' \in BOOLEAN
  BY TypesOf DEF Restore
<1>10. spent' \in [Events -> Nat] /\ spent'["crash"] = spent["crash"]
  BY Spending DEF Restore, Faulty, Refused, ReplyLost, Events
<1> QED
  BY <1>1, <1>2, <1>6, <1>8, <1>9, <1>10, TypesOf, MigrationKeeps DEF BeforeSwap

LEMMA RebuildCandidateKeeps ==
  ASSUME SwitchInv, NEW s \in Slots, RebuildCandidate(s)
  PROVE  SwitchInv'
<1>1. up /\ sw[s].pc = "migrate"
  BY DEF RebuildCandidate, At
<1>2. PICK step \in {"swap", "abort"} : Go(s, step)
  BY DEF RebuildCandidate
<1>3. /\ sw' \in [Slots -> Switch] /\ sw'[s].pc = step /\ SameSwitch(sw'[s], sw[s])
      /\ \A t \in Slots \ {s} : sw'[t] = sw[t]
  BY <1>2, GoKeeps, TypesOf DEF Steps
<1>4. indexed' \in [ImplsOf("vectorStore") -> Contents]
  <2>1. \/ indexed' = [indexed EXCEPT ![sw[s].target] = Store]
        \/ indexed' = [indexed EXCEPT ![sw[s].target] = Nothing]
    BY DEF RebuildCandidate
  <2> QED
    BY <2>1, InUse, NothingFits, TypesOf
<1>5. /\ UNCHANGED <<registryVars, serving, kept, tracked, gate, threshold, trafficVars, up,
                     active, overlapped, skipped>>
      /\ unrestored' \in BOOLEAN
  BY TypesOf DEF RebuildCandidate, CleanUp
<1>6. spent' \in [Events -> Nat] /\ spent'["crash"] = spent["crash"]
  BY Spending DEF RebuildCandidate, Faulty, Refused, ReplyLost, Events
<1> QED
  BY <1>1, <1>3, <1>4, <1>5, <1>6, TypesOf, MigrationKeeps DEF BeforeSwap

LEMMA ReplayKeeps ==
  ASSUME SwitchInv, NEW s \in Slots, Replay(s)
  PROVE  SwitchInv'
<1>1. up /\ sw[s].pc = "migrate"
  BY DEF Replay, At
<1>2. PICK step \in {"swap", "abort"} : Go(s, step)
  BY DEF Replay
<1>3. /\ sw' \in [Slots -> Switch] /\ sw'[s].pc = step /\ SameSwitch(sw'[s], sw[s])
      /\ \A t \in Slots \ {s} : sw'[t] = sw[t]
  BY <1>2, GoKeeps, TypesOf DEF Steps
<1>4. tracked' \in [ImplsOf("policy") -> SUBSET Ids]
  <2>1. PICK S \in SUBSET Ids : tracked' = [tracked EXCEPT ![sw[s].target] = S]
    BY NothingFits, InUse DEF Replay
  <2> QED
    BY <2>1, TypesOf
<1>5. /\ UNCHANGED <<registryVars, serving, kept, indexed, gate, threshold, trafficVars, up,
                     active, overlapped, skipped>>
      /\ unrestored' \in BOOLEAN
  BY TypesOf DEF Replay, CleanUp
<1>6. spent' \in [Events -> Nat] /\ spent'["crash"] = spent["crash"]
  BY Spending DEF Replay, Faulty, Refused, ReplyLost, Events
<1> QED
  BY <1>1, <1>3, <1>4, <1>5, <1>6, TypesOf, MigrationKeeps DEF BeforeSwap

LEMMA CopyKeeps ==
  ASSUME SwitchInv, NEW s \in Slots, CopyEntries(s)
  PROVE  SwitchInv'
<1>1. up /\ sw[s].pc = "migrate"
  BY DEF CopyEntries, At
<1>2. PICK step \in {"swap", "abort"} : Go(s, step)
  BY DEF CopyEntries
<1>3. /\ sw' \in [Slots -> Switch] /\ sw'[s].pc = step /\ SameSwitch(sw'[s], sw[s])
      /\ \A t \in Slots \ {s} : sw'[t] = sw[t]
  BY <1>2, GoKeeps, TypesOf DEF Steps
<1>4. kept' \in [ImplsOf("persistence") -> Contents]
  <2>1. CASE kept' = [kept EXCEPT ![sw[s].target] = Store]
    BY <2>1, InUse, TypesOf
  <2>2. CASE \E i \in Held(Store) : kept' = [kept EXCEPT ![sw[s].target][i] = Store[i]]
    <3>1. PICK i \in Ids : kept' = [kept EXCEPT ![sw[s].target] =
                                      [kept[sw[s].target] EXCEPT ![i] = Store[i]]]
      BY <2>2 DEF Held
    <3>2. Store[i] \in Spaces \cup {NoSpace}
      BY InUse DEF Contents
    <3>3. ASSUME NEW f \in Contents
          PROVE  [f EXCEPT ![i] = Store[i]] \in Contents
      BY <3>2 DEF Contents
    <3> QED
      BY <3>1, <3>3, TypesOf
  <2> QED
    BY <2>1, <2>2, TypesOf DEF CopyEntries
<1>5. UNCHANGED <<registryVars, serving, indexed, tracked, gate, threshold, trafficVars, up,
                  active, histVars>>
  BY DEF CopyEntries
<1>6. spent' \in [Events -> Nat] /\ spent'["crash"] = spent["crash"]
  BY Spending DEF CopyEntries, Refused, ReplyLost, Events
<1> QED
  BY <1>1, <1>3, <1>4, <1>5, <1>6, TypesOf, MigrationKeeps DEF BeforeSwap, histVars

LEMMA MigrateKeeps ==
  ASSUME SwitchInv, NEW s \in Slots, MigrateStep(s)
  PROVE  SwitchInv'
  BY FlushKeeps, EmbedKeeps, SaveKeeps, RebuildIndexKeeps, RestoreKeeps,
     RebuildCandidateKeeps, ReplayKeeps, CopyKeeps DEF MigrateStep

-------------------------------------------------------------------------------
(* The rest of a switch                                                    *)

LEMMA StateFits ==
  ASSUME SwitchInv, NEW s \in Slots, NEW cause
  PROVE  StateAfter(s, cause) \in States
<1>1. sw[s].was \in States
  BY TypesOf DEF Switch
<1> QED
  BY <1>1 DEF StateAfter, States

(* A switch that fails leaves what the manager believes active in service. *)
LEMMA FailureKeeps ==
  ASSUME SwitchInv, NEW s \in Slots, NEW cause, up,
         sw[s].pc \notin {"idle", "finish"}, Fail(s, cause),
         selection[s] = active[s],
         serving' \in [Slots -> Impls], serving'[s] = active[s],
         \A t \in Slots \ {s} : serving'[t] = serving[t],
         UNCHANGED <<selection, contentVars, trafficVars, up, active, overlapped, skipped>>,
         unrestored' \in BOOLEAN,
         gate' \in Slots \cup {NoSlot}, threshold' \in Thresholds \cup {Blocked},
         spent' \in [Events -> Nat] /\ spent'["crash"] = spent["crash"]
  PROVE  SwitchInv'
<1>1. /\ records' \in [Plugins -> Record]
      /\ \A q \in Plugins : /\ records'[q].active = records[q].active
                            /\ records'[q].previous = records[q].previous
  BY StateFits, StateChange DEF Fail
<1>2. /\ sw' \in [Slots -> Switch] /\ sw'[s].pc = "idle" /\ Placed(s, sw'[s])
      /\ \A t \in Slots \ {s} : sw'[t] = sw[t]
  BY DoneKeeps, TypesOf DEF Fail
<1>3. TypeOK'
  BY <1>1, <1>2, TypesOf DEF TypeOK, RegistryTypeOK, CacheTypeOK, contentVars, trafficVars
<1>4. \A t \in Slots : serving'[t] \in ImplsOf(t)
  BY DEF SwitchInv, ImplsInPlace
<1>5. ImplsInPlace' /\ (~up => spent["crash"] > 0)'
  BY <1>1, <1>4 DEF SwitchInv, ImplsInPlace
<1>6. SlotInv(s)'
  <2>1. SlotInv(s)
    BY DEF SwitchInv
  <2>2. spent["crash"] = 0 => Flagged(s)'
    BY <1>1, <1>2, <2>1 DEF SlotInv, Flagged
  <2>3. Follows(sw'[s], serving'[s], active'[s], selection'[s])
    BY <1>2 DEF Follows, BeforeCommit
  <2> QED
    BY <1>2, <2>2, <2>3 DEF SlotInv
<1>7. \A t \in Slots \ {s} : SlotInv(t)'
  BY <1>1, <1>2, OtherSlot DEF SwitchInv
<1> QED
  BY <1>3, <1>5, <1>6, <1>7 DEF SwitchInv

LEMMA Following ==
  ASSUME SwitchInv, NEW s \in Slots, up
  PROVE  /\ Follows(sw[s], serving[s], active[s], selection[s])
         /\ Placed(s, sw[s]) /\ (spent["crash"] = 0 => Flagged(s))
  BY DEF SwitchInv, SlotInv

LEMMA PlanKeeps ==
  ASSUME SwitchInv, NEW s \in Slots, Plan(s)
  PROVE  SwitchInv'
<1>1. up /\ sw[s].pc = "plan"
  BY DEF Plan, At
<1>2. UNCHANGED <<selection, cacheVars, up, active, histVars>>
  BY DEF Plan
<1>3. spent' \in [Events -> Nat] /\ spent'["crash"] = spent["crash"]
  BY Spending DEF Plan, Refused, Events
<1>4. ASSUME NEW cause, Fail(s, cause)
      PROVE  SwitchInv'
  <2>1. serving[s] = active[s] /\ selection[s] = active[s]
    BY <1>1, Following DEF Follows, BeforeSwap
  <2> QED
    BY <1>1, <1>2, <1>3, <1>4, <2>1, TypesOf, FailureKeeps DEF cacheVars, histVars
<1>5. ASSUME PlanFor(s) \notin {"decide", "refuse"}, UNCHANGED records,
             sw' = [sw EXCEPT
                      ![s].pc = IF PlanFor(s) = "none" THEN "swap" ELSE "pause",
                      ![s].how = PlanFor(s),
                      ![s].wanted = WantedThreshold(s),
                      ![s].before = threshold]
      PROVE  SwitchInv'
  <2> DEFINE r == [sw[s] EXCEPT !.pc = IF PlanFor(s) = "none" THEN "swap" ELSE "pause",
                                !.how = PlanFor(s), !.wanted = WantedThreshold(s),
                                !.before = threshold]
  <2>1. /\ s \in {"embedder", "vectorStore", "persistence", "policy"}
        /\ sw[s] \in Switch /\ threshold \in GivenThresholds
    BY Constants, TypesOf DEF GivenThresholds
  <2>2. /\ PlanFor(s) \in Hows
        /\ PlanFor(s) = "reembed" => s = "embedder"
        /\ PlanFor(s) = "adopt" => s = "persistence"
    <3>1. CASE s = "embedder"
      BY <1>5, <3>1 DEF PlanFor, EmbedderPlan, Hows
    <3>2. CASE s = "vectorStore"
      BY <1>5, <3>2 DEF PlanFor, VectorStorePlan, Hows
    <3>3. CASE s = "persistence"
      BY <1>5, <3>3 DEF PlanFor, PersistencePlan, Hows
    <3>4. CASE s = "policy"
      BY <3>4 DEF PlanFor, Hows
    <3> QED
      BY <2>1, <3>1, <3>2, <3>3, <3>4
  <2>3. WantedThreshold(s) \in GivenThresholds
    BY <2>1 DEF WantedThreshold, Switch, GivenThresholds
  <2>4. /\ r \in Switch /\ r.pc \in {"swap", "pause"}
        /\ r.target = sw[s].target /\ r.old = sw[s].old /\ r.replaced = sw[s].replaced
        /\ r.how = PlanFor(s)
        /\ r.pc = "swap" => r.how = "none"
    BY <2>1, <2>2, <2>3 DEF Switch, Steps
  <2>5. sw' = [sw EXCEPT ![s] = r]
    BY <1>5
  <2> HIDE DEF r
  <2>6. sw' \in [Slots -> Switch] /\ sw'[s] = r /\ \A t \in Slots \ {s} : sw'[t] = sw[t]
    BY <2>4, <2>5, TypesOf
  <2>7. TypeOK'
    BY <1>2, <1>3, <1>5, <2>6, TypesOf
       DEF TypeOK, RegistryTypeOK, CacheTypeOK, cacheVars, contentVars, trafficVars, histVars
  <2>8. ImplsInPlace' /\ (~up => spent["crash"] > 0)'
    BY <1>1, <1>2, <1>5 DEF SwitchInv, ImplsInPlace, cacheVars
  <2>9. Placed(s, r)
    BY <1>1, <2>2, <2>4, Following DEF Placed
  <2>10. Follows(r, serving[s], active[s], selection[s])
    BY <1>1, <2>4, Following DEF Follows, BeforeSwap, BeforeCommit
  <2>11. spent["crash"] = 0 => Flagged(s)'
    BY <1>1, <1>2, <1>5, <2>4, <2>6, Following DEF Flagged
  <2>12. SlotInv(s)'
    BY <1>1, <1>2, <1>3, <2>6, <2>9, <2>10, <2>11 DEF SlotInv, cacheVars
  <2>13. \A t \in Slots \ {s} : SlotInv(t)'
    BY <1>2, <1>3, <1>5, <2>6, OtherSlot DEF SwitchInv, cacheVars
  <2> QED
    BY <2>7, <2>8, <2>12, <2>13 DEF SwitchInv
<1> QED
  BY <1>4, <1>5 DEF Plan

LEMMA PauseKeeps ==
  ASSUME SwitchInv, NEW s \in Slots, Pause(s)
  PROVE  SwitchInv'
<1> DEFINE r == [sw[s] EXCEPT !.pc = IF Migrates(s) THEN "migrate" ELSE "swap",
                              !.saved = threshold]
<1>1. up /\ sw[s].pc = "pause" /\ gate' = s /\ threshold' = PausedThreshold(s)
  BY DEF Pause, At
<1>2. sw[s] \in Switch /\ threshold \in Thresholds \cup {Blocked}
  BY TypesOf
<1>3. /\ r \in Switch /\ r.pc \in {"migrate", "swap"}
      /\ r.target = sw[s].target /\ r.old = sw[s].old /\ r.replaced = sw[s].replaced
      /\ r.how = sw[s].how /\ r.saved # NoThreshold
  <2>1. threshold \in GivenThresholds /\ threshold # NoThreshold
    BY <1>2, Constants DEF GivenThresholds
  <2> DEFINE step == IF Migrates(s) THEN "migrate" ELSE "swap"
  <2>2. step \in Steps /\ step \in {"migrate", "swap"}
    BY DEF Steps
  <2>3. r = [sw[s] EXCEPT !.pc = step, !.saved = threshold]
    OBVIOUS
  <2> HIDE DEF r, step
  <2> QED
    BY <1>2, <2>1, <2>2, <2>3 DEF Switch
<1>4. sw' = [sw EXCEPT ![s] = r]
  BY DEF Pause
<1> HIDE DEF r
<1>5. sw' \in [Slots -> Switch] /\ sw'[s] = r /\ \A t \in Slots \ {s} : sw'[t] = sw[t]
  BY <1>3, <1>4, TypesOf
<1>6. UNCHANGED <<registryVars, serving, contentVars, trafficVars, up, active, spent, histVars>>
  BY DEF Pause
<1>7. threshold' \in Thresholds \cup {Blocked}
  BY <1>1, <1>2 DEF PausedThreshold
<1>8. TypeOK'
  BY <1>1, <1>5, <1>6, <1>7, TypesOf
     DEF TypeOK, RegistryTypeOK, CacheTypeOK, registryVars, contentVars, trafficVars, histVars
<1>9. ImplsInPlace' /\ (~up => spent["crash"] > 0)'
  BY <1>6 DEF SwitchInv, ImplsInPlace, registryVars
<1>10. Placed(s, r)
  BY <1>1, <1>3, Following DEF Placed
<1>11. Follows(r, serving[s], active[s], selection[s])
  BY <1>1, <1>3, Following DEF Follows, BeforeSwap, BeforeCommit
<1>12. spent["crash"] = 0 => Flagged(s)'
  BY <1>1, <1>3, <1>5, <1>6, Following DEF Flagged, registryVars
<1>13. SlotInv(s)'
  BY <1>1, <1>5, <1>6, <1>10, <1>11, <1>12 DEF SlotInv, registryVars
<1>14. \A t \in Slots \ {s} : SlotInv(t)'
  BY <1>5, <1>6, OtherSlot DEF SwitchInv, registryVars
<1> QED
  BY <1>8, <1>9, <1>13, <1>14 DEF SwitchInv

LEMMA PauseTimesOutKeeps ==
  ASSUME SwitchInv, NEW s \in Slots, PauseTimesOut(s)
  PROVE  SwitchInv'
<1>1. up /\ sw[s].pc = "pause" /\ Fail(s, "error")
  BY DEF PauseTimesOut, At
<1>2. UNCHANGED <<selection, cacheVars, up, active, spent, histVars>>
  BY DEF PauseTimesOut
<1>3. serving[s] = active[s] /\ selection[s] = active[s]
  BY <1>1, Following DEF Follows, BeforeSwap
<1> QED
  BY <1>1, <1>2, <1>3, TypesOf, FailureKeeps DEF cacheVars, histVars

(* What a step of one slot has to show.                                    *)
LEMMA SlotSteps ==
  ASSUME SwitchInv, NEW s \in Slots, up, up' = up, TypeOK', ImplsInPlace',
         spent'["crash"] = spent["crash"],
         \A t \in Slots \ {s} : /\ sw'[t] = sw[t] /\ serving'[t] = serving[t]
                                /\ active'[t] = active[t] /\ selection'[t] = selection[t],
         \A p \in Plugins : SlotOf[p] # s => records'[p].active = records[p].active,
         Placed(s, sw'[s]),
         Follows(sw'[s], serving'[s], active'[s], selection'[s]),
         spent["crash"] = 0 => Flagged(s)'
  PROVE  SwitchInv'
<1>1. SlotInv(s)'
  BY DEF SlotInv
<1>2. \A t \in Slots \ {s} : SlotInv(t)'
  BY OtherSlot DEF SwitchInv
<1> QED
  BY <1>1, <1>2 DEF SwitchInv

LEMMA SwapKeeps ==
  ASSUME SwitchInv, NEW s \in Slots, Swap(s)
  PROVE  SwitchInv'
<1> DEFINE step == CASE sw[s].how = "none" -> "commit"
                     [] sw[s].how \in {"adopt", "empty"} -> "after"
                     [] OTHER -> "release"
           r == [sw[s] EXCEPT !.replaced = serving[s], !.pc = step]
<1>1. up /\ sw[s].pc = "swap" /\ serving' = [serving EXCEPT ![s] = sw[s].target]
  BY DEF Swap, At, Serve
<1>2. step \in BeforeCommit /\ step \in Steps
  BY DEF BeforeCommit, Steps
<1>3. sw' = [sw EXCEPT ![s] = r]
  BY DEF Swap
<1>4. /\ r \in Switch /\ r.pc = step /\ r.replaced = serving[s]
      /\ r.target = sw[s].target /\ r.old = sw[s].old
      /\ r.how = sw[s].how /\ r.saved = sw[s].saved
  <2> DEFINE old == serving[s]
             q == sw[s]
             new == [q EXCEPT !.replaced = old, !.pc = step]
  <2> HIDE DEF step
  <2>1. q \in Switch /\ old \in Impls /\ step \in Steps
    BY <1>2, TypesOf
  <2> HIDE DEF q, old
  <2>2. /\ new \in Switch /\ new.pc = step /\ new.replaced = old
        /\ new.target = q.target /\ new.old = q.old /\ new.how = q.how
        /\ new.saved = q.saved
    BY <2>1, Swapped
  <2>3. r = new
    BY DEF r, q, old
  <2> HIDE DEF new, r
  <2> QED
    BY <2>2, <2>3 DEF q, old
<1> HIDE DEF step, r
<1>5. sw' \in [Slots -> Switch] /\ sw'[s] = r /\ \A t \in Slots \ {s} : sw'[t] = sw[t]
  BY <1>3, <1>4, TypesOf
<1>6. UNCHANGED <<registryVars, contentVars, gate, threshold, trafficVars, up, active, spent,
                  histVars>>
  BY DEF Swap
<1>7. /\ sw[s].target \in ImplsOf(s) /\ serving[s] \in ImplsOf(s)
      /\ serving' \in [Slots -> Impls] /\ serving'[s] = sw[s].target
      /\ \A t \in Slots \ {s} : serving'[t] = serving[t]
  BY <1>1, Following, TypesOf, Constants DEF Placed, SwitchInv, ImplsInPlace
<1>8. TypeOK'
  BY <1>5, <1>6, <1>7, TypesOf
     DEF TypeOK, RegistryTypeOK, CacheTypeOK, registryVars, contentVars, trafficVars, histVars
<1>9. ImplsInPlace'
  BY <1>6, <1>7 DEF SwitchInv, ImplsInPlace, registryVars
<1>10. Placed(s, r)
  BY <1>1, <1>2, <1>4, <1>7, Following DEF Placed, BeforeCommit
<1>11. Follows(r, serving'[s], active[s], selection[s])
  BY <1>1, <1>2, <1>4, <1>7, Following DEF Follows, BeforeSwap, BeforeCommit
<1>12. spent["crash"] = 0 => Flagged(s)'
  BY <1>1, <1>2, <1>4, <1>5, <1>6, Following DEF Flagged, registryVars, BeforeCommit
<1> QED
  BY <1>1, <1>5, <1>6, <1>7, <1>8, <1>9, <1>10, <1>11, <1>12, SlotSteps DEF registryVars

LEMMA AfterKeeps ==
  ASSUME SwitchInv, NEW s \in Slots, After(s)
  PROVE  SwitchInv'
<1>1. up /\ sw[s].pc = "after"
  BY DEF After, At
<1>2. /\ sw[s].target \in ImplsOf(s) /\ sw[s].replaced \in ImplsOf(s)
      /\ serving[s] = sw[s].target /\ sw[s].replaced = active[s] /\ selection[s] = active[s]
      /\ sw[s].old = active[s]
  BY <1>1, Following DEF Placed, Follows, BeforeCommit
<1>3. Adopted(s) \in Contents
  <2>1. sw[s].how = "adopt" => sw[s].target \in ImplsOf("persistence")
    BY <1>1, <1>2, Following DEF Placed
  <2> QED
    BY <2>1, TypesOf, NothingFits DEF Adopted
<1>4. UNCHANGED <<registryVars, kept, gate, threshold, trafficVars, up, active, histVars>>
  BY DEF After
<1>5. spent' \in [Events -> Nat] /\ spent'["crash"] = spent["crash"]
  BY Spending DEF After, Refused, ReplyLost, Events
<1>6. PICK step \in {"release", "abort"} :
        /\ Go(s, step)
        /\ step = "release" => UNCHANGED serving
        /\ step = "abort" => Serve(s, sw[s].replaced)
  BY DEF After
<1>7. /\ sw' \in [Slots -> Switch] /\ sw'[s].pc = step /\ SameSwitch(sw'[s], sw[s])
      /\ \A t \in Slots \ {s} : sw'[t] = sw[t]
  BY <1>6, GoKeeps, TypesOf DEF Steps
<1>8. /\ indexed' \in [ImplsOf("vectorStore") -> Contents]
      /\ tracked' \in [ImplsOf("policy") -> SUBSET Ids]
  <2>1. IndexAs(Adopted(s)) \/ UNCHANGED indexed
    BY DEF After
  <2>2. TrackAs(Held(Adopted(s))) \/ UNCHANGED tracked
    BY DEF After
  <2> QED
    BY <1>3, <2>1, <2>2, KeptAs, TrackedAs, NothingFits, TypesOf
<1>9. /\ serving' \in [Slots -> Impls]
      /\ serving'[s] = IF step = "release" THEN sw[s].target ELSE active[s]
      /\ \A t \in Slots \ {s} : serving'[t] = serving[t]
  BY <1>2, <1>6, TypesOf, Constants DEF Serve
<1>10. TypeOK'
  BY <1>4, <1>5, <1>7, <1>8, <1>9, TypesOf
     DEF TypeOK, RegistryTypeOK, CacheTypeOK, registryVars, trafficVars, histVars
<1>11. ImplsInPlace'
  BY <1>2, <1>4, <1>9 DEF SwitchInv, ImplsInPlace, registryVars
<1>12. /\ sw'[s].target = sw[s].target /\ sw'[s].old = sw[s].old
       /\ sw'[s].replaced = sw[s].replaced
       /\ sw'[s].how = sw[s].how /\ sw'[s].saved = sw[s].saved
  BY <1>7 DEF SameSwitch
<1>13. Placed(s, sw'[s])
  BY <1>1, <1>7, <1>12, Following DEF Placed
<1>14. Follows(sw'[s], serving'[s], active[s], selection[s])
  BY <1>2, <1>7, <1>9, <1>12 DEF Follows, BeforeSwap, BeforeCommit
<1>15. spent["crash"] = 0 => Flagged(s)'
  BY <1>1, <1>4, <1>7, Following DEF Flagged, registryVars
<1> QED
  BY <1>1, <1>4, <1>5, <1>7, <1>9, <1>10, <1>11, <1>13, <1>14, <1>15, SlotSteps
     DEF registryVars

(* The threshold that a switch restores is the one it found.               *)
LEMMA Resuming ==
  ASSUME SwitchInv, NEW s \in Slots, up, sw[s].pc \in {"release", "abort"}, Resume(s)
  PROVE  threshold' \in Thresholds \cup {Blocked} /\ gate' \in Slots \cup {NoSlot}
<1>1. sw[s].how = "reembed" => sw[s].saved \in Thresholds \cup {Blocked}
  BY Following, TypesOf DEF Placed, Switch, GivenThresholds
<1> QED
  BY <1>1, TypesOf DEF Resume

LEMMA ReleaseKeeps ==
  ASSUME SwitchInv, NEW s \in Slots, Release(s)
  PROVE  SwitchInv'
<1>1. up /\ sw[s].pc = "release"
  BY DEF Release, At
<1>2. threshold' \in Thresholds \cup {Blocked} /\ gate' \in Slots \cup {NoSlot}
  BY <1>1, Resuming DEF Release
<1>3. /\ sw' \in [Slots -> Switch] /\ sw'[s].pc = "commit" /\ SameSwitch(sw'[s], sw[s])
      /\ \A t \in Slots \ {s} : sw'[t] = sw[t]
  BY GoKeeps, TypesOf DEF Release, Steps
<1>4. UNCHANGED <<registryVars, serving, contentVars, trafficVars, up, active, spent, histVars>>
  BY DEF Release
<1>5. TypeOK'
  BY <1>2, <1>3, <1>4, TypesOf
     DEF TypeOK, RegistryTypeOK, CacheTypeOK, registryVars, contentVars, trafficVars, histVars
<1>6. ImplsInPlace'
  BY <1>4 DEF SwitchInv, ImplsInPlace, registryVars
<1>7. /\ sw'[s].target = sw[s].target /\ sw'[s].old = sw[s].old
      /\ sw'[s].replaced = sw[s].replaced
      /\ sw'[s].how = sw[s].how /\ sw'[s].saved = sw[s].saved
  BY <1>3 DEF SameSwitch
<1>8. Placed(s, sw'[s])
  BY <1>1, <1>3, <1>7, Following DEF Placed
<1>9. Follows(sw'[s], serving[s], active[s], selection[s])
  BY <1>1, <1>3, <1>7, Following DEF Follows, BeforeSwap, BeforeCommit
<1>10. spent["crash"] = 0 => Flagged(s)'
  BY <1>1, <1>3, <1>4, Following DEF Flagged, registryVars
<1> QED
  BY <1>1, <1>3, <1>4, <1>5, <1>6, <1>8, <1>9, <1>10, SlotSteps DEF registryVars

LEMMA AbortKeeps ==
  ASSUME SwitchInv, NEW s \in Slots, Abort(s)
  PROVE  SwitchInv'
<1>1. up /\ sw[s].pc = "abort" /\ Fail(s, "error")
  BY DEF Abort, At
<1>2. threshold' \in Thresholds \cup {Blocked} /\ gate' \in Slots \cup {NoSlot}
  BY <1>1, Resuming DEF Abort
<1>3. UNCHANGED <<selection, serving, contentVars, trafficVars, up, active, spent, histVars>>
  BY DEF Abort
<1>4. serving[s] = active[s] /\ selection[s] = active[s]
  BY <1>1, Following DEF Follows, BeforeSwap
<1> QED
  BY <1>1, <1>2, <1>3, <1>4, TypesOf, FailureKeeps DEF histVars

-------------------------------------------------------------------------------
(* Recording the outcome                                                   *)

LEMMA CommitKeeps ==
  ASSUME SwitchInv, RegistryReliable, NEW s \in Slots, Commit(s)
  PROVE  SwitchInv'
<1>1. up /\ sw[s].pc = "commit"
  BY DEF Commit, At
<1>2. /\ sw[s].target \in ImplsOf(s) /\ sw[s].replaced \in ImplsOf(s)
      /\ serving[s] = sw[s].target /\ sw[s].replaced = active[s] /\ selection[s] = active[s]
      /\ sw[s].old = active[s]
  BY <1>1, Following DEF Placed, Follows, BeforeCommit
<1>3. UNCHANGED <<contentVars, gate, threshold, trafficVars, up, active, overlapped, skipped>>
  BY DEF Commit
<1>4. CASE /\ Answered
           /\ Select(s, sw[s].target)
           /\ Go(s, IF sw[s].target = NoPlugin THEN "finish" ELSE "record")
           /\ UNCHANGED <<records, serving, unrestored>>
  <2> DEFINE step == IF sw[s].target = NoPlugin THEN "finish" ELSE "record"
  <2>1. step \in {"finish", "record"} /\ (step = "record" => sw[s].target # NoPlugin)
    OBVIOUS
  <2>2. Go(s, step)
    BY <1>4
  <2> HIDE DEF step
  <2>3. /\ sw' \in [Slots -> Switch] /\ sw'[s].pc = step /\ SameSwitch(sw'[s], sw[s])
        /\ \A t \in Slots \ {s} : sw'[t] = sw[t]
    BY <2>1, <2>2, GoKeeps, TypesOf DEF Steps
  <2>4. /\ sw'[s].target = sw[s].target /\ sw'[s].old = sw[s].old
        /\ sw'[s].replaced = sw[s].replaced
        /\ sw'[s].how = sw[s].how /\ sw'[s].saved = sw[s].saved
    BY <2>3 DEF SameSwitch
  <2>5. /\ selection' \in [Slots -> Impls] /\ selection'[s] = sw[s].target
        /\ \A t \in Slots \ {s} : selection'[t] = selection[t]
    BY <1>2, <1>4, TypesOf, Constants DEF Select
  <2>6. TypeOK'
    BY <1>3, <1>4, <2>3, <2>5, TypesOf
       DEF TypeOK, RegistryTypeOK, CacheTypeOK, contentVars, trafficVars, Answered
  <2>7. ImplsInPlace'
    BY <1>2, <1>3, <1>4, <2>5 DEF SwitchInv, ImplsInPlace
  <2>8. Placed(s, sw'[s])
    BY <1>1, <2>1, <2>3, <2>4, Following DEF Placed
  <2>9. Follows(sw'[s], serving[s], active[s], selection'[s])
    BY <1>2, <2>1, <2>3, <2>4, <2>5 DEF Follows, BeforeSwap, BeforeCommit
  <2>10. ASSUME spent["crash"] = 0
         PROVE  Flagged(s)'
    <3>1. \A p \in Plugins : SlotOf[p] = s => (records[p].active <=> active[s] = p)
      BY <1>1, <2>10, Following DEF Flagged
    <3>2. sw'[s].pc = "finish" => sw'[s].target = NoPlugin
      BY <2>1, <2>3, <2>4, <2>2 DEF step
    <3> QED
      BY <1>2, <1>3, <1>4, <2>3, <2>4, <3>1, <3>2, Constants DEF Flagged
  <2> QED
    BY <1>1, <1>3, <1>4, <2>3, <2>5, <2>6, <2>7, <2>8, <2>9, <2>10, SlotSteps DEF Answered
<1>5. CASE Refused("setActive") /\ UNCHANGED selection /\ Undo(s)
  <2>1. Fail(s, "error") /\ serving' = [serving EXCEPT ![s] = active[s]]
    BY <1>2, <1>5 DEF Undo, Serve
  <2>2. spent' \in [Events -> Nat] /\ spent'["crash"] = spent["crash"]
    BY <1>5, Spending DEF Refused, Events
  <2>3. /\ serving' \in [Slots -> Impls] /\ serving'[s] = active[s]
        /\ \A t \in Slots \ {s} : serving'[t] = serving[t]
    BY <2>1, TypesOf
  <2>4. unrestored' \in BOOLEAN
    BY <1>5, TypesOf DEF Undo, UndoneTo
  <2> QED
    BY <1>1, <1>2, <1>3, <1>5, <2>1, <2>2, <2>3, <2>4, TypesOf, FailureKeeps
<1>6. ~ReplyLost("setActive")
  BY DEF RegistryReliable, ReplyLost
<1> QED
  BY <1>4, <1>5, <1>6 DEF Commit

LEMMA RecordNewKeeps ==
  ASSUME SwitchInv, RegistryReliable, NEW s \in Slots, RecordNew(s)
  PROVE  SwitchInv'
<1>1. up /\ sw[s].pc = "record"
  BY DEF RecordNew, At
<1>2. ~Refused("recordNew") /\ ~ReplyLost("recordNew")
  BY DEF RegistryReliable, Refused, ReplyLost
<1>3. /\ Answered
      /\ records' = [records EXCEPT ![sw[s].target] = ActiveRecord(s)]
      /\ Go(s, "finish")
      /\ UNCHANGED <<serving, unrestored, selection, contentVars, gate, threshold,
                     trafficVars, up, active, overlapped, skipped>>
  BY <1>2 DEF RecordNew
<1>4. /\ sw[s].target \in Plugins /\ SlotOf[sw[s].target] = s
      /\ sw[s].old \in ImplsOf(s) /\ sw[s].old = active[s]
      /\ serving[s] = sw[s].target /\ selection[s] = sw[s].target
  BY <1>1, Following, Constants DEF Placed, Follows
<1>5. /\ ActiveRecord(s) \in Record /\ ActiveRecord(s).active
      /\ ActiveRecord(s).previous \in ImplsOf(s)
  BY <1>4, TypesOf, Constants DEF ActiveRecord, Record, States, Switch, GivenThresholds, Impls
<1>6. /\ records' \in [Plugins -> Record]
      /\ records'[sw[s].target].active
      /\ records'[sw[s].target].previous \in ImplsOf(s)
      /\ \A p \in Plugins \ {sw[s].target} : records'[p] = records[p]
  BY <1>3, <1>4, <1>5, TypesOf
<1>7. /\ sw' \in [Slots -> Switch] /\ sw'[s].pc = "finish" /\ SameSwitch(sw'[s], sw[s])
      /\ \A t \in Slots \ {s} : sw'[t] = sw[t]
  BY <1>3, GoKeeps, TypesOf DEF Steps
<1>8. /\ sw'[s].target = sw[s].target /\ sw'[s].old = sw[s].old
      /\ sw'[s].replaced = sw[s].replaced
      /\ sw'[s].how = sw[s].how /\ sw'[s].saved = sw[s].saved
  BY <1>7 DEF SameSwitch
<1>9. TypeOK'
  BY <1>3, <1>6, <1>7, TypesOf
     DEF TypeOK, RegistryTypeOK, CacheTypeOK, contentVars, trafficVars, Answered
<1>10. ImplsInPlace'
  BY <1>3, <1>4, <1>6 DEF SwitchInv, ImplsInPlace
<1>11. Placed(s, sw'[s])
  BY <1>1, <1>7, <1>8, Following DEF Placed
<1>12. Follows(sw'[s], serving[s], active[s], selection[s])
  BY <1>4, <1>7, <1>8 DEF Follows, BeforeSwap, BeforeCommit
<1>13. ASSUME spent["crash"] = 0
       PROVE  Flagged(s)'
  <2>1. \A p \in Plugins : SlotOf[p] = s => (records[p].active <=> active[s] = p)
    BY <1>1, <1>13, Following DEF Flagged
  <2> QED
    BY <1>4, <1>6, <1>7, <1>8, <2>1 DEF Flagged
<1> QED
  BY <1>1, <1>3, <1>4, <1>6, <1>7, <1>9, <1>10, <1>11, <1>12, <1>13, SlotSteps DEF Answered

LEMMA FinishKeeps ==
  ASSUME SwitchInv, RegistryReliable, NEW s \in Slots, Finish(s)
  PROVE  SwitchInv'
<1>1. up /\ sw[s].pc = "finish"
  BY DEF Finish, At
<1>2. ~Refused("recordOld")
  BY DEF RegistryReliable, Refused
<1> DEFINE old == sw[s].old
<1>3. /\ Answered
      /\ IF old \notin {NoPlugin, sw[s].target} THEN Retire(old) ELSE UNCHANGED records
      /\ active' = [active EXCEPT ![s] = sw[s].target]
      /\ threshold' = LiveThreshold(s)
      /\ Done(s)
      /\ UNCHANGED <<selection, serving, contentVars, gate, trafficVars, up, histVars>>
  BY <1>2 DEF Finish
<1>4. /\ sw[s].target \in ImplsOf(s) /\ old \in ImplsOf(s)
      /\ serving[s] = sw[s].target /\ selection[s] = sw[s].target
  BY <1>1, Following DEF Placed, Follows
<1>5. /\ records' \in [Plugins -> Record]
      /\ \A p \in Plugins :
           /\ records'[p].previous = records[p].previous
           /\ p # old \/ old = sw[s].target => records'[p].active = records[p].active
           /\ p = old /\ old # sw[s].target => ~records'[p].active
  <2>1. CASE old \in {NoPlugin, sw[s].target}
    BY <1>3, <2>1, TypesOf, Constants
  <2>2. CASE old \notin {NoPlugin, sw[s].target}
    <3>1. records' = [q \in Plugins |->
                        IF q = old THEN [records[q] EXCEPT !.state = "ready", !.active = FALSE]
                                   ELSE records[q]]
      BY <1>3, <2>2, TypesOf DEF Retire
    <3>2. ASSUME NEW q \in Plugins
          PROVE  /\ records'[q] \in Record
                 /\ records'[q].previous = records[q].previous
                 /\ q # old => records'[q].active = records[q].active
                 /\ q = old => ~records'[q].active
      <4>1. records[q] \in Record
        BY TypesOf
      <4> QED
        BY <3>1, <4>1, Retired
    <3> QED
      BY <2>2, <3>1, <3>2
  <2> QED
    BY <2>1, <2>2
<1>6. /\ sw' \in [Slots -> Switch] /\ sw'[s].pc = "idle" /\ Placed(s, sw'[s])
      /\ \A t \in Slots \ {s} : sw'[t] = sw[t]
  BY <1>3, DoneKeeps, TypesOf
<1>7. /\ active' \in [Slots -> Impls] /\ active'[s] = sw[s].target
      /\ \A t \in Slots \ {s} : active'[t] = active[t]
  BY <1>3, <1>4, TypesOf, Constants
<1>8. threshold' \in Thresholds \cup {Blocked}
  BY <1>3, TypesOf DEF LiveThreshold, Switch, GivenThresholds
<1>9. TypeOK'
  BY <1>3, <1>5, <1>6, <1>7, <1>8, TypesOf
     DEF TypeOK, RegistryTypeOK, CacheTypeOK, contentVars, trafficVars, histVars, Answered
<1>10. ImplsInPlace'
  BY <1>3, <1>4, <1>5, <1>7 DEF SwitchInv, ImplsInPlace
<1>11. Follows(sw'[s], serving[s], active'[s], selection[s])
  BY <1>4, <1>6, <1>7 DEF Follows, BeforeCommit
<1>12. ASSUME spent["crash"] = 0
       PROVE  Flagged(s)'
  <2>1. \A p \in Plugins : SlotOf[p] = s => (records[p].active <=> p \in {sw[s].target, old})
    BY <1>1, <1>12, Following DEF Flagged
  <2> HIDE DEF old
  <2> QED
    BY <1>5, <1>6, <1>7, <2>1 DEF Flagged
<1>13. \A p \in Plugins : SlotOf[p] # s => records'[p].active = records[p].active
  <2>1. \A p \in Plugins : SlotOf[p] # s => p # old
    BY <1>4, Constants
  <2> HIDE DEF old
  <2> QED
    BY <1>5, <2>1
<1> QED
  BY <1>1, <1>3, <1>6, <1>7, <1>9, <1>10, <1>11, <1>12, <1>13, SlotSteps DEF Answered

LEMMA SwitchStepKeeps ==
  ASSUME SwitchInv, RegistryReliable, NEW s \in Slots, SwitchStep(s)
  PROVE  SwitchInv'
  BY PlanKeeps, PauseKeeps, PauseTimesOutKeeps, MigrateKeeps, SwapKeeps, AfterKeeps,
     ReleaseKeeps, AbortKeeps, CommitKeeps, RecordNewKeeps, FinishKeeps DEF SwitchStep

-------------------------------------------------------------------------------
(* Requests                                                                *)

LEMMA BeginKeeps ==
  ASSUME SwitchInv, NEW p \in Plugins,
         NEW mode \in {"activate", "deactivate", "rollback"},
         NEW target \in ImplsOf(SlotOf[p]), NEW c \in Confirmation,
         Begin(SlotOf[p], mode, p, target, c),
         \/ \E st \in States : SetState(p, st)
         \/ UNCHANGED records
  PROVE  SwitchInv'
<1> DEFINE s == SlotOf[p]
           confirmed == ConfirmedThreshold(s, mode, p, target, c)
           r == [NoSwitch EXCEPT !.pc = "plan", !.mode = mode, !.actor = p,
                   !.was = records[p].state, !.target = target, !.old = active[s],
                   !.compat = c.compat, !.confirmed = confirmed]
<1>1. /\ up /\ sw[s].pc = "idle" /\ sw' = [sw EXCEPT ![s] = r]
      /\ UNCHANGED <<selection, cacheVars, up, active, unrestored>>
      /\ overlapped' = (overlapped \/ \E t \in Slots : ~Idle(t))
      /\ skipped' = (skipped \/ (mode = "deactivate" /\ records[p].previous # NoPlugin))
  BY DEF Begin, Idle
<1>2. /\ s \in Slots /\ target \in Impls /\ p \in Impls
      /\ active[s] \in ImplsOf(s) /\ active[s] \in Impls
  BY TypesOf, Constants DEF SwitchInv, ImplsInPlace, Impls
<1>3. /\ records' \in [Plugins -> Record]
      /\ \A q \in Plugins : /\ records'[q].active = records[q].active
                            /\ records'[q].previous = records[q].previous
  BY StateChange, TypesOf
<1>4. confirmed \in GivenThresholds
  <2>1. records[p].previousThreshold \in GivenThresholds
    BY TypesOf DEF Record
  <2>2. s = "vectorStore" => MetricOf[target] \in Thresholds
    BY Constants
  <2>3. c.threshold \in BOOLEAN
    BY DEF Confirmation
  <2> HIDE DEF s
  <2> QED
    BY <2>1, <2>2, <2>3 DEF ConfirmedThreshold, GivenThresholds
<1>5. records[p].state \in States /\ c.compat \in {"none", "flush", "reembed", "migrate", "empty", "adopt"}
  BY TypesOf DEF Record, Confirmation
<1>6. /\ r \in Switch /\ r.pc = "plan" /\ r.target = target /\ r.old = active[s]
      /\ r.replaced = NoPlugin /\ r.how = "none"
  <2> HIDE DEF confirmed, s
  <2> QED
    BY <1>2, <1>4, <1>5, NoSwitchFits, ZenonT(60) DEF Switch, Steps, NoSwitch
<1> HIDE DEF r
<1>7. sw' \in [Slots -> Switch] /\ sw'[s] = r /\ \A t \in Slots \ {s} : sw'[t] = sw[t]
  BY <1>1, <1>2, <1>6, TypesOf
<1>8. spent' \in [Events -> Nat] /\ spent'["crash"] = spent["crash"]
  BY Spending DEF Begin, Events
<1>9. overlapped' \in BOOLEAN /\ skipped' \in BOOLEAN
  BY <1>1, TypesOf DEF Idle
<1>10. TypeOK'
  BY <1>1, <1>3, <1>7, <1>8, <1>9, TypesOf
     DEF TypeOK, RegistryTypeOK, CacheTypeOK, cacheVars, contentVars, trafficVars
<1>11. ImplsInPlace'
  BY <1>1, <1>3 DEF SwitchInv, ImplsInPlace, cacheVars
<1>12. Placed(s, sw'[s])
  BY <1>2, <1>6, <1>7, Constants DEF Placed
<1>13. Follows(sw'[s], serving[s], active[s], selection[s])
  BY <1>1, <1>2, <1>6, <1>7, Following DEF Follows, BeforeSwap, BeforeCommit
<1>14. spent["crash"] = 0 => Flagged(s)'
  BY <1>1, <1>2, <1>3, <1>6, <1>7, Following DEF Flagged
<1> QED
  BY <1>1, <1>2, <1>3, <1>7, <1>8, <1>10, <1>11, <1>12, <1>13, <1>14, SlotSteps DEF cacheVars

LEMMA RequestKeeps ==
  ASSUME SwitchInv, NEW p \in Plugins, Activate(p) \/ Deactivate(p) \/ Rollback(p)
  PROVE  SwitchInv'
<1>1. Confirmations[SlotOf[p]] \subseteq Confirmation
  BY Constants, ConfirmationsAssumption
<1>2. CASE Activate(p)
  <2>1. PICK c \in Confirmation : Begin(SlotOf[p], "activate", p, p, c)
    BY <1>1, <1>2 DEF Activate
  <2>2. SetState(p, "working") /\ "working" \in States
    BY <1>2 DEF Activate, States
  <2> QED
    BY <2>1, <2>2, Constants, BeginKeeps
<1>3. CASE Deactivate(p)
  <2>1. PICK c \in Confirmation : Begin(SlotOf[p], "deactivate", p, NoPlugin, c)
    BY <1>1, <1>3 DEF Deactivate
  <2>2. UNCHANGED records
    BY <1>3 DEF Deactivate
  <2> QED
    BY <2>1, <2>2, Constants, BeginKeeps
<1>4. CASE Rollback(p)
  <2>1. PICK c \in Confirmation : Begin(SlotOf[p], "rollback", p, records[p].previous, c)
    BY <1>1, <1>4 DEF Rollback
  <2>2. SetState(p, "rollingBack") /\ "rollingBack" \in States
    BY <1>4 DEF Rollback, States
  <2>3. records[p].previous \in ImplsOf(SlotOf[p])
    BY DEF SwitchInv, ImplsInPlace
  <2> QED
    BY <2>1, <2>2, <2>3, BeginKeeps
<1> QED
  BY <1>2, <1>3, <1>4

-------------------------------------------------------------------------------
(* Queries, crashes and restarts                                           *)

(* A step that leaves switches and registry alone.                         *)
LEMMA TrafficKeeps ==
  ASSUME SwitchInv, UNCHANGED <<registryVars, serving, gate, threshold, up, switchVars, histVars>>,
         kept' \in [ImplsOf("persistence") -> Contents],
         indexed' \in [ImplsOf("vectorStore") -> Contents],
         tracked' \in [ImplsOf("policy") -> SUBSET Ids],
         asked' \in [Clients -> Spaces \cup {NoSpace}], queued' \in [Spaces -> Nat],
         spent' \in [Events -> Nat] /\ spent'["crash"] = spent["crash"]
  PROVE  SwitchInv'
<1>1. TypeOK'
  BY TypesOf DEF TypeOK, RegistryTypeOK, CacheTypeOK, registryVars, switchVars, histVars
<1>2. ImplsInPlace' /\ (~up => spent["crash"] > 0)'
  BY DEF SwitchInv, ImplsInPlace, registryVars, switchVars
<1>3. \A t \in Slots : SlotInv(t)'
  BY OtherSlot DEF SwitchInv, registryVars, switchVars
<1> QED
  BY <1>1, <1>2, <1>3 DEF SwitchInv

LEMMA AskKeeps ==
  ASSUME SwitchInv, NEW c \in Clients, Ask(c)
  PROVE  SwitchInv'
<1>1. SpaceOf[serving["embedder"]] \in Spaces
  BY Constants DEF SwitchInv, ImplsInPlace
<1>2. asked' = [asked EXCEPT ![c] = SpaceOf[serving["embedder"]]]
  BY DEF Ask, Embed
<1>3. UNCHANGED <<registryVars, up, switchVars, histVars, serving, contentVars, gate, threshold,
                  queued>>
  BY DEF Ask, Embed
<1>4. spent' \in [Events -> Nat] /\ spent'["crash"] = spent["crash"]
  BY Spending DEF Ask, Events
<1> QED
  BY <1>1, <1>2, <1>3, <1>4, TypesOf, TrafficKeeps DEF contentVars

LEMMA AnswerKeeps ==
  ASSUME SwitchInv, NEW c \in Clients, Answer(c)
  PROVE  SwitchInv'
<1>1. /\ asked[c] # NoSpace
      /\ asked' = [asked EXCEPT ![c] = NoSpace]
      /\ UNCHANGED queued \/ queued' = [queued EXCEPT ![asked[c]] = @ + 1]
      /\ UNCHANGED <<registryVars, up, switchVars, spent, histVars, serving, contentVars, gate,
                     threshold>>
  BY DEF Answer, Hit, Miss
<1>2. asked' \in [Clients -> Spaces \cup {NoSpace}] /\ queued' \in [Spaces -> Nat]
  BY <1>1, TypesOf
<1> QED
  BY <1>1, <1>2, TypesOf, TrafficKeeps DEF contentVars

LEMMA WorkKeeps ==
  ASSUME SwitchInv, NEW v \in Spaces, Work(v)
  PROVE  SwitchInv'
<1>1. PICK i \in Ids : /\ IndexAs([Index EXCEPT ![i] = v])
                       /\ KeepAs([Store EXCEPT ![i] = v])
                       /\ TrackAs(Tracked \cup {i})
  BY DEF Work, ApplyJob
<1>2. /\ [Index EXCEPT ![i] = v] \in Contents /\ [Store EXCEPT ![i] = v] \in Contents
      /\ Tracked \cup {i} \subseteq Ids
  BY InUse DEF Contents
<1>3. /\ kept' \in [ImplsOf("persistence") -> Contents]
      /\ indexed' \in [ImplsOf("vectorStore") -> Contents]
      /\ tracked' \in [ImplsOf("policy") -> SUBSET Ids]
  BY <1>1, <1>2, KeptAs, TrackedAs
<1>4. /\ queued[v] > 0 /\ queued' = [queued EXCEPT ![v] = @ - 1]
      /\ UNCHANGED <<registryVars, up, switchVars, spent, histVars, serving, gate, threshold,
                     asked>>
  BY DEF Work, ApplyJob
<1>5. queued' \in [Spaces -> Nat]
  BY <1>4, TypesOf
<1> QED
  BY <1>3, <1>4, <1>5, TypesOf, TrafficKeeps

LEMMA CrashKeeps ==
  ASSUME SwitchInv, Crash
  PROVE  SwitchInv'
<1>1. spent' \in [Events -> Nat] /\ spent'["crash"] > 0
  BY TypesOf DEF Crash, Spend, Events
<1>2. /\ up' = FALSE
      /\ serving' = [s \in Slots |-> NoPlugin] /\ active' = [s \in Slots |-> NoPlugin]
      /\ sw' = [s \in Slots |-> NoSwitch] /\ gate' = NoSlot
      /\ threshold' = MetricOf[NoPlugin]
      /\ tracked' = [tracked EXCEPT ![NoPlugin] = {}]
      /\ asked' = [c \in Clients |-> NoSpace]
      /\ queued' \in [Spaces -> Nat]
      /\ UNCHANGED <<registryVars, kept, indexed, histVars>>
  BY LimitsAssumption DEF Crash, Events
<1>3. MetricOf[NoPlugin] \in Thresholds /\ NoPlugin \in Impls
  BY Constants
<1>4. tracked' \in [ImplsOf("policy") -> SUBSET Ids]
  BY <1>2, TypesOf
<1>5. TypeOK'
  BY <1>1, <1>2, <1>3, <1>4, NoSwitchFits, TypesOf
     DEF TypeOK, RegistryTypeOK, CacheTypeOK, registryVars, histVars
<1>6. ImplsInPlace'
  BY <1>2, Constants DEF SwitchInv, ImplsInPlace, registryVars
<1>7. ASSUME NEW t \in Slots
      PROVE  SlotInv(t)'
  <2>1. sw'[t] = NoSwitch
    BY <1>2
  <2>2. Placed(t, sw'[t]) /\ sw'[t].pc = "idle"
    BY <2>1, NoSwitchFits, Constants DEF Placed
  <2> QED
    BY <1>1, <1>2, <2>2 DEF SlotInv, Idle
<1> QED
  BY <1>1, <1>5, <1>6, <1>7 DEF SwitchInv

LEMMA RestartKeeps ==
  ASSUME SwitchInv, Restart
  PROVE  SwitchInv'
<1>1. PICK chosen \in [Slots -> Impls] :
        /\ RestartWith(chosen)
        /\ \A t \in Slots : chosen[t] \in ImplsOf(t)
        /\ records' \in [Plugins -> Record]
        /\ \A p \in Plugins : records'[p].previous = records[p].previous
        /\ spent' \in [Events -> Nat] /\ spent'["crash"] = spent["crash"]
  <2>1. CASE Answered /\ RestartWith(selection) /\ UNCHANGED records
    BY <2>1, TypesOf DEF SwitchInv, ImplsInPlace, Answered
  <2>2. CASE /\ selection["policy"] # NoPlugin
             /\ Refused("restorePolicy")
             /\ RestartWith([selection EXCEPT !["policy"] = NoPlugin])
             /\ records' = [records EXCEPT ![selection["policy"]].active = FALSE,
                                           ![selection["policy"]].state = "failed"]
    <3> DEFINE chosen == [selection EXCEPT !["policy"] = NoPlugin]
               q == selection["policy"]
    <3>1. chosen \in [Slots -> Impls] /\ \A t \in Slots : chosen[t] \in ImplsOf(t)
      BY TypesOf, Constants DEF SwitchInv, ImplsInPlace
    <3>2. records' = [p \in Plugins |->
                        IF p = q THEN [records[p] EXCEPT !.active = FALSE, !.state = "failed"]
                                 ELSE records[p]]
      BY <2>2, TypesOf
    <3>3. ASSUME NEW p \in Plugins
          PROVE  records'[p] \in Record /\ records'[p].previous = records[p].previous
      <4> HIDE DEF q
      <4> DEFINE d == records[p]
                 e == [d EXCEPT !.active = FALSE, !.state = "failed"]
      <4>1. d \in Record /\ records'[p] \in {d, e}
        BY <3>2, TypesOf
      <4> HIDE DEF d
      <4>2. e \in Record /\ e.previous = d.previous
        BY <4>1 DEF Record, States
      <4> HIDE DEF e
      <4> QED
        BY <4>1, <4>2 DEF d
    <3>4. spent' \in [Events -> Nat] /\ spent'["crash"] = spent["crash"]
      BY <2>2, Spending DEF Refused, Events
    <3>5. records' \in [Plugins -> Record]
      BY <3>2, <3>3
    <3> QED
      BY <2>2, <3>1, <3>3, <3>4, <3>5
  <2> QED
    BY <2>1, <2>2 DEF Restart
<1> DEFINE entries == kept[chosen["persistence"]]
           store == chosen["vectorStore"]
<1>2. /\ ~up /\ up' = TRUE
      /\ selection' = chosen /\ serving' = chosen /\ active' = chosen
      /\ threshold' = IF store # NoPlugin /\ records[store].threshold # NoThreshold
                        THEN records[store].threshold ELSE MetricOf[NoPlugin]
      /\ indexed' = [indexed EXCEPT ![store] = entries]
      /\ tracked' = [tracked EXCEPT ![chosen["policy"]] = @ \cup Held(entries)]
      /\ UNCHANGED <<kept, gate, trafficVars, sw, histVars>>
  BY <1>1 DEF RestartWith
<1>3. /\ chosen["persistence"] \in ImplsOf("persistence")
      /\ store \in ImplsOf("vectorStore") /\ chosen["policy"] \in ImplsOf("policy")
  BY <1>1, Constants
<1>4. entries \in Contents /\ Held(entries) \subseteq Ids
  BY <1>3, TypesOf, NothingFits
<1> HIDE DEF entries
<1>5. /\ indexed' \in [ImplsOf("vectorStore") -> Contents]
      /\ tracked' \in [ImplsOf("policy") -> SUBSET Ids]
  BY <1>2, <1>3, <1>4, TypesOf
<1>6. threshold' \in Thresholds \cup {Blocked}
  <2>1. MetricOf[NoPlugin] \in Thresholds
    BY Constants
  <2>2. store # NoPlugin => records[store].threshold \in GivenThresholds
    BY <1>3, Constants, TypesOf DEF Record
  <2> HIDE DEF store
  <2> QED
    BY <1>2, <2>1, <2>2 DEF GivenThresholds
<1>7. TypeOK'
  BY <1>1, <1>2, <1>5, <1>6, TypesOf
     DEF TypeOK, RegistryTypeOK, CacheTypeOK, trafficVars, histVars
<1>8. ImplsInPlace'
  BY <1>1, <1>2 DEF SwitchInv, ImplsInPlace
<1>9. spent["crash"] > 0 /\ spent'["crash"] > 0
  BY <1>1, <1>2 DEF SwitchInv
<1>10. ASSUME NEW t \in Slots
       PROVE  SlotInv(t)'
  <2>1. sw'[t] = sw[t] /\ Placed(t, sw[t]) /\ sw[t].pc = "idle"
    BY <1>2 DEF SwitchInv, SlotInv, Idle
  <2>2. Follows(sw'[t], serving'[t], active'[t], selection'[t])
    BY <1>2, <2>1 DEF Follows, BeforeCommit
  <2> QED
    BY <1>2, <1>9, <2>1, <2>2 DEF SlotInv
<1> QED
  BY <1>2, <1>7, <1>8, <1>10 DEF SwitchInv

-------------------------------------------------------------------------------
(* The theorem                                                             *)

LEMMA SwitchInitially ==
  ASSUME Init
  PROVE  SwitchInv
<1>1. /\ records = [p \in Plugins |-> Verified]
      /\ selection = [s \in Slots |-> NoPlugin] /\ serving = [s \in Slots |-> NoPlugin]
      /\ active = [s \in Slots |-> NoPlugin] /\ sw = [s \in Slots |-> NoSwitch]
      /\ up = TRUE /\ spent = [e \in Events |-> 0]
  BY DEF Init, RegistryInit, CacheInit
<1>2. /\ Verified \in Record /\ Verified.previous = NoPlugin /\ ~Verified.active
  BY DEF Verified, Record, States, Impls, GivenThresholds
<1>3. Found \in Contents /\ Nothing \in Contents /\ Present \subseteq Ids
  BY Constants, NothingFits, PresentAssumption DEF Found, Contents
<1>4. MetricOf[NoPlugin] \in Thresholds /\ NoPlugin \in Impls
  BY Constants
<1>5. TypeOK
  <2>1. RegistryTypeOK
    BY <1>1, <1>2, <1>4 DEF RegistryTypeOK
  <2>2. CacheTypeOK
    <3>1. /\ kept = [p \in ImplsOf("persistence") |-> IF p = NoPlugin THEN Found ELSE Nothing]
          /\ indexed = [p \in ImplsOf("vectorStore") |-> IF p = NoPlugin THEN Found ELSE Nothing]
          /\ tracked = [p \in ImplsOf("policy") |-> IF p = NoPlugin THEN Present ELSE {}]
          /\ gate = NoSlot /\ threshold = MetricOf[NoPlugin]
          /\ asked = [c \in Clients |-> NoSpace] /\ queued = [v \in Spaces |-> 0]
      BY DEF Init, CacheInit
    <3>2. /\ kept \in [ImplsOf("persistence") -> Contents]
          /\ indexed \in [ImplsOf("vectorStore") -> Contents]
          /\ tracked \in [ImplsOf("policy") -> SUBSET Ids]
      BY <1>3, <3>1
    <3>3. serving \in [Slots -> Impls]
      BY <1>1, <1>4
    <3> QED
      BY <1>4, <3>1, <3>2, <3>3 DEF CacheTypeOK
  <2>3. sw \in [Slots -> Switch] /\ active \in [Slots -> Impls] /\ spent \in [Events -> Nat]
    BY <1>1, <1>4, NoSwitchFits
  <2> QED
    BY <1>1, <2>1, <2>2, <2>3 DEF Init, TypeOK
<1>6. ImplsInPlace
  BY <1>1, <1>2, Constants DEF ImplsInPlace
<1>7. ASSUME NEW t \in Slots
      PROVE  SlotInv(t)
  <2>1. sw[t] = NoSwitch /\ sw[t].pc = "idle" /\ Placed(t, sw[t])
    BY <1>1, NoSwitchFits, Constants DEF Placed
  <2>2. Follows(sw[t], serving[t], active[t], selection[t])
    BY <1>1, <2>1 DEF Follows, BeforeCommit
  <2>3. Flagged(t)
    BY <1>1, <1>2, <2>1, Constants DEF Flagged
  <2> QED
    BY <1>1, <2>1, <2>2, <2>3 DEF SlotInv
<1> QED
  BY <1>1, <1>5, <1>6, <1>7 DEF SwitchInv

LEMMA StutterKeeps ==
  ASSUME SwitchInv, UNCHANGED vars
  PROVE  SwitchInv'
<1>1. UNCHANGED <<registryVars, serving, contentVars, gate, threshold, trafficVars, up,
                  switchVars, spent, histVars>>
  BY DEF vars, cacheVars
<1> QED
  BY <1>1, TypesOf, TrafficKeeps DEF contentVars, trafficVars

LEMMA SwitchInductive ==
  ASSUME SwitchInv, RegistryReliable, [Next]_vars
  PROVE  SwitchInv'
<1>1. CASE UNCHANGED vars
  BY <1>1, StutterKeeps
<1>2. CASE Poll
  BY <1>2, StutterKeeps DEF Poll
<1> QED
  BY <1>1, <1>2, RequestKeeps, SwitchStepKeeps, AskKeeps, AnswerKeeps, WorkKeeps, CrashKeeps,
     RestartKeeps DEF Next

LEMMA SwitchMatches ==
  ASSUME SwitchInv
  PROVE  MemoryMatchesRegistry
<1>1. ServedIsRecorded
  BY Following DEF ServedIsRecorded, Idle, Follows
<1>2. ServedIsFlagged
  <2>1. ASSUME spent["crash"] = 0, NEW p \in Plugins, Idle(SlotOf[p])
        PROVE  serving[SlotOf[p]] = p <=> records[p].active
    <3>1. up /\ SlotOf[p] \in Slots /\ sw[SlotOf[p]].pc = "idle"
      BY <2>1, TypesOf, Constants DEF SwitchInv, Idle, Events
    <3> QED
      BY <2>1, <3>1, Following DEF Follows, Flagged
  <2> QED
    BY <2>1 DEF ServedIsFlagged
<1> QED
  BY <1>1, <1>2 DEF MemoryMatchesRegistry, SwitchInv

(* Whatever fails before the registry is written, and after any crash and  *)
(* restart, what serves an idle slot is what the manager believes active,  *)
(* what the registry would restore and, but for crashes, the one plugin    *)
(* whose record is active (activate.go:251): for any number of plugins,    *)
(* switches and faults, if the registry's calls after a swap succeed or,   *)
(* for SetActive, are refused.                                             *)
THEOREM MemoryAndRegistryAgree ==
  ASSUME RegistryReliable
  PROVE  Spec => []MemoryMatchesRegistry
<1>1. Init => SwitchInv
  BY SwitchInitially
<1>2. SwitchInv /\ [Next]_vars => SwitchInv'
  BY SwitchInductive
<1>3. SwitchInv => MemoryMatchesRegistry
  BY SwitchMatches
<1> QED
  BY <1>1, <1>2, <1>3, PTL DEF Spec

-------------------------------------------------------------------------------
(* The write gate                                                          *)

GatedSteps == {"migrate", "save", "restore", "after", "release", "abort"}
Gated(r) == r.pc \in GatedSteps \/ (r.pc = "swap" /\ r.how # "none")

HowsOf(s) ==
  CASE s = "embedder" -> {"flush", "reembed"}
    [] s = "vectorStore" -> {"flush", "rebuild"}
    [] s = "persistence" -> {"plain", "migrate", "empty", "adopt"}
    [] s = "policy" -> {"replay"}

(* A switch holds the gate from its pause to its resume.  Only one that    *)
(* needs no plan, an embedder's, goes without.                             *)
GateFits(s) ==
  /\ gate = s <=> Gated(sw[s])
  /\ sw[s].how \in HowsOf(s) \cup {"none"}
  /\ sw[s].pc \in {"idle", "plan"} => sw[s].how = "none"
  /\ sw[s].how = "none" =>
       \/ sw[s].pc \in {"idle", "plan"}
       \/ s = "embedder" /\ sw[s].pc \in {"swap", "commit", "record", "finish"}
  /\ sw[s].pc = "after" => sw[s].how \in {"adopt", "empty"}

GateInv == \A s \in Slots : GateFits(s)

(* What a switch carries along from its plan to its end.                   *)
Carried(q, r) ==
  /\ q.actor = r.actor /\ q.mode = r.mode /\ q.target = r.target /\ q.old = r.old
  /\ q.confirmed = r.confirmed /\ q.how = r.how /\ q.wanted = r.wanted
  /\ q.before = r.before /\ q.saved = r.saved

LEMMA GoCarries ==
  ASSUME NEW s \in Slots, NEW step \in Steps, sw \in [Slots -> Switch], Go(s, step)
  PROVE  /\ sw'[s].pc = step /\ Carried(sw[s], sw'[s])
         /\ sw'[s].replaced = sw[s].replaced
         /\ sw'[s].listed = sw[s].listed /\ sw'[s].todo = sw[s].todo
         /\ \A t \in Slots \ {s} : sw'[t] = sw[t]
<1>1. sw' = [sw EXCEPT ![s] = [sw[s] EXCEPT !.pc = step]]
  BY DEF Go
<1> DEFINE r == [sw[s] EXCEPT !.pc = step]
<1>2. /\ r.pc = step /\ Carried(sw[s], r) /\ r.replaced = sw[s].replaced
      /\ r.listed = sw[s].listed /\ r.todo = sw[s].todo
  BY DEF Switch, Carried
<1> HIDE DEF r
<1> QED
  BY <1>1, <1>2 DEF r

(* A step in the middle of a switch, under the gate or without it.         *)
Progress(s) ==
  /\ up /\ UNCHANGED <<up, active, gate, threshold, records, overlapped, skipped>>
  /\ spent'["crash"] = spent["crash"]
  /\ \A t \in Slots \ {s} : sw'[t] = sw[t] /\ serving'[t] = serving[t]
  /\ Carried(sw[s], sw'[s])
  /\ Gated(sw'[s]) <=> Gated(sw[s])
  /\ sw[s].pc \notin {"idle", "plan", "pause"}
  /\ sw'[s].pc \notin {"idle", "plan", "pause"}
  /\ sw'[s].pc = "after" => sw[s].how \in {"adopt", "empty"}
  /\ sw[s].how = "none" => sw'[s].pc \in {"commit", "record", "finish"}

LEMMA ProgressKeepsGate ==
  ASSUME GateInv, NEW s \in Slots, Progress(s)
  PROVE  GateInv'
<1>1. ASSUME NEW t \in Slots \ {s}
      PROVE  GateFits(t)'
  BY DEF GateInv, GateFits, Progress, Gated
<1>2. GateFits(s)'
  BY DEF GateInv, GateFits, Progress, Carried
<1> QED
  BY <1>1, <1>2 DEF GateInv

-------------------------------------------------------------------------------
(* Steps in the middle of a switch                                         *)

LEMMA MigrationProgress ==
  ASSUME SwitchInv, GateInv, NEW s \in Slots, MigrateStep(s) \/ After(s)
  PROVE  Progress(s)
<1> USE DEF Gated, GatedSteps
<1>1. ASSUME NEW step \in {"swap", "abort", "restore", "release"}, Go(s, step), up,
             sw[s].pc \in {"migrate", "save", "restore", "after"},
             UNCHANGED <<up, active, gate, threshold, records, overlapped, skipped>>,
             \A t \in Slots \ {s} : serving'[t] = serving[t],
             spent'["crash"] = spent["crash"]
      PROVE  Progress(s)
  <2>1. /\ sw'[s].pc = step /\ Carried(sw[s], sw'[s])
        /\ \A t \in Slots \ {s} : sw'[t] = sw[t]
    BY <1>1, GoCarries, TypesOf DEF Steps
  <2>2. sw[s].how # "none"
    BY <1>1 DEF GateInv, GateFits
  <2> QED
    BY <1>1, <2>1, <2>2 DEF Progress, Carried
<1>2. CASE MigrateByFlush(s)
  BY <1>1, <1>2, Spending DEF MigrateByFlush, At, registryVars, histVars, Events, Refused, ReplyLost
<1>3. CASE RebuildIndex(s)
  BY <1>1, <1>3, Spending DEF RebuildIndex, At, registryVars, histVars, Events, Refused, ReplyLost
<1>4. CASE Restore(s)
  BY <1>1, <1>4, Spending DEF Restore, At, registryVars, Events, Refused, ReplyLost, Faulty
<1>5. CASE RebuildCandidate(s)
  BY <1>1, <1>5, Spending DEF RebuildCandidate, At, registryVars, Events, Refused, ReplyLost, Faulty
<1>6. CASE Replay(s)
  BY <1>1, <1>6, Spending DEF Replay, At, registryVars, Events, Refused, ReplyLost, Faulty
<1>7. CASE CopyEntries(s)
  BY <1>1, <1>7, Spending DEF CopyEntries, At, registryVars, histVars, Events, Refused, ReplyLost
<1>8. CASE After(s)
  BY <1>1, <1>8, Spending, TypesOf
     DEF After, At, Serve, registryVars, histVars, Events, Refused, ReplyLost
<1>9. CASE EmbedEntries(s)
  <2> DEFINE q == [sw[s] EXCEPT !.pc = "save", !.listed = Store, !.todo = Held(Store)]
             a == [sw[s] EXCEPT !.pc = "abort", !.listed = Store]
  <2>1. sw[s] \in Switch
    BY TypesOf
  <2>2. /\ q.pc = "save" /\ Carried(sw[s], q) /\ a.pc = "abort" /\ Carried(sw[s], a)
    BY <2>1 DEF Switch, Carried
  <2>3. sw' = [sw EXCEPT ![s] = q] \/ sw' = [sw EXCEPT ![s] = a]
    BY <1>9 DEF EmbedEntries
  <2> HIDE DEF q, a
  <2>4. /\ sw'[s].pc \in {"save", "abort"} /\ Carried(sw[s], sw'[s])
        /\ \A t \in Slots \ {s} : sw'[t] = sw[t]
    BY <2>2, <2>3, TypesOf
  <2>5. /\ up /\ sw[s].pc = "migrate" /\ sw[s].how = "reembed"
        /\ UNCHANGED <<registryVars, cacheVars, up, active, histVars>>
    BY <1>9 DEF EmbedEntries, At
  <2>6. spent'["crash"] = spent["crash"]
    BY <1>9, Spending DEF EmbedEntries, Faulty, Refused, ReplyLost, Events
  <2> QED
    BY <2>4, <2>5, <2>6 DEF Progress, registryVars, cacheVars, histVars
<1>10. CASE SaveEntry(s)
  <2>1. PICK i \in sw[s].todo : sw' = [sw EXCEPT ![s].todo = Unsaved(s, i)] \/ Go(s, "restore")
    BY <1>10 DEF SaveEntry
  <2>2. /\ up /\ sw[s].pc = "save"
        /\ UNCHANGED <<registryVars, serving, gate, threshold, up, active, histVars>>
    BY <1>10 DEF SaveEntry, At
  <2>3. spent'["crash"] = spent["crash"]
    BY <1>10, Spending DEF SaveEntry, Refused, ReplyLost, Events
  <2>4. CASE Go(s, "restore")
    BY <1>1, <2>2, <2>3, <2>4 DEF registryVars, histVars
  <2>5. CASE sw' = [sw EXCEPT ![s].todo = Unsaved(s, i)]
    <3> DEFINE q == [sw[s] EXCEPT !.todo = Unsaved(s, i)]
    <3>1. sw[s] \in Switch
      BY TypesOf
    <3>2. q.pc = "save" /\ Carried(sw[s], q)
      BY <2>2, <3>1 DEF Switch, Carried
    <3>3. sw' = [sw EXCEPT ![s] = q]
      BY <2>5
    <3> HIDE DEF q
    <3>4. /\ sw'[s].pc = "save" /\ Carried(sw[s], sw'[s])
          /\ \A t \in Slots \ {s} : sw'[t] = sw[t]
      BY <3>2, <3>3, TypesOf
    <3>5. sw[s].how # "none"
      BY <2>2 DEF GateInv, GateFits
    <3> QED
      BY <2>2, <2>3, <3>4, <3>5 DEF Progress, registryVars, histVars
  <2> QED
    BY <2>1, <2>4, <2>5
<1> QED
  BY <1>2, <1>3, <1>4, <1>5, <1>6, <1>7, <1>8, <1>9, <1>10 DEF MigrateStep

LEMMA SwapProgress ==
  ASSUME SwitchInv, GateInv, NEW s \in Slots, Swap(s)
  PROVE  Progress(s) /\ sw'[s].replaced = serving[s] /\ sw'[s].pc \in {"commit", "after", "release"}
<1> DEFINE step == CASE sw[s].how = "none" -> "commit"
                     [] sw[s].how \in {"adopt", "empty"} -> "after"
                     [] OTHER -> "release"
           r == [sw[s] EXCEPT !.replaced = serving[s], !.pc = step]
<1>1. sw[s] \in Switch /\ up /\ sw[s].pc = "swap"
  BY TypesOf DEF Swap, At
<1>2. sw' = [sw EXCEPT ![s] = r]
  BY DEF Swap
<1>3. r.pc = step /\ Carried(sw[s], r) /\ r.replaced = serving[s]
  <2> HIDE DEF step
  <2> QED
    BY <1>1 DEF Switch, Carried
<1> HIDE DEF r
<1>4. /\ sw'[s].pc = step /\ Carried(sw[s], sw'[s]) /\ sw'[s].replaced = serving[s]
      /\ \A t \in Slots \ {s} : sw'[t] = sw[t]
  BY <1>2, <1>3, TypesOf
<1>5. /\ UNCHANGED <<up, active, gate, threshold, records, overlapped, skipped, spent>>
      /\ \A t \in Slots \ {s} : serving'[t] = serving[t]
  BY TypesOf DEF Swap, Serve, registryVars, histVars
<1>6. Gated(sw'[s]) <=> Gated(sw[s])
  BY <1>1, <1>4 DEF Gated, GatedSteps, Carried
<1> QED
  BY <1>1, <1>4, <1>5, <1>6 DEF Progress

-------------------------------------------------------------------------------
(* Requests, plans and ends of switches                                    *)

(* The two fields of a record that lead back to the plugin before.         *)
LEMMA StateKeepsWayBack ==
  ASSUME SwitchInv, NEW p, NEW st, SetState(p, st)
  PROVE  \A q \in Plugins : /\ records'[q].previous = records[q].previous
                            /\ records'[q].previousThreshold = records[q].previousThreshold
<1>1. records \in [Plugins -> Record]
  BY TypesOf
<1>2. records' = [q \in Plugins |-> IF q = p THEN [records[q] EXCEPT !.state = st]
                                             ELSE records[q]]
  BY <1>1 DEF SetState
<1> QED
  BY <1>1, <1>2 DEF Record

SameWayBack ==
  \A q \in Plugins : /\ records'[q].previous = records[q].previous
                     /\ records'[q].previousThreshold = records[q].previousThreshold

(* A switch that is over, with the gate given back if it was held.         *)
Ends(s) ==
  /\ up /\ UNCHANGED <<up, active, overlapped, skipped>>
  /\ spent'["crash"] = spent["crash"]
  /\ sw'[s] = NoSwitch /\ \A t \in Slots \ {s} : sw'[t] = sw[t]
  /\ sw[s].pc \notin {"idle", "finish"}
  /\ SameWayBack
  /\ \/ sw[s].pc \notin GatedSteps \cup {"swap"} /\ UNCHANGED <<gate, threshold>>
     \/ sw[s].pc = "abort" /\ Resume(s)

LEMMA FailEnds ==
  ASSUME SwitchInv, NEW s \in Slots, NEW cause, Fail(s, cause)
  PROVE  /\ SameWayBack
         /\ sw'[s] = NoSwitch /\ \A t \in Slots \ {s} : sw'[t] = sw[t]
  BY DoneKeeps, StateKeepsWayBack, TypesOf DEF Fail, SameWayBack

LEMMA PauseTimesOutEnds ==
  ASSUME SwitchInv, NEW s \in Slots, PauseTimesOut(s)
  PROVE  Ends(s)
  BY FailEnds DEF PauseTimesOut, Ends, At, GatedSteps, cacheVars, histVars

LEMMA AbortEnds ==
  ASSUME SwitchInv, NEW s \in Slots, Abort(s)
  PROVE  Ends(s)
  BY FailEnds DEF Abort, Ends, At, GatedSteps, histVars

(* A plan that was made, and what it found.                                *)
Plans(s) ==
  /\ up /\ UNCHANGED <<up, active, gate, threshold, records, overlapped, skipped>>
  /\ spent'["crash"] = spent["crash"]
  /\ \A t \in Slots \ {s} : sw'[t] = sw[t]
  /\ sw[s].pc = "plan"
  /\ sw'[s].pc = IF PlanFor(s) = "none" THEN "swap" ELSE "pause"
  /\ sw'[s].how = PlanFor(s)
  /\ PlanFor(s) \notin {"decide", "refuse"}
  /\ sw'[s].wanted = WantedThreshold(s) /\ sw'[s].before = threshold
  /\ sw'[s].target = sw[s].target /\ sw'[s].old = sw[s].old
  /\ sw'[s].confirmed = sw[s].confirmed /\ sw'[s].mode = sw[s].mode

LEMMA PlanCases ==
  ASSUME SwitchInv, NEW s \in Slots, Plan(s)
  PROVE  Ends(s) \/ Plans(s)
<1>1. up /\ sw[s].pc = "plan" /\ UNCHANGED <<selection, cacheVars, up, active, histVars>>
  BY DEF Plan, At
<1>2. spent'["crash"] = spent["crash"]
  BY Spending DEF Plan, Refused, Events
<1>3. ASSUME NEW cause, Fail(s, cause)
      PROVE  Ends(s)
  BY <1>1, <1>2, <1>3, FailEnds DEF Ends, GatedSteps, cacheVars, histVars
<1>4. ASSUME PlanFor(s) \notin {"decide", "refuse"},
             sw' = [sw EXCEPT ![s].pc = IF PlanFor(s) = "none" THEN "swap" ELSE "pause",
                              ![s].how = PlanFor(s),
                              ![s].wanted = WantedThreshold(s),
                              ![s].before = threshold],
             UNCHANGED records
      PROVE  Plans(s)
  <2> DEFINE step == IF PlanFor(s) = "none" THEN "swap" ELSE "pause"
             h == PlanFor(s)
             w == WantedThreshold(s)
             r == [sw[s] EXCEPT !.pc = step, !.how = h, !.wanted = w, !.before = threshold]
  <2>1. sw' = [sw EXCEPT ![s] = r] /\ sw[s] \in Switch
    BY <1>4, TypesOf
  <2>2. /\ r.pc = step /\ r.how = h /\ r.wanted = w /\ r.before = threshold
        /\ r.target = sw[s].target /\ r.old = sw[s].old
        /\ r.confirmed = sw[s].confirmed /\ r.mode = sw[s].mode
    <3> HIDE DEF step, h, w
    <3> QED
      BY <2>1 DEF Switch
  <2> HIDE DEF r
  <2>3. sw'[s] = r /\ \A t \in Slots \ {s} : sw'[t] = sw[t]
    BY <2>1, TypesOf
  <2> QED
    BY <1>1, <1>2, <1>4, <2>2, <2>3 DEF Plans, cacheVars, histVars
<1> QED
  BY <1>3, <1>4 DEF Plan

(* The plans of each slot.                                                 *)
LEMMA PlannedHow ==
  ASSUME NEW s \in Slots, PlanFor(s) \notin {"decide", "refuse"}
  PROVE  /\ PlanFor(s) \in HowsOf(s) \cup {"none"}
         /\ PlanFor(s) = "none" => s = "embedder"
  BY Constants DEF PlanFor, EmbedderPlan, VectorStorePlan, PersistencePlan, HowsOf

Pauses(s) ==
  /\ up /\ UNCHANGED <<up, active, records, overlapped, skipped, spent>>
  /\ \A t \in Slots \ {s} : sw'[t] = sw[t]
  /\ sw[s].pc = "pause" /\ gate = NoSlot /\ gate' = s
  /\ threshold' = PausedThreshold(s)
  /\ sw'[s].pc = IF Migrates(s) THEN "migrate" ELSE "swap"
  /\ sw'[s].saved = threshold
  /\ sw'[s].how = sw[s].how /\ sw'[s].target = sw[s].target /\ sw'[s].old = sw[s].old
  /\ sw'[s].confirmed = sw[s].confirmed /\ sw'[s].mode = sw[s].mode
  /\ sw'[s].wanted = sw[s].wanted /\ sw'[s].before = sw[s].before

LEMMA PausePauses ==
  ASSUME SwitchInv, NEW s \in Slots, Pause(s)
  PROVE  Pauses(s)
<1> DEFINE step == IF Migrates(s) THEN "migrate" ELSE "swap"
           r == [sw[s] EXCEPT !.pc = step, !.saved = threshold]
<1>1. sw' = [sw EXCEPT ![s] = r] /\ sw[s] \in Switch
  BY TypesOf DEF Pause
<1>2. /\ r.pc = step /\ r.saved = threshold /\ r.how = sw[s].how
      /\ r.target = sw[s].target /\ r.old = sw[s].old
      /\ r.confirmed = sw[s].confirmed /\ r.mode = sw[s].mode
      /\ r.wanted = sw[s].wanted /\ r.before = sw[s].before
  <2> HIDE DEF step
  <2> QED
    BY <1>1 DEF Switch
<1> HIDE DEF r
<1>3. sw'[s] = r /\ \A t \in Slots \ {s} : sw'[t] = sw[t]
  BY <1>1, TypesOf
<1> QED
  BY <1>2, <1>3 DEF Pause, Pauses, At, registryVars, histVars

(* Resuming writes and recording the outcome.                              *)
Records(s) ==
  /\ up /\ UNCHANGED <<up, active, overlapped, skipped>>
  /\ spent'["crash"] = spent["crash"]
  /\ \A t \in Slots \ {s} : sw'[t] = sw[t]
  /\ Carried(sw[s], sw'[s])
  /\ \/ sw[s].pc = "release" /\ sw'[s].pc = "commit" /\ Resume(s) /\ UNCHANGED records
     \/ /\ sw[s].pc = "commit" /\ sw'[s].pc \in {"record", "finish"}
        /\ UNCHANGED <<gate, threshold, records>>
     \/ /\ sw[s].pc = "record" /\ sw'[s].pc = "finish"
        /\ UNCHANGED <<gate, threshold>>
        /\ records' = [records EXCEPT ![sw[s].target] = ActiveRecord(s)]

LEMMA ReleaseRecords ==
  ASSUME SwitchInv, NEW s \in Slots, Release(s)
  PROVE  Records(s)
  BY GoCarries, TypesOf DEF Release, Records, At, Steps, registryVars, histVars

LEMMA CommitCases ==
  ASSUME SwitchInv, NEW s \in Slots, Commit(s)
  PROVE  Ends(s) \/ Records(s)
<1>1. /\ up /\ sw[s].pc = "commit"
      /\ UNCHANGED <<contentVars, gate, threshold, trafficVars, up, active, overlapped, skipped>>
  BY DEF Commit, At
<1>2. spent'["crash"] = spent["crash"]
  BY Spending DEF Commit, Refused, ReplyLost, Events
<1>3. ASSUME NEW step \in {"record", "finish"}, Go(s, step), UNCHANGED records
      PROVE  Records(s)
  BY <1>1, <1>2, <1>3, GoCarries, TypesOf DEF Records, Steps
<1>4. CASE Undo(s)
  BY <1>1, <1>2, <1>4, FailEnds DEF Undo, Ends, GatedSteps
<1> QED
  BY <1>3, <1>4 DEF Commit

LEMMA RecordNewRecords ==
  ASSUME SwitchInv, RegistryReliable, NEW s \in Slots, RecordNew(s)
  PROVE  Records(s)
<1>1. /\ up /\ sw[s].pc = "record" /\ Answered /\ Go(s, "finish")
      /\ records' = [records EXCEPT ![sw[s].target] = ActiveRecord(s)]
      /\ UNCHANGED <<selection, contentVars, gate, threshold, trafficVars, up,
                     active, overlapped, skipped>>
  BY DEF RecordNew, At, RegistryReliable, Refused, ReplyLost
<1> QED
  BY <1>1, GoCarries, TypesOf DEF Records, Steps, Answered

Finishes(s) ==
  /\ up /\ UNCHANGED <<up, gate, overlapped, skipped>>
  /\ spent'["crash"] = spent["crash"]
  /\ sw'[s] = NoSwitch /\ \A t \in Slots \ {s} : sw'[t] = sw[t]
  /\ sw[s].pc = "finish"
  /\ SameWayBack
  /\ active' = [active EXCEPT ![s] = sw[s].target]
  /\ threshold' = LiveThreshold(s)

LEMMA FinishFinishes ==
  ASSUME SwitchInv, NEW s \in Slots, Finish(s)
  PROVE  Finishes(s)
<1>1. SameWayBack
  <2>1. records \in [Plugins -> Record]
    BY TypesOf
  <2>2. CASE UNCHANGED records
    BY <2>2 DEF SameWayBack
  <2>3. CASE Retire(sw[s].old)
    <3> DEFINE p == sw[s].old
    <3>1. records' = [q \in Plugins |->
                        IF q = p THEN [records[q] EXCEPT !.state = "ready", !.active = FALSE]
                                 ELSE records[q]]
      BY <2>1, <2>3 DEF Retire
    <3> HIDE DEF p
    <3> QED
      BY <2>1, <3>1 DEF Record, SameWayBack
  <2> QED
    BY <2>2, <2>3 DEF Finish
<1>2. spent'["crash"] = spent["crash"]
  BY Spending DEF Finish, Refused, Events
<1>3. sw'[s] = NoSwitch /\ \A t \in Slots \ {s} : sw'[t] = sw[t]
  BY DoneKeeps, TypesOf DEF Finish
<1> QED
  BY <1>1, <1>2, <1>3 DEF Finish, Finishes, At, histVars

Begins(s, p, mode, target, c) ==
  /\ up /\ UNCHANGED <<selection, cacheVars, up, active, unrestored>>
  /\ spent'["crash"] = spent["crash"]
  /\ sw[s].pc = "idle"
  /\ \A t \in Slots \ {s} : sw'[t] = sw[t]
  /\ sw'[s].pc = "plan" /\ sw'[s].how = "none"
  /\ sw'[s].mode = mode /\ sw'[s].target = target /\ sw'[s].old = active[s]
  /\ sw'[s].confirmed = ConfirmedThreshold(s, mode, p, target, c)
  /\ overlapped' = (overlapped \/ \E t \in Slots : ~Idle(t))
  /\ skipped' = (skipped \/ (mode = "deactivate" /\ records[p].previous # NoPlugin))
  /\ SameWayBack

(* Where each request leads.                                               *)
Leads(p, mode, target) ==
  \/ mode = "activate" /\ target = p
  \/ mode = "deactivate" /\ target = NoPlugin
  \/ mode = "rollback" /\ target = records[p].previous

LEMMA RequestBegins ==
  ASSUME SwitchInv, NEW p \in Plugins, Activate(p) \/ Deactivate(p) \/ Rollback(p)
  PROVE  \E mode, target : \E c \in Confirmation :
           Leads(p, mode, target) /\ Begins(SlotOf[p], p, mode, target, c)
<1> DEFINE s == SlotOf[p]
<1>1. s \in Slots /\ Confirmations[s] \subseteq Confirmation
  BY Constants, ConfirmationsAssumption
<1>2. PICK mode, target : \E c \in Confirmations[s] :
        Leads(p, mode, target) /\ Begin(s, mode, p, target, c)
  <2>1. CASE Activate(p)
    BY <2>1 DEF Activate, Leads
  <2>2. CASE Deactivate(p)
    BY <2>2 DEF Deactivate, Leads
  <2>3. CASE Rollback(p)
    BY <2>3 DEF Rollback, Leads
  <2> QED
    BY <2>1, <2>2, <2>3
<1>3. PICK c \in Confirmations[s] : Leads(p, mode, target) /\ Begin(s, mode, p, target, c)
  BY <1>2
<1>4. SameWayBack
  <2>1. (\E st : SetState(p, st)) \/ UNCHANGED records
    BY DEF Activate, Deactivate, Rollback
  <2> QED
    BY <2>1, StateKeepsWayBack DEF SameWayBack
<1> DEFINE confirmed == ConfirmedThreshold(s, mode, p, target, c)
           r == [NoSwitch EXCEPT !.pc = "plan", !.mode = mode, !.actor = p,
                   !.was = records[p].state, !.target = target, !.old = active[s],
                   !.compat = c.compat, !.confirmed = confirmed]
<1>5. sw' = [sw EXCEPT ![s] = r]
  BY <1>3 DEF Begin
<1>6. /\ r.pc = "plan" /\ r.how = "none" /\ r.mode = mode /\ r.target = target
      /\ r.old = active[s] /\ r.confirmed = confirmed
  <2> HIDE DEF confirmed, s
  <2> QED
    BY DEF NoSwitch
<1> HIDE DEF r
<1>7. sw'[s] = r /\ \A t \in Slots \ {s} : sw'[t] = sw[t]
  BY <1>1, <1>5, TypesOf
<1>8. spent'["crash"] = spent["crash"]
  BY <1>3, Spending DEF Begin, Events
<1>9. Begins(s, p, mode, target, c)
  BY <1>3, <1>4, <1>6, <1>7, <1>8 DEF Begin, Begins, Idle
<1> QED
  BY <1>1, <1>3, <1>9

-------------------------------------------------------------------------------
(* The gate                                                                *)

(* Every step, by what it does to switches and gate.                       *)
SlotStep(s) == Progress(s) \/ Ends(s) \/ Plans(s) \/ Pauses(s) \/ Records(s) \/ Finishes(s)

Elsewhere ==
  UNCHANGED <<up, active, gate, threshold, records, sw, overlapped, skipped>>
    /\ spent'["crash"] = spent["crash"]

LEMMA StepOfSlot ==
  ASSUME SwitchInv, GateInv, RegistryReliable, NEW s \in Slots, SwitchStep(s)
  PROVE  SlotStep(s)
<1>1. CASE MigrateStep(s) \/ After(s)
  BY <1>1, MigrationProgress DEF SlotStep
<1>2. CASE Swap(s)
  BY <1>2, SwapProgress DEF SlotStep
<1>3. CASE Plan(s)
  BY <1>3, PlanCases DEF SlotStep
<1>4. CASE Pause(s) \/ PauseTimesOut(s)
  BY <1>4, PausePauses, PauseTimesOutEnds DEF SlotStep
<1>5. CASE Release(s) \/ Abort(s)
  BY <1>5, ReleaseRecords, AbortEnds DEF SlotStep
<1>6. CASE Commit(s) \/ RecordNew(s) \/ Finish(s)
  BY <1>6, CommitCases, RecordNewRecords, FinishFinishes DEF SlotStep
<1> QED
  BY <1>1, <1>2, <1>3, <1>4, <1>5, <1>6 DEF SwitchStep

LEMMA StepCases ==
  ASSUME SwitchInv, GateInv, RegistryReliable, [Next]_vars
  PROVE  \/ \E p \in Plugins : \E mode, target : \E c \in Confirmation :
              Leads(p, mode, target) /\ Begins(SlotOf[p], p, mode, target, c)
         \/ \E s \in Slots : SwitchStep(s) /\ SlotStep(s)
         \/ Elsewhere
         \/ Crash
         \/ Restart
<1>1. CASE \E p \in Plugins : Activate(p) \/ Deactivate(p) \/ Rollback(p)
  BY <1>1, RequestBegins
<1>2. ASSUME NEW s \in Slots, SwitchStep(s)
      PROVE  SlotStep(s)
  BY <1>2, StepOfSlot
<1>3. CASE \E c \in Clients : Ask(c) \/ Answer(c)
  BY <1>3, Spending DEF Ask, Answer, Embed, Hit, Miss, Elsewhere, registryVars, switchVars,
     histVars, Events
<1>4. CASE \E v \in Spaces : Work(v)
  BY <1>4 DEF Work, ApplyJob, Elsewhere, registryVars, switchVars, histVars
<1>5. CASE Poll \/ UNCHANGED vars
  BY <1>5 DEF Poll, vars, cacheVars, Elsewhere, registryVars, switchVars, histVars
<1> QED
  BY <1>1, <1>2, <1>3, <1>4, <1>5 DEF Next

LEMMA GateInductive ==
  ASSUME SwitchInv, GateInv, RegistryReliable, [Next]_vars
  PROVE  GateInv'
<1> USE DEF Gated, GatedSteps
<1>1. ASSUME NEW s \in Slots, SlotStep(s)
      PROVE  GateInv'
  <2>1. CASE Progress(s)
    BY <2>1, ProgressKeepsGate
  <2>2. CASE Ends(s)
    <3>1. GateFits(s)'
      BY <2>2, NoSwitchFits, Constants DEF Ends, GateInv, GateFits, Resume
    <3>2. ASSUME NEW t \in Slots \ {s}
          PROVE  GateFits(t)'
      BY <2>2, Constants DEF Ends, GateInv, GateFits, Resume
    <3> QED
      BY <3>1, <3>2 DEF GateInv
  <2>3. CASE Plans(s)
    <3>1. GateFits(s)'
      BY <2>3, PlannedHow DEF Plans, GateInv, GateFits
    <3>2. ASSUME NEW t \in Slots \ {s}
          PROVE  GateFits(t)'
      BY <2>3 DEF Plans, GateInv, GateFits
    <3> QED
      BY <3>1, <3>2 DEF GateInv
  <2>4. CASE Pauses(s)
    <3>1. GateFits(s)'
      BY <2>4 DEF Pauses, GateInv, GateFits
    <3>2. ASSUME NEW t \in Slots \ {s}
          PROVE  GateFits(t)'
      BY <2>4, Constants DEF Pauses, GateInv, GateFits
    <3> QED
      BY <3>1, <3>2 DEF GateInv
  <2>5. CASE Records(s)
    <3>1. GateFits(s)'
      BY <2>5, Constants DEF Records, GateInv, GateFits, Resume, Carried
    <3>2. ASSUME NEW t \in Slots \ {s}
          PROVE  GateFits(t)'
      BY <2>5, Constants DEF Records, GateInv, GateFits, Resume
    <3> QED
      BY <3>1, <3>2 DEF GateInv
  <2>6. CASE Finishes(s)
    <3>1. GateFits(s)'
      BY <2>6, NoSwitchFits, Constants DEF Finishes, GateInv, GateFits
    <3>2. ASSUME NEW t \in Slots \ {s}
          PROVE  GateFits(t)'
      BY <2>6 DEF Finishes, GateInv, GateFits
    <3> QED
      BY <3>1, <3>2 DEF GateInv
  <2> QED
    BY <1>1, <2>1, <2>2, <2>3, <2>4, <2>5, <2>6 DEF SlotStep
<1>2. ASSUME NEW s \in Slots, NEW p, NEW mode, NEW target, NEW c, Begins(s, p, mode, target, c)
      PROVE  GateInv'
  <2>1. GateFits(s)'
    BY <1>2 DEF Begins, GateInv, GateFits, cacheVars
  <2>2. ASSUME NEW t \in Slots \ {s}
        PROVE  GateFits(t)'
    BY <1>2 DEF Begins, GateInv, GateFits, cacheVars
  <2> QED
    BY <2>1, <2>2 DEF GateInv
<1>3. CASE Elsewhere
  BY <1>3 DEF Elsewhere, GateInv, GateFits
<1>4. CASE Crash
  BY <1>4, NoSwitchFits, Constants DEF Crash, GateInv, GateFits
<1>5. CASE Restart
  <2>1. UNCHANGED <<gate, sw>>
    BY <1>5 DEF Restart, RestartWith
  <2> QED
    BY <2>1 DEF GateInv, GateFits
<1> QED
  BY <1>1, <1>2, <1>3, <1>4, <1>5, StepCases, Constants

LEMMA GateInitially ==
  ASSUME Init
  PROVE  GateInv
  BY NoSwitchFits, Constants DEF Init, CacheInit, GateInv, GateFits, Gated, GatedSteps

-------------------------------------------------------------------------------
(* The similarity threshold                                                *)

(* A re-embedding under way has blocked the threshold and saved it.        *)
Blocking(r) == r.how = "reembed" /\ Gated(r)
Live == IF Blocking(sw["embedder"]) THEN sw["embedder"].saved ELSE threshold

(* The threshold that the way back restores belongs to where it leads.     *)
WayBackFits ==
  \A p \in Plugins :
    SlotOf[p] = "vectorStore" /\ records[p].previousThreshold # NoThreshold =>
      records[p].previousThreshold = MetricOf[records[p].previous]

(* What a switch of the vector store means to set, and what it found.      *)
Chosen(r) ==
  /\ r.pc # "idle" /\ r.confirmed # NoThreshold => r.confirmed = MetricOf[r.target]
  /\ r.pc \notin {"idle", "plan"} =>
       /\ r.before = MetricOf[r.old]
       /\ r.wanted = IF MetricOf[r.target] = MetricOf[r.old] THEN NoThreshold
                                                             ELSE MetricOf[r.target]

(* One switch at a time, none that skips a plugin, and no crash.           *)
Orderly == up /\ ~overlapped /\ ~skipped /\ spent["crash"] = 0

Fitting ==
  /\ \A s, t \in Slots : s = t \/ sw[s].pc = "idle" \/ sw[t].pc = "idle"
  /\ WayBackFits
  /\ Live = MetricOf[active["vectorStore"]]
  /\ Chosen(sw["vectorStore"])
  /\ \A s \in Slots \ {"vectorStore"} : sw[s].pc \notin {"idle", "plan"} =>
       sw[s].wanted = NoThreshold

ThresholdInv == Orderly => Fitting

LEMMA RequestKeepsThreshold ==
  ASSUME SwitchInv, GateInv, ThresholdInv, Orderly', NEW p \in Plugins, NEW mode, NEW target,
         NEW c \in Confirmation, Leads(p, mode, target), Begins(SlotOf[p], p, mode, target, c)
  PROVE  Fitting'
<1> DEFINE s == SlotOf[p]
<1>1. /\ s \in Slots /\ Orderly /\ Fitting
      /\ \A t \in Slots : sw[t].pc = "idle"
      /\ mode = "deactivate" => records[p].previous = NoPlugin
  BY Constants DEF Begins, Orderly, ThresholdInv, Idle
<1>2. WayBackFits'
  BY <1>1 DEF Begins, SameWayBack, Fitting, WayBackFits
<1>3. Live' = MetricOf[active["vectorStore"]]
  <2>1. ~Blocking(sw["embedder"]) /\ ~Blocking(sw'["embedder"])
    BY <1>1, Constants DEF Begins, Blocking, Gated, GatedSteps
  <2> QED
    BY <1>1, <2>1 DEF Begins, Fitting, Live, cacheVars
<1>4. Chosen(sw'["vectorStore"])
  <2>1. CASE s # "vectorStore"
    BY <1>1, <2>1, Constants DEF Begins, Chosen
  <2>2. CASE s = "vectorStore"
    <3>1. sw'[s].pc = "plan" /\ sw'[s].target = target
      BY DEF Begins
    <3>2. sw'[s].confirmed = ConfirmedThreshold(s, mode, p, target, c)
      BY DEF Begins
    <3>3. mode # "activate" =>
            /\ target = records[p].previous
            /\ records[p].previousThreshold # NoThreshold =>
                 records[p].previousThreshold = MetricOf[target]
      BY <1>1, <2>2 DEF Leads, Fitting, WayBackFits
    <3>4. sw'[s].confirmed \in {NoThreshold, MetricOf[target]}
      <4> HIDE DEF s
      <4> QED
        BY <2>2, <3>2, <3>3 DEF ConfirmedThreshold, Confirmation
    <3> QED
      BY <2>2, <3>1, <3>4 DEF Chosen
  <2> QED
    BY <2>1, <2>2
<1>5. \A t, u \in Slots : t = u \/ sw'[t].pc = "idle" \/ sw'[u].pc = "idle"
  BY <1>1 DEF Begins
<1>6. \A t \in Slots \ {"vectorStore"} : sw'[t].pc \in {"idle", "plan"}
  BY <1>1 DEF Begins
<1> QED
  BY <1>2, <1>3, <1>4, <1>5, <1>6 DEF Fitting, Begins

(* A step of one slot while the others are idle.                           *)
LEMMA SlotStepKeepsThreshold ==
  ASSUME SwitchInv, GateInv, ThresholdInv, Orderly', NEW s \in Slots, SlotStep(s)
  PROVE  Fitting'
<1> USE DEF Gated, GatedSteps
<1>1. /\ up /\ up' = up /\ overlapped' = overlapped /\ skipped' = skipped
      /\ spent'["crash"] = spent["crash"]
      /\ \A t \in Slots \ {s} : sw'[t] = sw[t]
      /\ sw[s].pc # "idle"
  BY DEF SlotStep, Progress, Ends, Plans, Pauses, Records, Finishes
<1>2. Fitting /\ Orderly
  BY <1>1 DEF Orderly, ThresholdInv
<1>3. \A t, u \in Slots : t = u \/ sw'[t].pc = "idle" \/ sw'[u].pc = "idle"
  BY <1>1, <1>2 DEF Fitting
<1>4. /\ "embedder" \in Slots /\ "vectorStore" \in Slots
      /\ s # "embedder" => sw'["embedder"] = sw["embedder"]
      /\ s # "vectorStore" => sw'["vectorStore"] = sw["vectorStore"]
      /\ s # "embedder" => ~Blocking(sw["embedder"])
  BY <1>1, <1>2, Constants DEF Fitting, Blocking
<1>5. /\ sw[s].old = active[s]
      /\ sw[s].pc \in BeforeSwap => serving[s] = active[s]
      /\ sw[s].pc = "record" => sw[s].target \in Plugins /\ SlotOf[sw[s].target] = s
      /\ sw[s].how = "reembed" => s = "embedder"
  BY <1>1, Following, Constants DEF Follows, Placed
<1>6. CASE Progress(s)
  <2>1. Chosen(sw'["vectorStore"])
    BY <1>2, <1>4, <1>6 DEF Progress, Carried, Fitting, Chosen
  <2>2. Live' = Live
    BY <1>4, <1>6 DEF Progress, Carried, Live, Blocking
  <2>3. \A t \in Slots \ {"vectorStore"} : sw'[t].pc \notin {"idle", "plan"} =>
          sw'[t].wanted = NoThreshold
    BY <1>1, <1>2, <1>6 DEF Progress, Carried, Fitting
  <2> QED
    BY <1>2, <1>3, <1>6, <2>1, <2>2, <2>3 DEF Progress, Fitting, WayBackFits
<1>7. CASE Ends(s)
  <2>1. WayBackFits'
    BY <1>2, <1>7 DEF Ends, SameWayBack, Fitting, WayBackFits
  <2>2. Live' = Live
    <3>1. ~Blocking(sw'["embedder"])
      BY <1>4, <1>7, NoSwitchFits DEF Ends, Blocking
    <3>2. threshold' = IF Blocking(sw["embedder"]) THEN sw["embedder"].saved ELSE threshold
      BY <1>4, <1>5, <1>7 DEF Ends, Resume, Blocking
    <3> QED
      BY <3>1, <3>2 DEF Live
  <2>3. Chosen(sw'["vectorStore"])
    BY <1>2, <1>4, <1>7, NoSwitchFits DEF Ends, Fitting, Chosen
  <2>4. \A t \in Slots \ {"vectorStore"} : sw'[t].pc \notin {"idle", "plan"} =>
          sw'[t].wanted = NoThreshold
    BY <1>1, <1>2, <1>7, NoSwitchFits DEF Ends, Fitting
  <2> QED
    BY <1>2, <1>3, <1>7, <2>1, <2>2, <2>3, <2>4 DEF Ends, Fitting
<1>8. CASE Plans(s)
  <2>1. Live' = Live /\ (s = "vectorStore" => threshold = Live)
    BY <1>4, <1>8, PlannedHow DEF Plans, Live, Blocking
  <2>2. Chosen(sw'["vectorStore"])
    <3>1. CASE s = "vectorStore"
      <4>1. threshold = MetricOf[sw[s].old] /\ serving[s] = sw[s].old
        BY <1>2, <1>5, <1>8, <2>1, <3>1 DEF Plans, Fitting, BeforeSwap
      <4>2. MetricChanges(s) <=> MetricOf[sw[s].target] # MetricOf[sw[s].old]
        BY <4>1 DEF MetricChanges
      <4>3. MetricChanges(s) => sw[s].confirmed # NoThreshold
        BY <1>8, <3>1 DEF Plans, PlanFor, VectorStorePlan
      <4>4. sw[s].confirmed # NoThreshold => sw[s].confirmed = MetricOf[sw[s].target]
        BY <1>1, <1>2, <3>1 DEF Fitting, Chosen
      <4> QED
        BY <1>8, <3>1, <4>1, <4>2, <4>3, <4>4 DEF Plans, Chosen, WantedThreshold
    <3>2. CASE s # "vectorStore"
      BY <1>2, <1>4, <3>2 DEF Fitting
    <3> QED
      BY <3>1, <3>2
  <2>3. \A t \in Slots \ {"vectorStore"} : sw'[t].pc \notin {"idle", "plan"} =>
          sw'[t].wanted = NoThreshold
    BY <1>1, <1>2, <1>8 DEF Plans, Fitting, WantedThreshold
  <2> QED
    BY <1>2, <1>3, <1>8, <2>1, <2>2, <2>3 DEF Plans, Fitting, WayBackFits
<1>9. CASE Pauses(s)
  <2>1. Live' = Live
    BY <1>4, <1>5, <1>9 DEF Pauses, Live, Blocking, PausedThreshold
  <2>2. Chosen(sw'["vectorStore"])
    BY <1>2, <1>4, <1>9 DEF Pauses, Fitting, Chosen
  <2>3. \A t \in Slots \ {"vectorStore"} : sw'[t].pc \notin {"idle", "plan"} =>
          sw'[t].wanted = NoThreshold
    BY <1>1, <1>2, <1>9 DEF Pauses, Fitting
  <2> QED
    BY <1>2, <1>3, <1>9, <2>1, <2>2, <2>3 DEF Pauses, Fitting, WayBackFits
<1>10. CASE Records(s)
  <2>1. Live' = Live
    BY <1>4, <1>5, <1>10 DEF Records, Resume, Carried, Live, Blocking
  <2>2. Chosen(sw'["vectorStore"])
    BY <1>2, <1>4, <1>10 DEF Records, Carried, Fitting, Chosen
  <2>3. \A t \in Slots \ {"vectorStore"} : sw'[t].pc \notin {"idle", "plan"} =>
          sw'[t].wanted = NoThreshold
    BY <1>1, <1>2, <1>10 DEF Records, Carried, Fitting
  <2>4. WayBackFits'
    <3>1. CASE UNCHANGED records
      BY <1>2, <3>1 DEF Fitting, WayBackFits
    <3>2. CASE /\ sw[s].pc = "record"
               /\ records' = [records EXCEPT ![sw[s].target] = ActiveRecord(s)]
      <4> DEFINE a == ActiveRecord(s)
      <4>1. s = "vectorStore" /\ a.previousThreshold # NoThreshold =>
              a.previousThreshold = MetricOf[a.previous]
        BY <1>2, <3>2 DEF ActiveRecord, Fitting, Chosen
      <4> HIDE DEF a
      <4>2. ASSUME NEW p \in Plugins, p # sw[s].target
            PROVE  records'[p] = records[p]
        BY <3>2, <4>2, TypesOf
      <4>3. records'[sw[s].target] = a /\ SlotOf[sw[s].target] = s
        BY <1>5, <3>2, TypesOf DEF a
      <4> QED
        BY <1>2, <4>1, <4>2, <4>3 DEF Fitting, WayBackFits
    <3> QED
      BY <1>10, <3>1, <3>2 DEF Records
  <2> QED
    BY <1>2, <1>3, <1>10, <2>1, <2>2, <2>3, <2>4 DEF Records, Fitting
<1>11. CASE Finishes(s)
  <2>1. WayBackFits'
    BY <1>2, <1>11 DEF Finishes, SameWayBack, Fitting, WayBackFits
  <2>2. ~Blocking(sw["embedder"]) /\ ~Blocking(sw'["embedder"]) /\ threshold = Live
    BY <1>4, <1>11, NoSwitchFits DEF Finishes, Blocking, Live
  <2>3. Live' = MetricOf[active'["vectorStore"]]
    <3>1. CASE s = "vectorStore"
      <4>1. active'[s] = sw[s].target
        BY <1>11, <3>1, TypesOf DEF Finishes
      <4>2. MetricOf[sw[s].target] # NoThreshold
        BY <1>1, <3>1, Following, Constants DEF Placed
      <4>3. threshold' = MetricOf[sw[s].target]
        BY <1>2, <1>5, <1>11, <2>2, <3>1, <4>2 DEF Finishes, LiveThreshold, Fitting, Chosen
      <4> QED
        BY <2>2, <3>1, <4>1, <4>3 DEF Live
    <3>2. CASE s # "vectorStore"
      <4>1. active'["vectorStore"] = active["vectorStore"]
        BY <1>4, <1>11, <3>2, TypesOf DEF Finishes
      <4>2. threshold' = threshold
        BY <1>2, <1>11, <3>2 DEF Finishes, LiveThreshold, Fitting
      <4> QED
        BY <1>2, <2>2, <4>1, <4>2 DEF Live, Fitting
    <3> QED
      BY <3>1, <3>2
  <2>4. Chosen(sw'["vectorStore"])
    BY <1>2, <1>4, <1>11, NoSwitchFits DEF Finishes, Fitting, Chosen
  <2>5. \A t \in Slots \ {"vectorStore"} : sw'[t].pc \notin {"idle", "plan"} =>
          sw'[t].wanted = NoThreshold
    BY <1>1, <1>2, <1>11, NoSwitchFits DEF Finishes, Fitting
  <2> QED
    BY <1>3, <2>1, <2>3, <2>4, <2>5 DEF Fitting
<1> QED
  BY <1>6, <1>7, <1>8, <1>9, <1>10, <1>11 DEF SlotStep

LEMMA ThresholdInductive ==
  ASSUME SwitchInv, GateInv, ThresholdInv, RegistryReliable, [Next]_vars
  PROVE  ThresholdInv'
<1> SUFFICES ASSUME Orderly'
             PROVE  Fitting'
  BY DEF ThresholdInv
<1>1. CASE Elsewhere
  BY <1>1 DEF Elsewhere, Orderly, ThresholdInv, Fitting, WayBackFits, Live
<1>2. CASE Crash
  BY <1>2 DEF Crash, Orderly
<1>3. CASE Restart
  <2>1. ~up /\ spent["crash"] > 0 /\ spent'["crash"] = spent["crash"]
    BY <1>3, Spending DEF Restart, RestartWith, Answered, Refused, Events, SwitchInv
  <2> QED
    BY <2>1 DEF Orderly
<1> QED
  BY <1>1, <1>2, <1>3, StepCases, RequestKeepsThreshold, SlotStepKeepsThreshold

LEMMA ThresholdInitially ==
  ASSUME Init
  PROVE  ThresholdInv
<1>1. /\ sw = [s \in Slots |-> NoSwitch] /\ threshold = MetricOf[NoPlugin]
      /\ active = [s \in Slots |-> NoPlugin] /\ records = [p \in Plugins |-> Verified]
  BY DEF Init, CacheInit, RegistryInit
<1>2. Live = MetricOf[active["vectorStore"]]
  BY <1>1, NoSwitchFits, Constants DEF Live, Blocking
<1>3. WayBackFits
  BY <1>1 DEF WayBackFits, Verified
<1>4. \A s \in Slots : sw[s].pc = "idle"
  BY <1>1, NoSwitchFits
<1> QED
  BY <1>2, <1>3, <1>4, Constants DEF ThresholdInv, Fitting, Chosen

(* Unless two switches overlap, a plugin that followed another is          *)
(* deactivated or the process crashes, the live threshold is the one of    *)
(* the metric of the index in use whenever nothing is switching            *)
(* (activate.go:142, 301, 364): for any plugins and metrics, and any chain *)
(* of activations, rollbacks and failures.                                 *)
THEOREM ThresholdFits ==
  ASSUME RegistryReliable
  PROVE  Spec => []ThresholdFitsMetric
<1> DEFINE Inv == SwitchInv /\ GateInv /\ ThresholdInv
<1>1. Init => Inv
  BY SwitchInitially, GateInitially, ThresholdInitially
<1>2. Inv /\ [Next]_vars => Inv'
  BY SwitchInductive, GateInductive, ThresholdInductive
<1>3. Inv => ThresholdFitsMetric
  <2> SUFFICES ASSUME Inv, ~skipped, up, Idle("vectorStore"), gate = NoSlot, ~overlapped,
                      spent["crash"] = 0
               PROVE  threshold = MetricOf[serving["vectorStore"]]
    BY DEF ThresholdFitsMetric, ThresholdRestored
  <2>1. Fitting
    BY DEF ThresholdInv, Orderly
  <2>2. ~Gated(sw["embedder"])
    BY Constants DEF GateInv, GateFits
  <2>3. serving["vectorStore"] = active["vectorStore"]
    BY Following, Constants DEF Follows, Idle
  <2> QED
    BY <2>1, <2>2, <2>3 DEF Fitting, Live, Blocking
<1> QED
  BY <1>1, <1>2, <1>3, PTL DEF Spec

-------------------------------------------------------------------------------
(* Contents                                                                *)

Untouched == UNCHANGED contentVars /\ \A t \in Slots \ {"embedder"} : serving'[t] = serving[t]

LEMMA InPlace ==
  ASSUME SwitchInv
  PROVE  /\ serving["persistence"] \in ImplsOf("persistence")
         /\ serving["vectorStore"] \in ImplsOf("vectorStore")
         /\ serving["policy"] \in ImplsOf("policy")
         /\ "persistence" \in Slots /\ "vectorStore" \in Slots
         /\ "policy" \in Slots /\ "embedder" \in Slots
  BY Constants DEF SwitchInv, ImplsInPlace

LEMMA UntouchedContents ==
  ASSUME Untouched
  PROVE  Store' = Store /\ Index' = Index /\ Tracked' = Tracked
  BY Constants DEF Untouched, contentVars, Store, Index, Tracked

(* What a call to the implementation in use leaves.                        *)
LEMMA CallLeaves ==
  ASSUME SwitchInv, NEW f, NEW S
  PROVE  /\ serving'["persistence"] = serving["persistence"] /\ KeepAs(f) =>
              /\ Store' = f
              /\ \A q \in ImplsOf("persistence") \ {serving["persistence"]} : kept'[q] = kept[q]
         /\ serving'["vectorStore"] = serving["vectorStore"] /\ IndexAs(f) => Index' = f
         /\ serving'["policy"] = serving["policy"] /\ TrackAs(S) => Tracked' = S
  BY InPlace, TypesOf DEF KeepAs, IndexAs, TrackAs, Store, Index, Tracked

LEMMA SameUse ==
  /\ UNCHANGED kept /\ serving'["persistence"] = serving["persistence"] => Store' = Store
  /\ UNCHANGED indexed /\ serving'["vectorStore"] = serving["vectorStore"] => Index' = Index
  /\ UNCHANGED tracked /\ serving'["policy"] = serving["policy"] => Tracked' = Tracked
  BY DEF Store, Index, Tracked

(* No migration ever clears what a failed one left behind.                 *)
LEMMA UnrestoredStays ==
  ASSUME [Next]_vars
  PROVE  unrestored => unrestored'
<1> SUFFICES ASSUME unrestored PROVE unrestored'
  OBVIOUS
<1>1. ASSUME NEW s \in Slots, SwitchStep(s)
      PROVE  unrestored'
  <2>1. ASSUME MigrateStep(s)
        PROVE  unrestored'
    BY <2>1 DEF MigrateStep, MigrateByFlush, EmbedEntries, SaveEntry, RebuildIndex, Restore,
       RebuildCandidate, Replay, CopyEntries, CleanUp, histVars
  <2> QED
    BY <1>1, <2>1 DEF SwitchStep, Plan, Pause, PauseTimesOut, Swap, After, Release, Abort,
       Commit, RecordNew, Finish, Undo, UndoneTo, histVars
<1> QED
  BY <1>1 DEF Next, Activate, Deactivate, Rollback, Begin, Ask, Answer, Work, Poll, Crash,
     Restart, RestartWith, vars, histVars

(* A switch that does not hold the gate changes no contents, unless it is  *)
(* undone.                                                                 *)
LEMMA UngatedStep ==
  ASSUME SwitchInv, GateInv, RegistryReliable, NEW s \in Slots, SwitchStep(s), gate # s,
         ~unrestored'
  PROVE  Untouched
<1> USE DEF Gated, GatedSteps
<1>1. /\ sw[s].pc \notin GatedSteps
      /\ sw[s].pc = "swap" => sw[s].how = "none"
      /\ sw[s].how = "none" =>
           \/ sw[s].pc \in {"idle", "plan"}
           \/ s = "embedder"
  BY DEF GateInv, GateFits
<1>2. CASE Plan(s) \/ PauseTimesOut(s)
  BY <1>2 DEF Plan, PauseTimesOut, cacheVars, Untouched
<1>3. CASE Pause(s)
  BY <1>3 DEF Pause, Untouched
<1>4. CASE Swap(s)
  BY <1>1, <1>4, TypesOf DEF Swap, At, Serve, Untouched
<1>5. CASE Commit(s)
  <2>1. Undo(s) => s = "embedder" /\ serving' = [serving EXCEPT ![s] = sw[s].replaced]
    BY <1>1, <1>5 DEF Commit, At, Undo, UndoneTo, Serve
  <2> QED
    BY <1>5, <2>1, TypesOf DEF Commit, Untouched
<1>6. CASE RecordNew(s)
  BY <1>6 DEF RecordNew, RegistryReliable, Refused, ReplyLost, Untouched
<1>7. CASE Finish(s)
  BY <1>7 DEF Finish, Untouched
<1>8. CASE MigrateStep(s)
  BY <1>1, <1>8 DEF MigrateStep, MigrateByFlush, EmbedEntries, SaveEntry, RebuildIndex, Restore,
     RebuildCandidate, Replay, CopyEntries, At
<1>9. CASE After(s) \/ Release(s) \/ Abort(s)
  BY <1>1, <1>9 DEF After, Release, Abort, At
<1> QED
  BY <1>2, <1>3, <1>4, <1>5, <1>6, <1>7, <1>8, <1>9 DEF SwitchStep

-------------------------------------------------------------------------------
(* The candidate of a new store                                            *)

(* A store that is to start empty, or that replaces an empty one, is found *)
(* empty before the gate is taken and nothing fills it since: entries are  *)
(* saved in the store in use only.                                         *)
CandidateInv ==
  LET r == sw["persistence"]
  IN  up =>
        /\ r.pc \in {"pause", "swap"} /\ r.how = "plain" =>
             Held(kept[r.target]) = {} \/ r.target = serving["persistence"]
        /\ r.pc \in {"pause", "swap"} /\ r.how = "empty" =>
             Held(kept[r.target]) = {} /\ r.target # serving["persistence"]
        /\ r.pc = "after" /\ r.how = "empty" => Held(kept[r.target]) = {}

(* Steps that do not concern the slot.                                     *)
LEMMA CandidateUndisturbed ==
  ASSUME SwitchInv, CandidateInv, up, sw'["persistence"] = sw["persistence"],
         serving'["persistence"] = serving["persistence"],
         \/ UNCHANGED kept
         \/ sw["persistence"].pc # "after" /\ \E f : KeepAs(f)
  PROVE  CandidateInv'
<1> DEFINE r == sw["persistence"]
<1>1. r.target \in ImplsOf("persistence")
  BY Following, InPlace DEF Placed
<1>2. CASE UNCHANGED kept
  BY <1>2 DEF CandidateInv
<1>3. CASE r.pc # "after" /\ \E f : KeepAs(f)
  <2>1. r.target # serving["persistence"] => kept'[r.target] = kept[r.target]
    BY <1>1, <1>3, CallLeaves
  <2> QED
    BY <1>3, <2>1 DEF CandidateInv
<1> QED
  BY <1>2, <1>3

LEMMA OtherStepsKeep ==
  ASSUME SwitchInv, GateInv, NEW s \in Slots \ {"persistence"}, SwitchStep(s)
  PROVE  /\ sw'["persistence"] = sw["persistence"]
         /\ serving'["persistence"] = serving["persistence"]
         /\ UNCHANGED kept \/ (gate = s /\ \E f : KeepAs(f))
<1> USE DEF Gated, GatedSteps
<1>1. CASE MigrateStep(s) \/ After(s)
  <2>1. Progress(s) /\ gate = s
    BY <1>1, MigrationProgress
       DEF GateInv, GateFits, MigrateStep, MigrateByFlush, EmbedEntries, SaveEntry, RebuildIndex,
           Restore, RebuildCandidate, Replay, CopyEntries, After, At
  <2>2. UNCHANGED kept \/ \E f : KeepAs(f)
    <3>1. ~CopyEntries(s)
      <4>1. sw[s].how \in HowsOf(s) \cup {"none"} /\ "migrate" \notin HowsOf(s)
        BY Constants DEF GateInv, GateFits, HowsOf
      <4> QED
        BY <4>1 DEF CopyEntries
    <3> QED
      BY <1>1, <3>1
         DEF MigrateStep, MigrateByFlush, EmbedEntries, SaveEntry, RebuildIndex,
             Restore, RebuildCandidate, Replay, After, cacheVars, contentVars
  <2> QED
    BY <2>1, <2>2, InPlace DEF Progress
<1>2. CASE Plan(s) \/ PauseTimesOut(s)
  <2>1. sw'["persistence"] = sw["persistence"]
    BY <1>2, PlanCases, PauseTimesOutEnds, InPlace DEF Plans, Ends
  <2> QED
    BY <1>2, <2>1 DEF Plan, PauseTimesOut, cacheVars, contentVars
<1>3. CASE Pause(s) \/ Release(s)
  <2>1. sw'["persistence"] = sw["persistence"]
    BY <1>3, PausePauses, ReleaseRecords, InPlace DEF Pauses, Records
  <2> QED
    BY <1>3, <2>1 DEF Pause, Release, contentVars
<1>4. CASE Swap(s)
  <2>1. Progress(s) /\ UNCHANGED kept
    BY <1>4, SwapProgress DEF Swap, contentVars
  <2> QED
    BY <2>1, InPlace DEF Progress
<1>5. CASE Abort(s)
  BY <1>5, AbortEnds, InPlace DEF Abort, Ends, contentVars
<1>6. CASE Commit(s)
  <2>1. sw'["persistence"] = sw["persistence"]
    BY <1>6, CommitCases, InPlace DEF Ends, Records
  <2>2. UNCHANGED serving \/ Serve(s, sw[s].replaced)
    BY <1>6 DEF Commit, Undo
  <2> QED
    BY <1>6, <2>1, <2>2, InPlace, TypesOf DEF Commit, Serve, contentVars
<1>7. CASE RecordNew(s)
  <2>1. /\ UNCHANGED serving \/ Serve(s, sw[s].replaced)
        /\ UNCHANGED contentVars
    BY <1>7 DEF RecordNew, Undo
  <2>2. Go(s, "finish") \/ Done(s)
    BY <1>7 DEF RecordNew, Undo, Fail
  <2>3. sw'["persistence"] = sw["persistence"]
    BY <2>2, GoKeeps, DoneKeeps, TypesOf, InPlace DEF Steps
  <2> QED
    BY <2>1, <2>3, InPlace, TypesOf DEF Serve, contentVars
<1>8. CASE Finish(s)
  BY <1>8, FinishFinishes, InPlace DEF Finish, Finishes, contentVars
<1> QED
  BY <1>1, <1>2, <1>3, <1>4, <1>5, <1>6, <1>7, <1>8 DEF SwitchStep

LEMMA OwnStepsKeep ==
  ASSUME SwitchInv, GateInv, CandidateInv, RegistryReliable, SwitchStep("persistence")
  PROVE  CandidateInv'
<1> DEFINE s == "persistence"
           r == sw[s]
<1>1. s \in Slots /\ r.target \in ImplsOf(s)
  BY InPlace, Following DEF SwitchStep, Plan, Pause, PauseTimesOut, Swap, After, Release, Abort,
     Commit, RecordNew, Finish, At, Placed, MigrateStep, MigrateByFlush, EmbedEntries, SaveEntry,
     RebuildIndex, Restore, RebuildCandidate, Replay, CopyEntries
<1>2. ASSUME sw'[s].pc \notin {"pause", "swap", "after"}
      PROVE  CandidateInv'
  BY <1>2 DEF CandidateInv
<1>3. CASE Plan(s)
  <2>1. CASE Ends(s)
    BY <1>2, <2>1, NoSwitchFits DEF Ends
  <2>2. CASE Plans(s)
    <3>1. UNCHANGED cacheVars
      BY <1>3 DEF Plan
    <3>2. /\ sw'[s].how = PersistencePlan(s) /\ sw'[s].target = r.target /\ sw'[s].pc # "after"
      BY <2>2 DEF Plans, PlanFor
    <3>3. /\ PersistencePlan(s) = "plain" => Held(kept[r.target]) = {}
          /\ PersistencePlan(s) = "empty" =>
               Held(kept[r.target]) = {} /\ r.target # serving[s]
      BY DEF PersistencePlan, Store
    <3> QED
      BY <3>1, <3>2, <3>3 DEF CandidateInv, cacheVars, contentVars
  <2> QED
    BY <1>1, <1>3, <2>1, <2>2, PlanCases
<1>4. CASE Pause(s)
  <2>1. Pauses(s) /\ UNCHANGED <<contentVars, serving>>
    BY <1>1, <1>4, PausePauses DEF Pause
  <2> QED
    BY <2>1 DEF Pauses, CandidateInv, contentVars
<1>5. CASE Swap(s)
  <2>1. Progress(s) /\ sw'[s].pc \in {"commit", "after", "release"} /\ r.pc = "swap"
    BY <1>1, <1>5, SwapProgress DEF Swap, At
  <2>2. UNCHANGED kept
    BY <1>5 DEF Swap, contentVars
  <2> QED
    BY <2>1, <2>2 DEF Progress, Carried, CandidateInv
<1>6. CASE PauseTimesOut(s) \/ Abort(s)
  <2>1. Ends(s)
    BY <1>1, <1>6, PauseTimesOutEnds, AbortEnds
  <2> QED
    BY <1>2, <2>1, NoSwitchFits DEF Ends
<1>7. CASE Release(s) \/ Commit(s) \/ RecordNew(s)
  <2>1. Ends(s) \/ Records(s)
    BY <1>1, <1>7, ReleaseRecords, CommitCases, RecordNewRecords
  <2> QED
    BY <1>2, <2>1, NoSwitchFits DEF Ends, Records
<1>8. CASE Finish(s)
  <2>1. Finishes(s)
    BY <1>1, <1>8, FinishFinishes
  <2> QED
    BY <1>2, <2>1, NoSwitchFits DEF Finishes
<1>9. CASE After(s)
  <2>1. Go(s, "release") \/ Go(s, "abort")
    BY <1>9 DEF After
  <2>2. sw'[s].pc \in {"release", "abort"}
    BY <1>1, <2>1, GoCarries, TypesOf DEF Steps
  <2> QED
    BY <1>2, <2>2
<1>10. CASE MigrateStep(s)
  <2>1. r.how \in {"plain", "migrate", "empty", "adopt", "none"}
    BY <1>1 DEF GateInv, GateFits, HowsOf
  <2>2. r.pc \notin {"save", "restore"}
    BY <1>10, <2>1, <1>1, Following
       DEF MigrateStep, MigrateByFlush, EmbedEntries, SaveEntry, RebuildIndex, Restore,
           RebuildCandidate, Replay, CopyEntries, At, Placed
  <2>3. CopyEntries(s)
    BY <1>10, <2>1, <2>2 DEF MigrateStep, MigrateByFlush, EmbedEntries, SaveEntry, RebuildIndex,
       Restore, RebuildCandidate, Replay, At
  <2>4. Progress(s) /\ r.how = "migrate"
    BY <1>1, <1>10, <2>3, MigrationProgress DEF CopyEntries
  <2> QED
    BY <2>4 DEF Progress, Carried, CandidateInv
<1> QED
  BY <1>3, <1>4, <1>5, <1>6, <1>7, <1>8, <1>9, <1>10 DEF SwitchStep

LEMMA CandidateInductive ==
  ASSUME SwitchInv, GateInv, CandidateInv, RegistryReliable, [Next]_vars
  PROVE  CandidateInv'
<1>1. CASE \E s \in Slots : SwitchStep(s)
  <2>1. PICK s \in Slots : SwitchStep(s)
    BY <1>1
  <2>2. CASE s = "persistence"
    BY <2>1, <2>2, OwnStepsKeep
  <2>3. CASE s # "persistence"
    <3>1. /\ sw'["persistence"] = sw["persistence"]
          /\ serving'["persistence"] = serving["persistence"]
          /\ UNCHANGED kept \/ (gate = s /\ \E f : KeepAs(f))
      BY <2>1, <2>3, OtherStepsKeep
    <3>2. gate = s => sw["persistence"].pc # "after"
      BY <2>3, InPlace DEF GateInv, GateFits, Gated, GatedSteps
    <3>3. up
      BY <2>1 DEF SwitchStep, Plan, Pause, PauseTimesOut, Swap, After, Release, Abort,
         Commit, RecordNew, Finish, At, MigrateStep, MigrateByFlush, EmbedEntries, SaveEntry,
         RebuildIndex, Restore, RebuildCandidate, Replay, CopyEntries
    <3> QED
      BY <3>1, <3>2, <3>3, CandidateUndisturbed
  <2> QED
    BY <2>2, <2>3
<1>2. ASSUME NEW p \in Plugins, Activate(p) \/ Deactivate(p) \/ Rollback(p)
      PROVE  CandidateInv'
  <2>1. PICK mode, target : \E c \in Confirmation : Begins(SlotOf[p], p, mode, target, c)
    BY <1>2, RequestBegins
  <2>2. PICK c \in Confirmation : Begins(SlotOf[p], p, mode, target, c)
    BY <2>1
  <2>3. CASE SlotOf[p] = "persistence"
    BY <2>2, <2>3 DEF Begins, CandidateInv
  <2>4. CASE SlotOf[p] # "persistence"
    BY <2>2, <2>4, InPlace, CandidateUndisturbed DEF Begins, cacheVars, contentVars
  <2> QED
    BY <2>3, <2>4
<1>3. CASE \E v \in Spaces : Work(v)
  <2>1. PICK v \in Spaces : Work(v)
    BY <1>3
  <2>2. /\ gate = NoSlot /\ up /\ UNCHANGED <<serving, sw>>
        /\ \E f : KeepAs(f)
    BY <2>1 DEF Work, ApplyJob, switchVars
  <2>3. sw["persistence"].pc # "after"
    BY <2>2, InPlace, Constants DEF GateInv, GateFits, Gated, GatedSteps
  <2> QED
    BY <2>2, <2>3, CandidateUndisturbed
<1>4. CASE \E c \in Clients : Ask(c) \/ Answer(c)
  BY <1>4, CandidateUndisturbed
     DEF Ask, Answer, Embed, Hit, Miss, switchVars, contentVars
<1>5. CASE Poll \/ UNCHANGED vars
  BY <1>5 DEF Poll, vars, cacheVars, contentVars, switchVars, CandidateInv
<1>6. CASE Crash
  BY <1>6 DEF Crash, CandidateInv
<1>7. CASE Restart
  <2>1. UNCHANGED sw /\ ~up
    BY <1>7 DEF Restart, RestartWith
  <2>2. sw'["persistence"].pc = "idle"
    BY <2>1, InPlace DEF SwitchInv, SlotInv, Idle
  <2> QED
    BY <2>2 DEF CandidateInv
<1> QED
  BY <1>1, <1>2, <1>3, <1>4, <1>5, <1>6, <1>7 DEF Next

LEMMA CandidateInitially ==
  ASSUME Init
  PROVE  CandidateInv
<1>1. sw["persistence"].pc = "idle"
  BY NoSwitchFits, Constants DEF Init
<1> QED
  BY <1>1 DEF CandidateInv

-------------------------------------------------------------------------------
(* Re-embedding                                                            *)

LEMMA RunsUp ==
  ASSUME NEW s, SwitchStep(s)
  PROVE  up
  BY DEF SwitchStep, Plan, Pause, PauseTimesOut, Swap, After, Release, Abort,
     Commit, RecordNew, Finish, At, MigrateStep, MigrateByFlush, EmbedEntries, SaveEntry,
     RebuildIndex, Restore, RebuildCandidate, Replay, CopyEntries

(* While a switch holds the gate, nobody else changes contents.            *)
LEMMA HolderAlone ==
  ASSUME SwitchInv, GateInv, RegistryReliable, [Next]_vars, NEW s \in Slots, gate = s,
         ~SwitchStep(s), ~unrestored', ~Crash
  PROVE  Untouched /\ sw'[s] = sw[s] /\ up /\ up'
<1>1. up /\ sw[s].pc # "idle"
  BY DEF GateInv, GateFits, Gated, GatedSteps, SwitchInv, SlotInv, Idle
<1>2. ASSUME NEW t \in Slots \ {s}, SwitchStep(t)
      PROVE  Untouched /\ sw'[s] = sw[s] /\ up'
  <2>1. SlotStep(t)
    BY <1>2, StepOfSlot
  <2>2. sw'[s] = sw[s] /\ up' = up
    BY <2>1 DEF SlotStep, Progress, Ends, Plans, Pauses, Records, Finishes
  <2> QED
    BY <1>1, <1>2, <2>2, UngatedStep
<1>3. ASSUME NEW p \in Plugins, Activate(p) \/ Deactivate(p) \/ Rollback(p)
      PROVE  Untouched /\ sw'[s] = sw[s] /\ up'
  <2>1. PICK mode, target : \E c \in Confirmation : Begins(SlotOf[p], p, mode, target, c)
    BY <1>3, RequestBegins
  <2> QED
    BY <1>1, <2>1 DEF Begins, Untouched, cacheVars
<1>4. CASE \E c \in Clients : Ask(c) \/ Answer(c)
  BY <1>1, <1>4 DEF Ask, Answer, Embed, Hit, Miss, switchVars, Untouched
<1>5. ASSUME NEW v \in Spaces, Work(v)
      PROVE  FALSE
  BY <1>5, Constants DEF Work, ApplyJob
<1>6. CASE Poll \/ UNCHANGED vars
  BY <1>1, <1>6 DEF Poll, vars, cacheVars, switchVars, Untouched
<1>7. ~Restart
  BY <1>1 DEF Restart, RestartWith
<1> QED
  BY <1>1, <1>2, <1>3, <1>4, <1>5, <1>6, <1>7 DEF Next

(* What the entries are between the first new vector and the swap, or the  *)
(* end of the restore: the listed ones, some or all with their new vector. *)
Converted(e) ==
  /\ e.pc \in {"save", "restore"} => Held(Store) = Held(e.listed)
  /\ e.pc = "save" =>
       /\ e.todo \subseteq Held(e.listed)
       /\ \A i \in Held(e.listed) :
            Store[i] = IF i \in e.todo THEN e.listed[i] ELSE SpaceOf[e.target]
  /\ e.pc = "swap" => Store = Reembedded("embedder") /\ Index = Reembedded("embedder")
  /\ e.pc = "abort" => Store = e.listed

ReembedInv ==
  sw["embedder"].how = "reembed" /\ ~unrestored => Converted(sw["embedder"])

LEMMA SaveConverts ==
  ASSUME SwitchInv, GateInv, Converted(sw["embedder"]), SaveEntry("embedder")
  PROVE  Converted(sw["embedder"])'
<1> DEFINE s == "embedder"
           e == sw[s]
           new == SpaceOf[e.target]
<1>1. /\ e.pc = "save" /\ UNCHANGED serving /\ s \in Slots /\ e.target \in ImplsOf("embedder")
      /\ e \in Switch
  BY InPlace, TypesOf, Following DEF SaveEntry, At, Placed
<1>2. new \in Spaces /\ new # NoSpace
  BY <1>1, Constants, SpacesAssumption
<1>3. PICK i \in e.todo :
        \/ /\ KeepAs([Store EXCEPT ![i] = new])
           /\ sw' = [sw EXCEPT ![s].todo = Unsaved(s, i)]
        \/ /\ Go(s, "restore")
           /\ UNCHANGED kept \/ KeepAs([Store EXCEPT ![i] = new])
  BY DEF SaveEntry
<1>4. Store \in Contents /\ e.listed \in Contents
  BY <1>1, InUse DEF Switch
<1>5. /\ Held(Store) = Held(e.listed) /\ e.todo \subseteq Held(e.listed)
      /\ \A j \in Held(e.listed) : Store[j] = IF j \in e.todo THEN e.listed[j] ELSE new
  BY <1>1 DEF Converted
<1> DEFINE f == [Store EXCEPT ![i] = new]
<1>6. /\ Held(f) = Held(e.listed)
      /\ \A j \in Held(e.listed) : f[j] = IF j \in e.todo \ {i} THEN e.listed[j] ELSE new
  <2>1. i \in Ids /\ i \in Held(e.listed)
    BY <1>3, <1>5 DEF Held
  <2>2. \A j \in Ids : f[j] = IF j = i THEN new ELSE Store[j]
    BY <1>4 DEF Contents
  <2>3. \A j \in Ids : j \in Held(f) <=> j \in Held(Store)
    BY <1>2, <1>5, <2>1, <2>2 DEF Held
  <2>4. Held(f) = Held(e.listed)
    BY <1>5, <2>3 DEF Held
  <2> QED
    BY <1>5, <2>2, <2>4 DEF Held
<1> HIDE DEF f, new
<1>7. CASE KeepAs(f) /\ sw' = [sw EXCEPT ![s].todo = Unsaved(s, i)]
  <2> DEFINE r == [e EXCEPT !.todo = Unsaved(s, i)]
  <2>1. sw' = [sw EXCEPT ![s] = r]
    BY <1>7
  <2>2. /\ r.pc = "save" /\ r.todo = e.todo \ {i} /\ r.listed = e.listed /\ r.target = e.target
    BY <1>1 DEF Switch, Unsaved
  <2> HIDE DEF r
  <2>3. sw'[s] = r
    BY <1>1, <2>1, TypesOf
  <2>4. Store' = f
    BY <1>1, <1>7, CallLeaves
  <2> QED
    BY <1>5, <1>6, <2>2, <2>3, <2>4 DEF Converted, new
<1>8. CASE Go(s, "restore") /\ (UNCHANGED kept \/ KeepAs(f))
  <2>1. sw'[s].pc = "restore" /\ sw'[s].listed = e.listed
    BY <1>1, <1>8, GoCarries, TypesOf DEF Steps
  <2>2. Store' = Store \/ Store' = f
    BY <1>1, <1>8, CallLeaves, SameUse
  <2>3. Held(Store)' = Held(e.listed)
    BY <1>5, <1>6, <2>2 DEF Held
  <2> QED
    BY <2>1, <2>3 DEF Converted
<1> QED
  BY <1>3, <1>7, <1>8 DEF f, new

LEMMA EmbedConverts ==
  ASSUME SwitchInv, EmbedEntries("embedder")
  PROVE  Converted(sw["embedder"])'
<1> DEFINE s == "embedder"
           q == [sw[s] EXCEPT !.pc = "save", !.listed = Store, !.todo = Held(Store)]
           a == [sw[s] EXCEPT !.pc = "abort", !.listed = Store]
<1>1. s \in Slots /\ sw[s] \in Switch /\ UNCHANGED cacheVars
  BY InPlace, TypesOf DEF EmbedEntries
<1>2. /\ q.pc = "save" /\ q.listed = Store /\ q.todo = Held(Store)
      /\ a.pc = "abort" /\ a.listed = Store
  BY <1>1 DEF Switch
<1>3. sw' = [sw EXCEPT ![s] = q] \/ sw' = [sw EXCEPT ![s] = a]
  BY DEF EmbedEntries
<1> HIDE DEF q, a
<1>4. sw'[s] = q \/ sw'[s] = a
  BY <1>1, <1>3, TypesOf
<1>5. Store' = Store /\ \A i \in Held(Store) : i \in Held(Store)
  BY <1>1 DEF Store, cacheVars, contentVars
<1> QED
  BY <1>2, <1>4, <1>5 DEF Converted

(* All entries saved, the store holds what the index is rebuilt from.      *)
LEMMA AllSaved ==
  ASSUME SwitchInv, Converted(sw["embedder"]), up, sw["embedder"].pc = "save",
         sw["embedder"].todo = {}
  PROVE  Store = Reembedded("embedder")
<1> DEFINE e == sw["embedder"]
<1>1. Store \in Contents /\ e.listed \in Contents
  BY InUse, TypesOf, InPlace DEF Switch
<1>2. ASSUME NEW i \in Ids
      PROVE  Store[i] = IF e.listed[i] = NoSpace THEN NoSpace ELSE SpaceOf[e.target]
  BY DEF Converted, Held
<1> QED
  BY <1>1, <1>2 DEF Reembedded, Contents

LEMMA RebuildConverts ==
  ASSUME SwitchInv, GateInv, Converted(sw["embedder"]), RebuildIndex("embedder")
  PROVE  /\ Converted(sw["embedder"])'
         /\ sw'["embedder"].pc = "swap" => Store' = Reembedded("embedder") /\ Index' = Store'
<1> DEFINE s == "embedder"
<1>1. /\ s \in Slots /\ sw[s].pc = "save" /\ up
      /\ UNCHANGED <<serving, kept, tracked>>
  BY InPlace DEF RebuildIndex, At
<1>2. Store = Reembedded(s) /\ Store' = Store
  BY <1>1, AllSaved, SameUse DEF RebuildIndex
<1>3. PICK step \in {"swap", "restore"} :
        /\ Go(s, step)
        /\ step = "swap" => IndexAs(Reembedded(s))
  BY DEF RebuildIndex
<1>4. /\ sw'[s].pc = step /\ sw'[s].listed = sw[s].listed
      /\ sw'[s].target = sw[s].target
  BY <1>1, <1>3, GoCarries, TypesOf DEF Steps, Carried
<1>5. Reembedded(s)' = Reembedded(s)
  BY <1>4 DEF Reembedded
<1>6. step = "swap" => Index' = Reembedded(s)
  BY <1>1, <1>3, CallLeaves
<1>7. Held(Store)' = Held(sw[s].listed)
  BY <1>1, <1>2 DEF Converted, Held
<1> QED
  BY <1>2, <1>4, <1>5, <1>6, <1>7 DEF Converted

LEMMA RestoreConverts ==
  ASSUME SwitchInv, GateInv, Converted(sw["embedder"]), Restore("embedder"), ~unrestored'
  PROVE  /\ Converted(sw["embedder"])'
         /\ sw'["embedder"].pc = "abort"
         /\ Store' = sw["embedder"].listed /\ Index' = Store' /\ Tracked' = Tracked
<1> DEFINE s == "embedder"
           e == sw[s]
<1>1. /\ s \in Slots /\ e.pc = "restore" /\ up /\ UNCHANGED <<serving, tracked>>
      /\ KeepAs(PutBack(e.listed, Held(e.listed)))
      /\ IndexAs(e.listed) /\ Go(s, "abort")
  BY InPlace DEF Restore, At
<1>2. Store \in Contents /\ e.listed \in Contents
  BY InUse, TypesOf, InPlace DEF Switch
<1>3. Held(Store) = Held(e.listed)
  BY <1>1 DEF Converted
<1>4. PutBack(e.listed, Held(e.listed)) = e.listed
  <2>1. ASSUME NEW i \in Ids
        PROVE  (IF i \in Held(e.listed) THEN e.listed[i] ELSE Store[i]) = e.listed[i]
    BY <1>3 DEF Held
  <2> QED
    BY <1>2, <2>1 DEF PutBack, Contents
<1>5. Store' = e.listed /\ Index' = e.listed /\ Tracked' = Tracked
  BY <1>1, <1>4, CallLeaves, SameUse
<1>6. sw'[s].pc = "abort" /\ sw'[s].listed = e.listed
  BY <1>1, GoCarries, TypesOf DEF Steps
<1> QED
  BY <1>5, <1>6 DEF Converted

LEMMA ReembedInductive ==
  ASSUME SwitchInv, GateInv, ReembedInv, RegistryReliable, [Next]_vars
  PROVE  ReembedInv'
<1> DEFINE s == "embedder"
<1> SUFFICES ASSUME sw'[s].how = "reembed", ~unrestored'
             PROVE  Converted(sw[s])'
  BY DEF ReembedInv
<1>1. s \in Slots /\ ~unrestored
  BY InPlace, UnrestoredStays
<1>2. ASSUME sw'[s].pc \notin {"save", "restore", "swap", "abort"}
      PROVE  Converted(sw[s])'
  BY <1>2 DEF Converted
<1>3. CASE Crash
  BY <1>1, <1>3, NoSwitchFits DEF Crash
<1>4. CASE SwitchStep(s)
  <2>1. CASE MigrateStep(s)
    <3>1. Progress(s)
      BY <1>1, <2>1, MigrationProgress
    <3>2. sw[s].how = "reembed" /\ Converted(sw[s])
      BY <1>1, <3>1 DEF Progress, Carried, ReembedInv
    <3>3. EmbedEntries(s) \/ SaveEntry(s) \/ RebuildIndex(s) \/ Restore(s)
      BY <2>1, <3>2 DEF MigrateStep, MigrateByFlush, RebuildCandidate, Replay, CopyEntries
    <3> QED
      BY <3>2, <3>3, EmbedConverts, SaveConverts, RebuildConverts, RestoreConverts
  <2>2. CASE Plan(s)
    <3>1. Ends(s) \/ Plans(s)
      BY <1>1, <2>2, PlanCases
    <3>2. sw'[s].pc \in {"idle", "pause"}
      BY <3>1, NoSwitchFits DEF Ends, Plans
    <3> QED
      BY <1>2, <3>2
  <2>3. CASE Pause(s)
    <3>1. Pauses(s)
      BY <1>1, <2>3, PausePauses
    <3>2. sw'[s].pc = "migrate"
      BY <3>1 DEF Pauses, Migrates
    <3> QED
      BY <1>2, <3>2
  <2>4. CASE PauseTimesOut(s) \/ Abort(s)
    <3>1. Ends(s)
      BY <1>1, <2>4, PauseTimesOutEnds, AbortEnds
    <3> QED
      BY <1>2, <3>1, NoSwitchFits DEF Ends
  <2>5. CASE Swap(s)
    BY <1>1, <1>2, <2>5, SwapProgress
  <2>6. CASE After(s)
    <3>1. sw[s].pc = "after" /\ Progress(s)
      BY <1>1, <2>6, MigrationProgress DEF After, At
    <3> QED
      BY <1>1, <3>1, Constants DEF Progress, Carried, GateInv, GateFits
  <2>7. CASE Release(s) \/ Commit(s) \/ RecordNew(s)
    <3>1. Ends(s) \/ Records(s)
      BY <1>1, <2>7, ReleaseRecords, CommitCases, RecordNewRecords
    <3> QED
      BY <1>2, <3>1, NoSwitchFits DEF Ends, Records
  <2>8. CASE Finish(s)
    <3>1. Finishes(s)
      BY <1>1, <2>8, FinishFinishes
    <3> QED
      BY <1>2, <3>1, NoSwitchFits DEF Finishes
  <2> QED
    BY <1>4, <2>1, <2>2, <2>3, <2>4, <2>5, <2>6, <2>7, <2>8 DEF SwitchStep
<1>5. CASE ~SwitchStep(s) /\ ~Crash /\ gate = s
  <2>1. Untouched /\ sw'[s] = sw[s]
    BY <1>1, <1>5, HolderAlone
  <2>2. Store' = Store /\ Index' = Index /\ Converted(sw[s])
    BY <1>1, <2>1, UntouchedContents DEF ReembedInv
  <2>3. Reembedded(s)' = Reembedded(s)
    BY <2>1 DEF Reembedded
  <2>4. Held(Store)' = Held(Store)
    BY <2>2 DEF Held
  <2> QED
    BY <2>1, <2>2, <2>3, <2>4 DEF Converted
<1>6. CASE ~SwitchStep(s) /\ ~Crash /\ gate # s
  <2>1. sw'[s].pc \notin {"save", "restore", "swap", "abort"} \/ sw'[s].how = "none"
    <3>1. GateInv'
      BY GateInductive
    <3>2. ASSUME gate' = s
          PROVE  FALSE
      <4>1. ASSUME NEW t \in Slots \ {s}, SlotStep(t)
            PROVE  FALSE
        BY <1>1, <1>6, <3>2, <4>1, Constants
           DEF SlotStep, Progress, Ends, Plans, Pauses, Records, Finishes, Resume
      <4>2. ~\E t \in Slots : SwitchStep(t) /\ SlotStep(t)
        BY <1>6, <4>1
      <4> QED
        BY <1>6, <3>2, <4>2, StepCases DEF Begins, Elsewhere, Restart, RestartWith, cacheVars
    <3> QED
      BY <1>1, <3>1, <3>2 DEF GateInv, GateFits, Gated, GatedSteps
  <2> QED
    BY <1>2, <2>1
<1> QED
  BY <1>3, <1>4, <1>5, <1>6

LEMMA ReembedInitially ==
  ASSUME Init
  PROVE  ReembedInv
  BY NoSwitchFits, Constants DEF Init, ReembedInv, Converted

(* A re-embedding, whatever fails on its way and whatever other slots do   *)
(* meanwhile, hands a store and an index wholly in the new space to the    *)
(* swap, or else the store it found (activate.go:594-671): unless vectors  *)
(* could not be put back or another switch was undone after its swap.      *)
THEOREM ReembedsAllOrNothing ==
  ASSUME RegistryReliable
  PROVE  Spec => []ReembedAllOrNothing
<1> DEFINE Inv == SwitchInv /\ GateInv /\ ReembedInv
<1>1. Init => Inv
  BY SwitchInitially, GateInitially, ReembedInitially
<1>2. Inv /\ [Next]_vars => Inv'
  BY SwitchInductive, GateInductive, ReembedInductive
<1>3. Inv => ReembedAllOrNothing
  BY DEF ReembedInv, Converted, Reembedded, ReembedAllOrNothing
<1> QED
  BY <1>1, <1>2, <1>3, PTL DEF Spec

-------------------------------------------------------------------------------
(* Entries stay reachable                                                  *)

(* A flush or the adoption of a store that fails without a trace: no reply *)
(* of the index lost after it was emptied, and the store's own flush done. *)
FlushReliable ==
  Faults \cap {<<"flushIndex", "replyLost">>, <<"flushStore", "refused">>,
               <<"after", "replyLost">>} = {}

(* Every entry of a store f is in an index g as f has it, and in S.        *)
Reach(f, g, S) == \A i \in Held(f) : g[i] = f[i] /\ i \in S

(* What is reachable at each step of the switch that holds the gate.       *)
Phase(s, r) ==
  /\ r.pc \in {"migrate", "release", "abort"} => Reach(Store, Index, Tracked)
  /\ r.pc = "save" => Reach(r.listed, Index, Tracked)
  /\ r.pc = "restore" => Held(r.listed) \subseteq Tracked
  /\ r.pc = "swap" =>
       /\ s \in {"embedder", "persistence"} => Reach(Store, Index, Tracked)
       /\ s = "vectorStore" => Reach(Store, indexed[r.target], Tracked)
       /\ s = "policy" => Reach(Store, Index, tracked[r.target])
       /\ s = "persistence" /\ r.how = "migrate" => kept[r.target] = Store
  /\ r.pc = "after" => Reach(kept[r.replaced], Index, Tracked)

ServableInv ==
  up /\ ~unrestored =>
    /\ gate = NoSlot => Reach(Store, Index, Tracked)
    /\ \A s \in Slots : gate = s => Phase(s, sw[s])

LEMMA ReachNothing ==
  \A g, S : Reach(Nothing, g, S)
  BY DEF Reach, Held, Nothing

LEMMA ReachItself ==
  \A f : Reach(f, f, Held(f))
  BY DEF Reach

LEMMA FlushServes ==
  ASSUME SwitchInv, GateInv, FlushReliable, NEW s \in Slots, Phase(s, sw[s]), MigrateByFlush(s)
  PROVE  Phase(s, sw[s])'
<1>1. /\ sw[s].pc = "migrate" /\ sw[s].how = "flush" /\ UNCHANGED serving
      /\ s \in {"embedder", "vectorStore"}
  BY Constants DEF MigrateByFlush, At, GateInv, GateFits, HowsOf
<1>2. CASE /\ IndexAs(Nothing) /\ TrackAs({}) /\ KeepAs(Nothing)
           /\ Go(s, "swap")
  <2>1. Store' = Nothing
    BY <1>1, <1>2, CallLeaves
  <2>2. sw'[s].pc = "swap"
    BY <1>2, GoCarries, TypesOf DEF Steps
  <2>3. \A g, S : Reach(Store', g, S)
    BY <2>1, ReachNothing
  <2> QED
    BY <1>1, <2>2, <2>3 DEF Phase, Reach, Held
<1>3. CASE UNCHANGED contentVars /\ Go(s, "abort")
  <2>1. sw'[s].pc = "abort"
    BY <1>3, GoCarries, TypesOf DEF Steps
  <2>2. Store' = Store /\ Index' = Index /\ Tracked' = Tracked
    BY <1>1, <1>3, SameUse DEF contentVars
  <2> QED
    BY <1>1, <2>1, <2>2 DEF Phase, Reach, Held
<1> QED
  BY <1>2, <1>3 DEF MigrateByFlush, FlushReliable, Refused, ReplyLost, contentVars

LEMMA ReembedServes ==
  ASSUME SwitchInv, GateInv, ReembedInv, ~unrestored, ~unrestored',
         Phase("embedder", sw["embedder"]),
         EmbedEntries("embedder") \/ SaveEntry("embedder") \/ RebuildIndex("embedder")
           \/ Restore("embedder")
  PROVE  Phase("embedder", sw["embedder"])'
<1> DEFINE s == "embedder"
           e == sw[s]
<1>1. s \in Slots /\ e \in Switch /\ up /\ e.pc \in {"migrate", "save", "restore"}
  BY InPlace, TypesOf DEF EmbedEntries, SaveEntry, RebuildIndex, Restore, At
<1>2. e.how = "reembed" /\ Converted(e)
  <2>1. e.how = "reembed"
    BY <1>1, Following DEF EmbedEntries, SaveEntry, RebuildIndex, Restore, At, Placed
  <2> QED
    BY <2>1 DEF ReembedInv
<1>3. CASE EmbedEntries(s)
  <2> DEFINE q == [sw[s] EXCEPT !.pc = "save", !.listed = Store, !.todo = Held(Store)]
             a == [sw[s] EXCEPT !.pc = "abort", !.listed = Store]
  <2>1. /\ q.pc = "save" /\ q.listed = Store /\ a.pc = "abort"
        /\ e.pc = "migrate" /\ UNCHANGED cacheVars
    BY <1>1, <1>3 DEF Switch, EmbedEntries, At
  <2>2. sw' = [sw EXCEPT ![s] = q] \/ sw' = [sw EXCEPT ![s] = a]
    BY <1>3 DEF EmbedEntries
  <2> HIDE DEF q, a
  <2>3. sw'[s] = q \/ sw'[s] = a
    BY <1>1, <2>2, TypesOf
  <2>4. Store' = Store /\ Index' = Index /\ Tracked' = Tracked
    BY <2>1, SameUse DEF cacheVars, contentVars
  <2> QED
    BY <2>1, <2>3, <2>4 DEF Phase, Reach, Held
<1>4. CASE SaveEntry(s)
  <2>1. /\ e.pc = "save" /\ UNCHANGED <<serving, indexed, tracked>>
        /\ Reach(e.listed, Index, Tracked)
    BY <1>4 DEF SaveEntry, At, Phase
  <2>2. Index' = Index /\ Tracked' = Tracked
    BY <2>1, SameUse
  <2>3. PICK i \in e.todo : sw' = [sw EXCEPT ![s].todo = Unsaved(s, i)] \/ Go(s, "restore")
    BY <1>4 DEF SaveEntry
  <2>4. CASE Go(s, "restore")
    <3>1. sw'[s].pc = "restore" /\ sw'[s].listed = e.listed
      BY <1>1, <2>4, GoCarries, TypesOf DEF Steps
    <3> QED
      BY <2>1, <2>2, <3>1 DEF Phase, Reach, Held
  <2>5. CASE sw' = [sw EXCEPT ![s].todo = Unsaved(s, i)]
    <3> DEFINE r == [e EXCEPT !.todo = Unsaved(s, i)]
    <3>1. r.pc = "save" /\ r.listed = e.listed /\ sw' = [sw EXCEPT ![s] = r]
      BY <1>1, <2>1, <2>5 DEF Switch
    <3> HIDE DEF r
    <3>2. sw'[s] = r
      BY <1>1, <3>1, TypesOf
    <3> QED
      BY <2>1, <2>2, <3>1, <3>2 DEF Phase, Reach, Held
  <2> QED
    BY <2>3, <2>4, <2>5
<1>5. CASE RebuildIndex(s)
  <2>1. /\ e.pc = "save" /\ UNCHANGED <<serving, kept, tracked>>
        /\ Reach(e.listed, Index, Tracked) /\ Held(Store) = Held(e.listed)
    BY <1>2, <1>5 DEF RebuildIndex, At, Phase, Converted
  <2>2. Store' = Store /\ Tracked' = Tracked
    BY <2>1, SameUse
  <2>3. /\ sw'[s].pc \in {"swap", "restore"} /\ sw'[s].listed = e.listed
    BY <1>1, <1>5, GoCarries, TypesOf DEF RebuildIndex, Steps
  <2>4. sw'[s].pc = "swap" => Index' = Store'
    BY <1>2, <1>5, RebuildConverts
  <2> QED
    BY <2>1, <2>2, <2>3, <2>4 DEF Phase, Reach, Held
<1>6. CASE Restore(s)
  <2>1. /\ sw'[s].pc = "abort" /\ Store' = e.listed /\ Index' = Store' /\ Tracked' = Tracked
    BY <1>2, <1>6, RestoreConverts
  <2>2. Held(e.listed) \subseteq Tracked
    BY <1>6 DEF Restore, At, Phase
  <2> QED
    BY <2>1, <2>2 DEF Phase, Reach, Held
<1> QED
  BY <1>3, <1>4, <1>5, <1>6

LEMMA CandidateServes ==
  ASSUME SwitchInv, GateInv, ~unrestored', NEW s \in Slots, Phase(s, sw[s]),
         RebuildCandidate(s) \/ Replay(s) \/ CopyEntries(s)
  PROVE  Phase(s, sw[s])'
<1>1. /\ up /\ sw[s].pc = "migrate" /\ UNCHANGED serving /\ sw[s].target \in ImplsOf(s)
      /\ Reach(Store, Index, Tracked)
  BY Following DEF RebuildCandidate, Replay, CopyEntries, At, Phase, Placed
<1>2. CASE RebuildCandidate(s)
  <2>1. s = "vectorStore" /\ UNCHANGED <<kept, tracked>>
    BY <1>2, Constants DEF RebuildCandidate, GateInv, GateFits, HowsOf
  <2>2. Store' = Store /\ Tracked' = Tracked
    BY <1>1, <2>1, SameUse
  <2>3. CASE indexed' = [indexed EXCEPT ![sw[s].target] = Store] /\ Go(s, "swap")
    <3>1. sw'[s].pc = "swap" /\ sw'[s].target = sw[s].target
      BY <2>3, GoCarries, TypesOf DEF Steps, Carried
    <3>2. indexed'[sw'[s].target] = Store
      BY <1>1, <2>1, <2>3, <3>1, TypesOf
    <3> QED
      BY <1>1, <2>1, <2>2, <3>1, <3>2 DEF Phase, Reach, Held
  <2>4. CASE /\ indexed' = [indexed EXCEPT ![sw[s].target] = Nothing]
             /\ CleanUp(s) /\ Go(s, "abort")
    <3>1. sw'[s].pc = "abort"
      BY <2>4, GoCarries, TypesOf DEF Steps
    <3>2. Index' = Index
      BY <1>1, <2>1, <2>4, TypesOf, InPlace DEF CleanUp, Index
    <3> QED
      BY <1>1, <2>2, <3>1, <3>2 DEF Phase, Reach, Held
  <2> QED
    BY <1>2, <2>3, <2>4 DEF RebuildCandidate
<1>3. CASE Replay(s)
  <2>1. s = "policy" /\ UNCHANGED <<kept, indexed>>
    BY <1>3, Constants DEF Replay, GateInv, GateFits, HowsOf
  <2>2. Store' = Store /\ Index' = Index
    BY <1>1, <2>1, SameUse
  <2>3. CASE tracked' = [tracked EXCEPT ![sw[s].target] = Held(Store)] /\ Go(s, "swap")
    <3>1. sw'[s].pc = "swap" /\ sw'[s].target = sw[s].target
      BY <2>3, GoCarries, TypesOf DEF Steps, Carried
    <3>2. tracked'[sw'[s].target] = Held(Store)
      BY <1>1, <2>1, <2>3, <3>1, TypesOf
    <3> QED
      BY <1>1, <2>1, <2>2, <3>1, <3>2 DEF Phase, Reach, Held
  <2>4. CASE /\ tracked' = [tracked EXCEPT ![sw[s].target] = {}]
             /\ CleanUp(s) /\ Go(s, "abort")
    <3>1. sw'[s].pc = "abort"
      BY <2>4, GoCarries, TypesOf DEF Steps
    <3>2. Tracked' = Tracked
      BY <1>1, <2>1, <2>4, TypesOf, InPlace DEF CleanUp, Tracked
    <3> QED
      BY <1>1, <2>2, <3>1, <3>2 DEF Phase, Reach, Held
  <2> QED
    BY <1>3, <2>3, <2>4 DEF Replay
<1>4. CASE CopyEntries(s)
  <2>1. s = "persistence" /\ UNCHANGED <<indexed, tracked>>
    BY <1>4, Constants DEF CopyEntries, GateInv, GateFits, HowsOf
  <2>2. Index' = Index /\ Tracked' = Tracked
    BY <1>1, <2>1, SameUse
  <2>3. CASE kept' = [kept EXCEPT ![sw[s].target] = Store] /\ Go(s, "swap")
    <3>1. sw'[s].pc = "swap" /\ sw'[s].target = sw[s].target
      BY <2>3, GoCarries, TypesOf DEF Steps, Carried
    <3>2. kept'[sw'[s].target] = Store /\ Store' = Store
      BY <1>1, <2>1, <2>3, <3>1, TypesOf, InPlace DEF Store
    <3> QED
      BY <1>1, <2>1, <2>2, <3>1, <3>2 DEF Phase, Reach, Held
  <2>4. CASE /\ Go(s, "abort")
             /\ \/ UNCHANGED kept
                \/ \E i \in Held(Store) : kept' = [kept EXCEPT ![sw[s].target][i] = Store[i]]
    <3>1. sw'[s].pc = "abort"
      BY <2>4, GoCarries, TypesOf DEF Steps
    <3>2. Store' = Store
      <4>1. CASE UNCHANGED kept
        BY <1>1, <4>1, SameUse
      <4>2. CASE \E i \in Held(Store) : kept' = [kept EXCEPT ![sw[s].target][i] = Store[i]]
        <5>1. PICK i \in Held(Store) : kept' = [kept EXCEPT ![sw[s].target][i] = Store[i]]
          BY <4>2
        <5>2. CASE sw[s].target = serving["persistence"]
          <6>1. Store' = [Store EXCEPT ![i] = Store[i]]
            BY <1>1, <5>1, <5>2, TypesOf, InPlace DEF Store
          <6>2. Store \in Contents
            BY InUse
          <6> QED
            BY <6>1, <6>2 DEF Contents
        <5>3. CASE sw[s].target # serving["persistence"]
          BY <1>1, <5>1, <5>3, TypesOf, InPlace DEF Store
        <5> QED
          BY <5>2, <5>3
      <4> QED
        BY <2>4, <4>1, <4>2
    <3> QED
      BY <1>1, <2>2, <3>1, <3>2 DEF Phase, Reach, Held
  <2> QED
    BY <1>4, <2>3, <2>4 DEF CopyEntries
<1> QED
  BY <1>2, <1>3, <1>4

LEMMA SwapServes ==
  ASSUME SwitchInv, GateInv, CandidateInv, NEW s \in Slots, gate = s, Phase(s, sw[s]), Swap(s)
  PROVE  Phase(s, sw[s])'
<1> DEFINE r == sw[s]
<1>1. /\ up /\ r.pc = "swap" /\ r.how # "none" /\ r.how \in HowsOf(s)
      /\ UNCHANGED contentVars /\ r.target \in ImplsOf(s)
      /\ serving' = [serving EXCEPT ![s] = r.target]
  BY Following DEF Swap, At, Serve, GateInv, GateFits, Gated, GatedSteps, Placed
<1>2. /\ Progress(s) /\ sw'[s].replaced = serving[s]
      /\ sw'[s].pc \in {"commit", "after", "release"}
  BY SwapProgress
<1>3. /\ sw'[s].pc \in {"after", "release"}
      /\ sw'[s].pc = "after" => r.how \in {"adopt", "empty"}
      /\ r.how \in {"adopt", "empty"} => sw'[s].pc = "after"
  <2> DEFINE step == CASE r.how = "none" -> "commit"
                       [] r.how \in {"adopt", "empty"} -> "after"
                       [] OTHER -> "release"
             q == [r EXCEPT !.replaced = serving[s], !.pc = step]
  <2>1. sw' = [sw EXCEPT ![s] = q] /\ r \in Switch
    BY TypesOf DEF Swap
  <2>2. q.pc = step
    <3> HIDE DEF step
    <3> QED
      BY <2>1 DEF Switch
  <2> HIDE DEF q
  <2>3. sw'[s].pc = step
    BY <2>1, <2>2, TypesOf
  <2> QED
    BY <1>1, <2>3
<1>4. /\ serving'[s] = r.target
      /\ \A t \in Slots \ {s} : serving'[t] = serving[t]
  BY <1>1, TypesOf
<1>5. CASE s = "embedder"
  <2>1. Store' = Store /\ Index' = Index /\ Tracked' = Tracked /\ sw'[s].pc = "release"
    BY <1>1, <1>3, <1>4, <1>5, SameUse, InPlace DEF contentVars, HowsOf
  <2> QED
    BY <1>1, <1>5, <2>1 DEF Phase, Reach, Held
<1>6. CASE s = "vectorStore"
  <2>1. Store' = Store /\ Tracked' = Tracked /\ sw'[s].pc = "release"
    BY <1>1, <1>3, <1>4, <1>6, SameUse, InPlace DEF contentVars, HowsOf
  <2>2. Index' = indexed[r.target]
    BY <1>1, <1>4, <1>6 DEF Index, contentVars
  <2> QED
    BY <1>1, <1>6, <2>1, <2>2 DEF Phase, Reach, Held
<1>7. CASE s = "policy"
  <2>1. Store' = Store /\ Index' = Index /\ sw'[s].pc = "release"
    BY <1>1, <1>3, <1>4, <1>7, SameUse, InPlace DEF contentVars, HowsOf
  <2>2. Tracked' = tracked[r.target]
    BY <1>1, <1>4, <1>7 DEF Tracked, contentVars
  <2> QED
    BY <1>1, <1>7, <2>1, <2>2 DEF Phase, Reach, Held
<1>8. CASE s = "persistence"
  <2>1. Index' = Index /\ Tracked' = Tracked /\ Reach(Store, Index, Tracked)
    BY <1>1, <1>4, <1>8, SameUse, InPlace DEF contentVars, Phase
  <2>2. CASE r.how \in {"adopt", "empty"}
    <3>1. sw'[s].pc = "after" /\ kept'[sw'[s].replaced] = Store
      BY <1>1, <1>2, <1>3, <1>8, <2>2 DEF contentVars, Store
    <3> QED
      BY <2>1, <3>1 DEF Phase, Reach, Held
  <2>3. CASE r.how \notin {"adopt", "empty"}
    <3>1. sw'[s].pc = "release" /\ Store' = kept[r.target]
      BY <1>1, <1>3, <1>4, <1>8, <2>3 DEF contentVars, Store
    <3>2. \/ Held(kept[r.target]) = {}
          \/ kept[r.target] = Store
      <4>1. r.how \in {"plain", "migrate"}
        BY <1>1, <1>8, <2>3 DEF HowsOf
      <4> QED
        BY <1>1, <1>8, <4>1 DEF CandidateInv, Phase, Store
    <3> QED
      BY <2>1, <3>1, <3>2 DEF Phase, Reach, Held
  <2> QED
    BY <2>2, <2>3
<1> QED
  BY <1>5, <1>6, <1>7, <1>8, Constants

LEMMA AfterServes ==
  ASSUME SwitchInv, GateInv, CandidateInv, FlushReliable, NEW s \in Slots, Phase(s, sw[s]),
         After(s)
  PROVE  Phase(s, sw[s])'
<1> DEFINE r == sw[s]
<1>1. /\ up /\ r.pc = "after" /\ r.how \in {"adopt", "empty"} /\ UNCHANGED kept
      /\ Reach(kept[r.replaced], Index, Tracked)
  BY DEF After, At, GateInv, GateFits, Phase
<1>2. s = "persistence"
  BY <1>1, Constants DEF GateInv, GateFits, HowsOf
<1>3. serving[s] = r.target /\ r.replaced \in ImplsOf(s)
  BY <1>1, Following DEF Follows, Placed, BeforeCommit
<1>4. CASE /\ IndexAs(Adopted(s)) /\ TrackAs(Held(Adopted(s)))
           /\ Go(s, "release") /\ UNCHANGED serving
  <2>1. Store' = Store /\ Index' = Adopted(s) /\ Tracked' = Held(Adopted(s))
    BY <1>1, <1>4, SameUse, CallLeaves
  <2>2. Adopted(s) = Store \/ Held(Store) = {}
    BY <1>1, <1>2, <1>3 DEF Adopted, CandidateInv, Store
  <2>3. sw'[s].pc = "release"
    BY <1>4, GoCarries, TypesOf DEF Steps
  <2> QED
    BY <2>1, <2>2, <2>3 DEF Phase, Reach, Held
<1>5. CASE UNCHANGED <<indexed, tracked>> /\ Serve(s, r.replaced) /\ Go(s, "abort")
  <2>1. serving'[s] = r.replaced /\ \A t \in Slots \ {s} : serving'[t] = serving[t]
    BY <1>5, TypesOf DEF Serve
  <2>2. Index' = Index /\ Tracked' = Tracked /\ Store' = kept[r.replaced]
    BY <1>1, <1>2, <1>5, <2>1, SameUse, InPlace DEF Store
  <2>3. sw'[s].pc = "abort"
    BY <1>5, GoCarries, TypesOf DEF Steps
  <2> QED
    BY <1>1, <2>2, <2>3 DEF Phase, Reach, Held
<1> QED
  BY <1>4, <1>5 DEF After, FlushReliable, ReplyLost

(* A job makes an entry known to store, index and policy at once.          *)
LEMMA WorkServes ==
  ASSUME SwitchInv, Reach(Store, Index, Tracked), NEW v \in Spaces, Work(v)
  PROVE  Reach(Store, Index, Tracked)'
<1>1. PICK i \in Ids : /\ IndexAs([Index EXCEPT ![i] = v])
                       /\ KeepAs([Store EXCEPT ![i] = v])
                       /\ TrackAs(Tracked \cup {i})
  BY DEF Work, ApplyJob
<1>2. UNCHANGED serving /\ up
  BY DEF Work, ApplyJob
<1>3. /\ Store' = [Store EXCEPT ![i] = v] /\ Index' = [Index EXCEPT ![i] = v]
      /\ Tracked' = Tracked \cup {i}
  BY <1>1, <1>2, CallLeaves
<1>4. Store \in Contents /\ Index \in Contents
  BY InUse
<1> QED
  BY <1>3, <1>4 DEF Reach, Held, Contents

LEMMA RestartServes ==
  ASSUME SwitchInv, Restart
  PROVE  Reach(Store, Index, Tracked)'
<1>1. PICK chosen \in [Slots -> Impls] :
        RestartWith(chosen) /\ \A t \in Slots : chosen[t] \in ImplsOf(t)
  <2>1. CASE RestartWith(selection)
    BY <2>1, TypesOf DEF SwitchInv, ImplsInPlace
  <2>2. CASE RestartWith([selection EXCEPT !["policy"] = NoPlugin])
    <3>1. /\ [selection EXCEPT !["policy"] = NoPlugin] \in [Slots -> Impls]
          /\ \A t \in Slots : [selection EXCEPT !["policy"] = NoPlugin][t] \in ImplsOf(t)
      BY TypesOf, Constants DEF SwitchInv, ImplsInPlace
    <3> QED
      BY <2>2, <3>1
  <2> QED
    BY <2>1, <2>2 DEF Restart
<1> DEFINE entries == kept[chosen["persistence"]]
<1>2. /\ chosen["vectorStore"] \in ImplsOf("vectorStore")
      /\ chosen["policy"] \in ImplsOf("policy")
  BY <1>1, InPlace
<1>3. /\ serving' = chosen /\ UNCHANGED kept
      /\ indexed' = [indexed EXCEPT ![chosen["vectorStore"]] = entries]
      /\ tracked' = [tracked EXCEPT ![chosen["policy"]] = @ \cup Held(entries)]
  BY <1>1 DEF RestartWith
<1> HIDE DEF entries
<1>4. /\ Store' = entries /\ Index' = entries
      /\ Tracked' = tracked[chosen["policy"]] \cup Held(entries)
  BY <1>2, <1>3, TypesOf DEF Store, Index, Tracked, entries
<1> QED
  BY <1>4 DEF Reach, Held

LEMMA PhaseStays ==
  ASSUME Untouched, NEW t \in Slots, sw'[t] = sw[t]
  PROVE  /\ Phase(t, sw[t]) => Phase(t, sw[t])'
         /\ Reach(Store, Index, Tracked) => Reach(Store, Index, Tracked)'
<1>1. Store' = Store /\ Index' = Index /\ Tracked' = Tracked /\ UNCHANGED contentVars
  BY UntouchedContents DEF Untouched
<1> QED
  BY <1>1 DEF Phase, Reach, Held, contentVars

(* Steps of the switch that holds the gate.                                *)
LEMMA HolderServes ==
  ASSUME SwitchInv, GateInv, CandidateInv, ReembedInv, ServableInv, FlushReliable,
         NEW s \in Slots, SwitchStep(s), gate = s, ~unrestored, ~unrestored'
  PROVE  \/ gate' = s /\ Phase(s, sw[s])'
         \/ gate' = NoSlot /\ Reach(Store, Index, Tracked)'
<1>1. up /\ Phase(s, sw[s]) /\ (sw[s].pc \in GatedSteps \/ (sw[s].pc = "swap" /\ sw[s].how # "none"))
  BY RunsUp DEF ServableInv, GateInv, GateFits, Gated
<1>2. CASE MigrateStep(s)
  <2>1. gate' = s
    BY <1>2, MigrationProgress DEF Progress
  <2>2. s = "embedder" \/ ~(EmbedEntries(s) \/ SaveEntry(s) \/ RebuildIndex(s) \/ Restore(s))
    BY <1>1, Following DEF EmbedEntries, SaveEntry, RebuildIndex, Restore, At, Placed
  <2>3. Phase(s, sw[s])'
    BY <1>1, <1>2, <2>2, FlushServes, ReembedServes, CandidateServes DEF MigrateStep
  <2> QED
    BY <2>1, <2>3
<1>3. CASE Swap(s)
  BY <1>1, <1>3, SwapServes, SwapProgress DEF Progress
<1>4. CASE After(s)
  BY <1>1, <1>4, AfterServes, MigrationProgress DEF Progress
<1>5. CASE Release(s) \/ Abort(s)
  <2>1. /\ gate' = NoSlot /\ UNCHANGED <<serving, contentVars>>
        /\ sw[s].pc \in {"release", "abort"}
    BY <1>5 DEF Release, Abort, Resume, At
  <2>2. Store' = Store /\ Index' = Index /\ Tracked' = Tracked
    BY <2>1 DEF contentVars, Store, Index, Tracked
  <2> QED
    BY <1>1, <2>1, <2>2 DEF Phase, Reach, Held
<1>6. CASE Plan(s) \/ Pause(s) \/ PauseTimesOut(s) \/ Commit(s) \/ RecordNew(s) \/ Finish(s)
  BY <1>1, <1>6 DEF Plan, Pause, PauseTimesOut, Commit, RecordNew, Finish, At, GatedSteps
<1> QED
  BY <1>2, <1>3, <1>4, <1>5, <1>6 DEF SwitchStep

LEMMA PauseServes ==
  ASSUME SwitchInv, GateInv, ServableInv, NEW s \in Slots, Pause(s), ~unrestored
  PROVE  gate' = s /\ Phase(s, sw[s])'
<1>1. Pauses(s) /\ UNCHANGED <<serving, contentVars>>
  BY PausePauses DEF Pause
<1>2. /\ gate = NoSlot /\ up /\ gate' = s
      /\ sw'[s].pc = IF Migrates(s) THEN "migrate" ELSE "swap"
      /\ sw'[s].how = sw[s].how /\ sw'[s].target = sw[s].target
      /\ sw[s].pc = "pause"
  BY <1>1 DEF Pauses
<1>3. Store' = Store /\ Index' = Index /\ Tracked' = Tracked /\ Reach(Store, Index, Tracked)
  BY <1>1, <1>2 DEF contentVars, Store, Index, Tracked, ServableInv
<1>4. sw'[s].pc = "swap" => s = "persistence" /\ sw[s].how # "migrate"
  BY <1>2, Constants DEF Migrates, GateInv, GateFits, HowsOf
<1> QED
  BY <1>2, <1>3, <1>4 DEF Phase, Reach, Held

LEMMA ServableInductive ==
  ASSUME SwitchInv, GateInv, CandidateInv, ReembedInv, ServableInv,
         RegistryReliable, FlushReliable, [Next]_vars
  PROVE  ServableInv'
<1> SUFFICES ASSUME up', ~unrestored'
             PROVE  /\ gate' = NoSlot => Reach(Store, Index, Tracked)'
                    /\ \A t \in Slots : gate' = t => Phase(t, sw[t])'
  BY DEF ServableInv
<1>1. ~unrestored
  BY UnrestoredStays
<1>2. ASSUME Untouched, up, gate' = gate, \A t \in Slots : gate = t => sw'[t] = sw[t]
      PROVE  /\ gate' = NoSlot => Reach(Store, Index, Tracked)'
             /\ \A t \in Slots : gate' = t => Phase(t, sw[t])'
  <2>1. gate = NoSlot => Reach(Store, Index, Tracked)'
    <3>1. Store' = Store /\ Index' = Index /\ Tracked' = Tracked
      BY <1>2, UntouchedContents
    <3> QED
      BY <1>1, <1>2, <3>1 DEF ServableInv, Reach, Held
  <2> QED
    BY <1>1, <1>2, <2>1, PhaseStays DEF ServableInv
<1>3. ASSUME NEW s \in Slots, SwitchStep(s)
      PROVE  /\ gate' = NoSlot => Reach(Store, Index, Tracked)'
             /\ \A t \in Slots : gate' = t => Phase(t, sw[t])'
  <2>1. CASE gate = s
    BY <1>1, <1>3, <2>1, HolderServes, Constants
  <2>2. CASE gate # s /\ Pause(s)
    BY <1>1, <2>2, PauseServes, Constants
  <2>3. CASE gate # s /\ ~Pause(s)
    <3>1. Untouched /\ up
      BY <1>3, <2>3, UngatedStep, RunsUp
    <3>2. SlotStep(s)
      BY <1>3, StepOfSlot
    <3>3. /\ gate' = gate
          /\ \A t \in Slots \ {s} : sw'[t] = sw[t]
      <4>1. sw[s].pc \notin GatedSteps
        BY <2>3 DEF GateInv, GateFits, Gated
      <4>2. ~Pauses(s)
        <5>1. Pauses(s) => sw[s].pc = "pause" /\ sw'[s].pc \in {"migrate", "swap"}
          BY DEF Pauses
        <5>2. sw[s].pc = "pause" => PauseTimesOut(s)
          BY <1>3, <2>3 DEF SwitchStep, Plan, Swap, After, Release, Abort, Commit, RecordNew,
             Finish, At, MigrateStep, MigrateByFlush, EmbedEntries, SaveEntry, RebuildIndex,
             Restore, RebuildCandidate, Replay, CopyEntries
        <5>3. PauseTimesOut(s) => sw'[s].pc = "idle"
          BY PauseTimesOutEnds, NoSwitchFits DEF Ends
        <5> QED
          BY <5>1, <5>2, <5>3
      <4> QED
        BY <3>2, <4>1, <4>2
           DEF SlotStep, Progress, Ends, Plans, Records, Finishes, GatedSteps
    <3> QED
      BY <1>2, <2>3, <3>1, <3>3
  <2> QED
    BY <2>1, <2>2, <2>3
<1>4. ASSUME NEW p \in Plugins, Activate(p) \/ Deactivate(p) \/ Rollback(p)
      PROVE  /\ gate' = NoSlot => Reach(Store, Index, Tracked)'
             /\ \A t \in Slots : gate' = t => Phase(t, sw[t])'
  <2>1. PICK mode, target : \E c \in Confirmation : Begins(SlotOf[p], p, mode, target, c)
    BY <1>4, RequestBegins
  <2>2. /\ UNCHANGED <<cacheVars, up>> /\ up
        /\ sw[SlotOf[p]].pc = "idle"
        /\ \A t \in Slots \ {SlotOf[p]} : sw'[t] = sw[t]
    BY <2>1 DEF Begins
  <2>3. \A t \in Slots : gate = t => sw'[t] = sw[t]
    BY <2>2 DEF GateInv, GateFits, Gated, GatedSteps
  <2> QED
    BY <1>2, <2>2, <2>3 DEF cacheVars, Untouched
<1>5. ASSUME NEW v \in Spaces, Work(v)
      PROVE  /\ gate' = NoSlot => Reach(Store, Index, Tracked)'
             /\ \A t \in Slots : gate' = t => Phase(t, sw[t])'
  <2>1. gate = NoSlot /\ gate' = gate /\ up
    BY <1>5 DEF Work, ApplyJob
  <2> QED
    BY <1>1, <1>5, <2>1, WorkServes, Constants DEF ServableInv
<1>6. CASE \E c \in Clients : Ask(c) \/ Answer(c)
  BY <1>2, <1>6 DEF Ask, Answer, Embed, Hit, Miss, switchVars, Untouched
<1>7. CASE Poll \/ UNCHANGED vars
  BY <1>2, <1>7 DEF Poll, vars, cacheVars, switchVars, Untouched
<1>8. ~Crash
  BY DEF Crash
<1>9. CASE Restart
  <2>1. ~up /\ gate' = gate
    BY <1>9 DEF Restart, RestartWith
  <2>2. gate' = NoSlot
    BY <2>1, TypesOf DEF SwitchInv, SlotInv, Idle, GateInv, GateFits, Gated, GatedSteps
  <2> QED
    BY <1>9, <2>2, RestartServes, Constants
<1> QED
  BY <1>3, <1>4, <1>5, <1>6, <1>7, <1>8, <1>9 DEF Next

LEMMA ServableInitially ==
  ASSUME Init
  PROVE  ServableInv
<1>1. /\ serving = [s \in Slots |-> NoPlugin] /\ gate = NoSlot
      /\ kept = [p \in ImplsOf("persistence") |-> IF p = NoPlugin THEN Found ELSE Nothing]
      /\ indexed = [p \in ImplsOf("vectorStore") |-> IF p = NoPlugin THEN Found ELSE Nothing]
      /\ tracked = [p \in ImplsOf("policy") |-> IF p = NoPlugin THEN Present ELSE {}]
  BY DEF Init, CacheInit
<1>2. Store = Found /\ Index = Found /\ Tracked = Present
  BY <1>1, Constants DEF Store, Index, Tracked
<1>3. Held(Found) \subseteq Present
  BY DEF Held, Found
<1> QED
  BY <1>1, <1>2, <1>3, Constants DEF ServableInv, Reach

(* Whenever writes are open, every entry of the store in use is in the     *)
(* index in use with the store's vector and tracked by the policy in use,  *)
(* after any interleaving of switches, jobs, failures, crashes and         *)
(* restarts (types.go:8, activate.go:289): unless a failed switch left     *)
(* contents behind, as long as a flush does not fail half done.            *)
THEOREM StoredServable ==
  ASSUME RegistryReliable, FlushReliable
  PROVE  Spec => []StoredIsServable
<1> DEFINE Inv == SwitchInv /\ GateInv /\ CandidateInv /\ ReembedInv /\ ServableInv
<1>1. Init => Inv
  BY SwitchInitially, GateInitially, CandidateInitially, ReembedInitially, ServableInitially
<1>2. Inv /\ [Next]_vars => Inv'
  BY SwitchInductive, GateInductive, CandidateInductive, ReembedInductive, ServableInductive
<1>3. Inv => StoredIsServable
  BY DEF ServableInv, Reach, StoredIsServable, EntriesReachable
<1> QED
  BY <1>1, <1>2, <1>3, PTL DEF Spec

-------------------------------------------------------------------------------
(* Queries during a re-embedding                                           *)

(* As long as no two switches overlap, a re-embedding that holds the gate  *)
(* keeps the threshold blocked: nobody else sets it.                       *)
BlockedInv ==
  ~overlapped =>
    /\ \A s, t \in Slots : s = t \/ sw[s].pc = "idle" \/ sw[t].pc = "idle"
    /\ Blocking(sw["embedder"]) => threshold = Blocked

LEMMA BlockedInductive ==
  ASSUME SwitchInv, GateInv, BlockedInv, RegistryReliable, [Next]_vars
  PROVE  BlockedInv'
<1> USE DEF Gated, GatedSteps
<1> SUFFICES ASSUME ~overlapped'
             PROVE  /\ \A s, t \in Slots : s = t \/ sw'[s].pc = "idle" \/ sw'[t].pc = "idle"
                    /\ Blocking(sw'["embedder"]) => threshold' = Blocked
  BY DEF BlockedInv
<1>1. CASE Elsewhere
  BY <1>1 DEF Elsewhere, BlockedInv
<1>2. CASE Crash
  BY <1>2, NoSwitchFits, Constants DEF Crash, Blocking
<1>3. CASE Restart
  <2>1. ~up /\ UNCHANGED <<sw, overlapped>>
    BY <1>3 DEF Restart, RestartWith, histVars
  <2>2. \A s \in Slots : sw[s].pc = "idle"
    BY <2>1 DEF SwitchInv, SlotInv, Idle
  <2> QED
    BY <2>1, <2>2, Constants DEF Blocking
<1>4. ASSUME NEW s \in Slots, NEW p, NEW mode, NEW target, NEW c, Begins(s, p, mode, target, c)
      PROVE  /\ \A t, u \in Slots : t = u \/ sw'[t].pc = "idle" \/ sw'[u].pc = "idle"
             /\ Blocking(sw'["embedder"]) => threshold' = Blocked
  <2>1. \A t \in Slots : sw[t].pc = "idle"
    BY <1>4 DEF Begins, Idle
  <2> QED
    BY <1>4, <2>1, Constants DEF Begins, Blocking
<1>5. ASSUME NEW s \in Slots, SlotStep(s)
      PROVE  /\ \A t, u \in Slots : t = u \/ sw'[t].pc = "idle" \/ sw'[u].pc = "idle"
             /\ Blocking(sw'["embedder"]) => threshold' = Blocked
  <2>1. /\ ~overlapped /\ sw[s].pc # "idle"
        /\ \A t \in Slots \ {s} : sw'[t] = sw[t]
    BY <1>5 DEF SlotStep, Progress, Ends, Plans, Pauses, Records, Finishes
  <2>2. /\ \A t \in Slots \ {s} : sw[t].pc = "idle"
        /\ Blocking(sw["embedder"]) => threshold = Blocked
    BY <2>1 DEF BlockedInv
  <2>3. s # "embedder" => ~Blocking(sw'["embedder"])
    BY <2>1, <2>2, Constants DEF Blocking
  <2>4. ASSUME s = "embedder", Blocking(sw'[s])
        PROVE  threshold' = Blocked
    <3>1. CASE Progress(s)
      BY <2>2, <2>4, <3>1 DEF Progress, Carried, Blocking
    <3>2. CASE Ends(s)
      BY <2>4, <3>2, NoSwitchFits DEF Ends, Blocking
    <3>3. CASE Plans(s)
      BY <2>4, <3>3 DEF Plans, Blocking
    <3>4. CASE Pauses(s)
      BY <2>4, <3>4 DEF Pauses, Blocking, PausedThreshold
    <3>5. CASE Records(s)
      BY <2>4, <3>5 DEF Records, Blocking
    <3>6. CASE Finishes(s)
      BY <2>4, <3>6, NoSwitchFits DEF Finishes, Blocking
    <3> QED
      BY <1>5, <3>1, <3>2, <3>3, <3>4, <3>5, <3>6 DEF SlotStep
  <2> QED
    BY <2>1, <2>2, <2>3, <2>4
<1> QED
  BY <1>1, <1>2, <1>3, <1>4, <1>5, StepCases, Constants

(* Only an answer ends a query while the process runs.                     *)
LEMMA SwitchLeavesQueries ==
  ASSUME NEW s \in Slots, SwitchStep(s)
  PROVE  UNCHANGED asked
  BY DEF SwitchStep, Plan, Pause, PauseTimesOut, Swap, After, Release, Abort,
     Commit, RecordNew, Finish, MigrateStep, MigrateByFlush, EmbedEntries, SaveEntry,
     RebuildIndex, Restore, RebuildCandidate, Replay, CopyEntries, cacheVars, trafficVars

LEMMA HitNeedsThreshold ==
  ASSUME SwitchInv, [Next]_vars, HitStep, up
  PROVE  threshold # Blocked
<1>1. PICK c \in Clients : asked[c] # NoSpace /\ asked'[c] = NoSpace
  BY DEF HitStep
<1>2. up' /\ queued' = queued /\ asked' # asked
  BY <1>1 DEF HitStep
<1>3. ASSUME NEW d \in Clients, Ask(d)
      PROVE  FALSE
  BY <1>1, <1>3, TypesOf DEF Ask, Embed
<1>4. ASSUME NEW d \in Clients, Answer(d)
      PROVE  threshold # Blocked
  <2>1. ~Miss(d)
    <3>1. ASSUME Miss(d)
          PROVE  queued'[asked[d]] = queued[asked[d]] + 1 /\ queued[asked[d]] \in Nat
      BY <3>1, TypesOf DEF Miss
    <3> QED
      BY <1>2, <3>1
  <2> QED
    BY <1>4, <2>1 DEF Answer, Hit
<1>5. ~\E p \in Plugins : Activate(p) \/ Deactivate(p) \/ Rollback(p)
  BY <1>2 DEF Activate, Deactivate, Rollback, Begin, cacheVars, trafficVars
<1>6. ~\E s \in Slots : SwitchStep(s)
  BY <1>2, SwitchLeavesQueries
<1>7. ~(\E v \in Spaces : Work(v)) /\ ~Poll /\ ~UNCHANGED vars
  BY <1>2 DEF Work, ApplyJob, Poll, vars, cacheVars, trafficVars
<1>8. ~Crash /\ ~Restart
  BY <1>2 DEF Crash, Restart, RestartWith
<1> QED
  BY <1>3, <1>4, <1>5, <1>6, <1>7, <1>8 DEF Next

(* While a re-embedding holds the gate no query is answered from the cache,*)
(* whatever is asked meanwhile and whatever calls fail, unless another     *)
(* switch overlaps (activate.go:303, PLUGIN_OPERATIONS.md:115).            *)
THEOREM QueriesMiss ==
  ASSUME RegistryReliable
  PROVE  Spec => MissesWhileReembedding
<1> DEFINE Inv == SwitchInv /\ GateInv /\ BlockedInv
<1>1. Init => Inv
  <2>1. Init => BlockedInv
    BY NoSwitchFits, Constants DEF Init, BlockedInv, Blocking, Gated, GatedSteps
  <2> QED
    BY <2>1, SwitchInitially, GateInitially
<1>2. Inv /\ [Next]_vars => Inv'
  BY SwitchInductive, GateInductive, BlockedInductive
<1>3. Inv /\ [Next]_vars => [Converting /\ ~overlapped => ~HitStep]_vars
  <2> SUFFICES ASSUME Inv, [Next]_vars, Converting, ~overlapped, HitStep
               PROVE  FALSE
    OBVIOUS
  <2>1. Blocking(sw["embedder"]) /\ sw["embedder"].pc # "idle"
    BY Constants DEF Converting, GateInv, GateFits, Blocking, Gated, GatedSteps
  <2>2. up
    BY <2>1, Constants DEF SwitchInv, SlotInv, Idle
  <2> QED
    BY <2>1, <2>2, HitNeedsThreshold DEF BlockedInv
<1> QED
  BY <1>1, <1>2, <1>3, PTL DEF Spec, MissesWhileReembedding
-------------------------------------------------------------------------------
(* The replacement on trial                                                *)

LEMMA TrialOfOne ==
  ASSUME NEW s \in Slots, \A t \in Slots \ {s} : sw'[t] = sw[t]
  PROVE  /\ sw'[s].pc \in BeforeCommit => OnTrial' = OnTrial \cup {s}
         /\ sw'[s].pc \notin BeforeCommit => OnTrial' = OnTrial \ {s}
         /\ s \in OnTrial <=> sw[s].pc \in BeforeCommit
         /\ (sw'[s].pc \in BeforeCommit <=> sw[s].pc \in BeforeCommit) => OnTrial' = OnTrial
  BY DEF OnTrial, BeforeCommit

(* A step that leaves the pointers, the gate and the jobs alone, and the   *)
(* switch on the side of its decisions where it was, shows nothing.        *)
LEMMA UnseenStep ==
  ASSUME NEW s \in Slots, \A t \in Slots \ {s} : sw'[t] = sw[t],
         sw'[s].pc \in BeforeCommit <=> sw[s].pc \in BeforeCommit,
         UNCHANGED <<up, serving, selection, gate, queued>>
  PROVE  UNCHANGED Over!overVars
<1>1. OnTrial' = OnTrial
  BY TrialOfOne
<1> QED
  BY <1>1 DEF Over!overVars, Over!slotVars

LEMMA MigrationUnseen ==
  ASSUME SwitchInv, GateInv, NEW s \in Slots, MigrateStep(s)
  PROVE  UNCHANGED Over!overVars
<1>1. Progress(s)
  BY MigrationProgress
<1>2. /\ sw[s].pc \in {"migrate", "save", "restore"} /\ UNCHANGED <<serving, selection, queued>>
      /\ \/ \E step \in {"swap", "abort", "restore"} : Go(s, step)
         \/ sw' = [sw EXCEPT ![s].pc = "save", ![s].listed = Store, ![s].todo = Held(Store)]
         \/ sw' = [sw EXCEPT ![s].pc = "abort", ![s].listed = Store]
         \/ sw[s].pc = "save" /\ \E i \in Ids : sw' = [sw EXCEPT ![s].todo = Unsaved(s, i)]
  <2> USE DEF At, registryVars, cacheVars, trafficVars
  <2>1. CASE MigrateByFlush(s)
    BY <2>1 DEF MigrateByFlush
  <2>2. CASE EmbedEntries(s)
    BY <2>2 DEF EmbedEntries
  <2>3. CASE SaveEntry(s)
    <3>1. sw[s].todo \subseteq Ids
      BY TypesOf DEF Switch
    <3> QED
      BY <2>3, <3>1 DEF SaveEntry
  <2>4. CASE RebuildIndex(s)
    BY <2>4 DEF RebuildIndex
  <2>5. CASE Restore(s)
    BY <2>5 DEF Restore
  <2>6. CASE RebuildCandidate(s)
    BY <2>6 DEF RebuildCandidate
  <2>7. CASE Replay(s)
    BY <2>7 DEF Replay
  <2>8. CASE CopyEntries(s)
    BY <2>8 DEF CopyEntries
  <2> QED
    BY <2>1, <2>2, <2>3, <2>4, <2>5, <2>6, <2>7, <2>8 DEF MigrateStep
<1>3. sw'[s].pc \in {"swap", "abort", "restore", "save"}
  <2>1. ASSUME NEW step \in {"swap", "abort", "restore"}, Go(s, step)
        PROVE  sw'[s].pc = step
    BY <2>1, GoCarries, TypesOf DEF Steps
  <2>2. ASSUME sw[s].pc = "save", NEW i, sw' = [sw EXCEPT ![s].todo = Unsaved(s, i)]
        PROVE  sw'[s].pc = "save"
    BY <2>2, TypesOf DEF Switch
  <2>3. CASE sw' = [sw EXCEPT ![s].pc = "save", ![s].listed = Store, ![s].todo = Held(Store)]
    BY <2>3, TypesOf DEF Switch
  <2>4. CASE sw' = [sw EXCEPT ![s].pc = "abort", ![s].listed = Store]
    BY <2>4, TypesOf DEF Switch
  <2> QED
    BY <1>2, <2>1, <2>2, <2>3, <2>4
<1> QED
  BY <1>1, <1>2, <1>3, UnseenStep DEF Progress, BeforeCommit

LEMMA SwapTries ==
  ASSUME SwitchInv, GateInv, NEW s \in Slots, Swap(s)
  PROVE  Over!OverNext
<1> DEFINE p == sw[s].target
<1>1. /\ up /\ sw[s].pc = "swap" /\ UNCHANGED <<up, selection, gate, queued>>
      /\ serving' = [serving EXCEPT ![s] = p]
  BY DEF Swap, At, Serve, registryVars, trafficVars
<1>2. /\ \A t \in Slots \ {s} : sw'[t] = sw[t]
      /\ sw'[s].pc \in {"commit", "after", "release"}
  BY SwapProgress DEF Progress
<1>3. OnTrial' = OnTrial \cup {s} /\ s \notin OnTrial
  BY <1>1, <1>2, TrialOfOne DEF BeforeCommit
<1>4. gate = s \/ s \in {"embedder"}
  BY <1>1 DEF GateInv, GateFits, Gated
<1>5. p \in [t \in Slots |-> ImplsOf(t)][s]
  BY <1>1, Following DEF Placed
<1> HIDE DEF p
<1>6. Over!Try(s, p)
  BY <1>1, <1>3, <1>4 DEF Over!Try
<1> QED
  BY <1>1, <1>5, <1>6 DEF Over!OverNext, Over!Replace

(* A swap that is taken back, by its check or by an undo.                  *)
LEMMA TakenBack ==
  ASSUME SwitchInv, NEW s \in Slots, up, sw[s].pc \in BeforeCommit,
         \A t \in Slots \ {s} : sw'[t] = sw[t], sw'[s].pc \notin BeforeCommit,
         Serve(s, sw[s].replaced), UNCHANGED <<up, selection, gate, queued>>
  PROVE  Over!OverNext
<1>1. sw[s].replaced = selection[s]
  BY Following DEF Follows
<1>2. OnTrial' = OnTrial \ {s} /\ s \in OnTrial
  BY TrialOfOne
<1>3. Over!GiveUp(s)
  BY <1>1, <1>2 DEF Over!GiveUp, Serve
<1> QED
  BY <1>3 DEF Over!OverNext, Over!Replace

LEMMA AfterOver ==
  ASSUME SwitchInv, GateInv, NEW s \in Slots, After(s)
  PROVE  [Over!OverNext]_(Over!overVars)
<1>1. /\ up /\ sw[s].pc = "after" /\ UNCHANGED <<up, selection, gate, queued>>
      /\ \A t \in Slots \ {s} : sw'[t] = sw[t]
  BY MigrationProgress DEF After, At, Progress, registryVars, trafficVars
<1>2. CASE Go(s, "release") /\ UNCHANGED serving
  <2>1. sw'[s].pc = "release"
    BY <1>2, GoCarries, TypesOf DEF Steps
  <2> QED
    BY <1>1, <1>2, <2>1, UnseenStep DEF BeforeCommit
<1>3. CASE Go(s, "abort") /\ Serve(s, sw[s].replaced)
  <2>1. sw'[s].pc = "abort"
    BY <1>3, GoCarries, TypesOf DEF Steps
  <2> QED
    BY <1>1, <1>3, <2>1, TakenBack DEF BeforeCommit
<1> QED
  BY <1>2, <1>3 DEF After

LEMMA CommitOver ==
  ASSUME SwitchInv, GateInv, RegistryReliable, NEW s \in Slots, Commit(s)
  PROVE  Over!OverNext
<1>1. /\ up /\ sw[s].pc = "commit" /\ UNCHANGED <<up, gate, queued>>
  BY DEF Commit, At, trafficVars
<1>2. CASE Undo(s) /\ UNCHANGED selection
  <2>1. /\ \A t \in Slots \ {s} : sw'[t] = sw[t]
        /\ sw'[s].pc = "idle" /\ Serve(s, sw[s].replaced)
    BY <1>2, FailEnds, NoSwitchFits DEF Undo
  <2> QED
    BY <1>1, <1>2, <2>1, TakenBack DEF BeforeCommit
<1>3. CASE /\ Select(s, sw[s].target) /\ UNCHANGED serving
           /\ \E step \in {"finish", "record"} : Go(s, step)
  <2>1. /\ \A t \in Slots \ {s} : sw'[t] = sw[t]
        /\ sw'[s].pc \in {"finish", "record"}
    BY <1>3, GoCarries, TypesOf DEF Steps
  <2>2. OnTrial' = OnTrial \ {s} /\ s \in OnTrial
    BY <1>1, <2>1, TrialOfOne DEF BeforeCommit
  <2>3. sw[s].target = serving[s]
    BY <1>1, Following DEF Follows, BeforeCommit
  <2>4. gate # s
    BY <1>1 DEF GateInv, GateFits, Gated, GatedSteps
  <2>5. Over!Choose(s)
    BY <1>1, <1>3, <2>2, <2>3, <2>4 DEF Over!Choose, Select
  <2> QED
    BY <1>1, <2>5 DEF Over!OverNext, Over!Replace
<1>4. ~ReplyLost("setActive")
  BY DEF RegistryReliable, ReplyLost
<1> QED
  BY <1>2, <1>3, <1>4 DEF Commit

LEMMA GateOver ==
  ASSUME SwitchInv, GateInv, NEW s \in Slots, Pause(s) \/ Release(s) \/ Abort(s)
  PROVE  Over!OverNext
<1>1. /\ up /\ UNCHANGED <<up, serving, selection, queued>>
      /\ \A t \in Slots \ {s} : sw'[t] = sw[t]
  BY PausePauses, ReleaseRecords, AbortEnds
     DEF Pause, Release, Abort, At, Pauses, Records, Ends, registryVars, trafficVars
<1>2. CASE Pause(s)
  <2>1. /\ sw[s].pc = "pause" /\ gate = NoSlot /\ gate' = s /\ sw'[s].pc \in {"migrate", "swap"}
    BY <1>2, PausePauses DEF Pauses
  <2>2. OnTrial' = OnTrial /\ s \notin OnTrial
    BY <1>1, <2>1, TrialOfOne DEF BeforeCommit
  <2>3. Over!PauseWrites(s)
    BY <1>1, <2>1, <2>2 DEF Over!PauseWrites, Over!slotVars
  <2> QED
    BY <1>1, <2>3 DEF Over!OverNext, Over!Replace
<1>3. CASE Release(s) \/ Abort(s)
  <2>1. /\ sw[s].pc \in {"release", "abort"} /\ gate' = NoSlot
        /\ sw'[s].pc \in {"commit", "idle"}
        /\ sw[s].pc = "release" <=> sw'[s].pc = "commit"
    <3>1. CASE Release(s)
      BY <3>1, ReleaseRecords DEF Release, At, Records, Resume
    <3>2. CASE Abort(s)
      BY <3>2, FailEnds, NoSwitchFits DEF Abort, At, Resume
    <3> QED
      BY <1>3, <3>1, <3>2
  <2>2. gate = s
    BY <2>1 DEF GateInv, GateFits, Gated, GatedSteps
  <2>3. OnTrial' = OnTrial
    BY <1>1, <2>1, TrialOfOne DEF BeforeCommit
  <2>4. Over!ResumeWrites(s)
    BY <1>1, <2>1, <2>2, <2>3 DEF Over!ResumeWrites, Over!slotVars
  <2> QED
    BY <1>1, <2>4 DEF Over!OverNext, Over!Replace
<1> QED
  BY <1>2, <1>3

LEMMA SwitchOver ==
  ASSUME SwitchInv, GateInv, RegistryReliable, NEW s \in Slots, SwitchStep(s)
  PROVE  [Over!OverNext]_(Over!overVars)
<1>1. CASE Plan(s) \/ PauseTimesOut(s)
  <2>1. UNCHANGED <<up, serving, selection, gate, queued>>
    BY <1>1 DEF Plan, PauseTimesOut, cacheVars, trafficVars
  <2>2. Plans(s) \/ (sw'[s] = NoSwitch /\ \A t \in Slots \ {s} : sw'[t] = sw[t])
    BY <1>1, PlanCases, PauseTimesOutEnds DEF Ends
  <2>3. /\ \A t \in Slots \ {s} : sw'[t] = sw[t]
        /\ sw[s].pc \in {"plan", "pause"} /\ sw'[s].pc \in {"idle", "swap", "pause"}
    BY <1>1, <2>2, NoSwitchFits DEF Plans, Plan, PauseTimesOut, At
  <2> QED
    BY <2>1, <2>3, UnseenStep DEF BeforeCommit
<1>2. CASE RecordNew(s)
  <2>1. Go(s, "finish") /\ UNCHANGED <<up, serving, selection, gate, queued>> /\ sw[s].pc = "record"
    BY <1>2 DEF RecordNew, At, RegistryReliable, Refused, ReplyLost, trafficVars
  <2>2. sw'[s].pc = "finish" /\ \A t \in Slots \ {s} : sw'[t] = sw[t]
    BY <2>1, GoCarries, TypesOf DEF Steps
  <2> QED
    BY <2>1, <2>2, UnseenStep DEF BeforeCommit
<1>3. CASE Finish(s)
  <2>1. /\ UNCHANGED <<up, serving, selection, gate, queued>>
        /\ sw[s].pc = "finish" /\ sw'[s] = NoSwitch
        /\ \A t \in Slots \ {s} : sw'[t] = sw[t]
    BY <1>3, FinishFinishes DEF Finish, Finishes, trafficVars
  <2> QED
    BY <2>1, NoSwitchFits, UnseenStep DEF BeforeCommit
<1>4. CASE Pause(s) \/ Release(s) \/ Abort(s)
  BY <1>4, GateOver
<1>5. CASE MigrateStep(s)
  BY <1>5, MigrationUnseen
<1>6. CASE Swap(s) \/ After(s) \/ Commit(s)
  BY <1>6, SwapTries, AfterOver, CommitOver
<1> QED
  BY <1>1, <1>2, <1>3, <1>4, <1>5, <1>6 DEF SwitchStep

LEMMA TrafficOver ==
  ASSUME SwitchInv, \/ \E c \in Clients : Ask(c) \/ Answer(c)
                    \/ \E v \in Spaces : Work(v)
  PROVE  [Over!OverNext]_(Over!overVars)
<1>1. up /\ UNCHANGED <<up, serving, selection, gate, sw>>
  BY DEF Ask, Answer, Work, Embed, Hit, Miss, ApplyJob, registryVars, switchVars
<1>2. OnTrial' = OnTrial
  BY <1>1 DEF OnTrial
<1>3. CASE UNCHANGED queued
  BY <1>1, <1>2, <1>3 DEF Over!overVars, Over!slotVars
<1>4. ASSUME NEW c \in Clients, Miss(c)
      PROVE  Over!OverNext
  <2>1. /\ asked[c] \in Spaces
        /\ queued' = [queued EXCEPT ![asked[c]] = queued[asked[c]] + 1]
    BY <1>4, TypesOf DEF Miss
  <2>2. Over!Enqueue(asked[c])
    BY <1>1, <1>2, <2>1 DEF Over!Enqueue, Over!slotVars
  <2> QED
    BY <1>1, <2>1, <2>2 DEF Over!OverNext
<1>5. ASSUME NEW v \in Spaces, ApplyJob(v)
      PROVE  Over!OverNext
  <2>1. Over!Write(v)
    BY <1>1, <1>2, <1>5 DEF ApplyJob, Over!Write, Over!slotVars
  <2> QED
    BY <1>1, <2>1 DEF Over!OverNext
<1> QED
  BY <1>3, <1>4, <1>5 DEF Ask, Embed, Answer, Hit, Work

LEMMA CrashOver ==
  ASSUME SwitchInv, Crash
  PROVE  Over!OverNext
<1>1. OnTrial' = {}
  BY NoSwitchFits DEF Crash, OnTrial
<1>2. queued' \in [Spaces -> Nat]
  BY LimitsAssumption DEF Crash, Events
<1>3. Over!Stop
  BY <1>1, <1>2 DEF Crash, Over!Stop, registryVars
<1> QED
  BY <1>3 DEF Over!OverNext

LEMMA RestartOver ==
  ASSUME SwitchInv, Restart
  PROVE  Over!OverNext
<1>1. PICK chosen \in {selection, [selection EXCEPT !["policy"] = NoPlugin]} : RestartWith(chosen)
  BY DEF Restart
<1>2. /\ ~up /\ up' /\ UNCHANGED <<gate, queued, sw>>
      /\ selection' = chosen /\ serving' = chosen
  BY <1>1 DEF RestartWith, trafficVars
<1>3. \E S \in SUBSET {"policy"} :
        selection' = [s \in Slots |-> IF s \in S THEN NoPlugin ELSE selection[s]]
  <2>1. CASE chosen = selection
    <3> DEFINE S == {}
    <3>1. selection' = [s \in Slots |-> selection[s]]
      BY <1>2, <2>1, TypesOf
    <3>2. selection' = [s \in Slots |-> IF s \in S THEN NoPlugin ELSE selection[s]]
      BY <3>1
    <3>3. S \in SUBSET {"policy"}
      OBVIOUS
    <3> HIDE DEF S
    <3> QED
      BY <3>2, <3>3
  <2>2. CASE chosen = [selection EXCEPT !["policy"] = NoPlugin]
    <3>1. selection' = [s \in Slots |-> IF s \in {"policy"} THEN NoPlugin ELSE selection[s]]
      BY <1>2, <2>2, TypesOf
    <3> QED
      BY <3>1
  <2> QED
    BY <2>1, <2>2
<1>4. OnTrial' = OnTrial
  BY <1>2 DEF OnTrial
<1>5. Over!StartAgain
  BY <1>2, <1>3, <1>4 DEF Over!StartAgain
<1> QED
  BY <1>5 DEF Over!OverNext

LEMMA OverStep ==
  ASSUME SwitchInv, GateInv, RegistryReliable, [Next]_vars
  PROVE  [Over!OverNext]_(Over!overVars)
<1>1. ASSUME UNCHANGED <<up, serving, selection, gate, queued>>, UNCHANGED OnTrial
      PROVE  UNCHANGED Over!overVars
  BY <1>1 DEF Over!overVars, Over!slotVars
<1>2. CASE UNCHANGED vars \/ Poll
  BY <1>1, <1>2 DEF Poll, vars, registryVars, cacheVars, trafficVars, switchVars, OnTrial
<1>3. ASSUME NEW p \in Plugins, Activate(p) \/ Deactivate(p) \/ Rollback(p)
      PROVE  UNCHANGED Over!overVars
  <2>1. PICK mode, target : \E c \in Confirmation : Begins(SlotOf[p], p, mode, target, c)
    BY <1>3, RequestBegins
  <2>2. /\ SlotOf[p] \in Slots
        /\ sw[SlotOf[p]].pc = "idle" /\ sw'[SlotOf[p]].pc = "plan"
        /\ \A t \in Slots \ {SlotOf[p]} : sw'[t] = sw[t]
        /\ UNCHANGED <<up, serving, selection, gate, queued>>
    BY <2>1, Constants DEF Begins, cacheVars, trafficVars
  <2> QED
    BY <2>2, UnseenStep DEF BeforeCommit
<1> QED
  BY <1>2, <1>3, SwitchOver, TrafficOver, CrashOver, RestartOver DEF Next

(* However many switches, queries, jobs, failing calls and crashes there   *)
(* are, a switch is a trial that its record makes the chosen one or its    *)
(* failure takes back (types.go:8): what serves a slot changes otherwise   *)
(* only with the process, writes are paused by one switch at a time and    *)
(* resumed before the record is written, and no waiting job is lost to it. *)
THEOREM SwitchesAreTrials ==
  ASSUME RegistryReliable
  PROVE  Spec => ImplementsSwitchover
<1> DEFINE Inv == SwitchInv /\ GateInv
<1>1. Init => Inv
  BY SwitchInitially, GateInitially
<1>2. Inv /\ [Next]_vars => Inv'
  BY SwitchInductive, GateInductive
<1>3. Init => Over!OverInit
  BY NoSwitchFits DEF Init, RegistryInit, CacheInit, Over!OverInit, OnTrial
<1>4. Inv /\ [Next]_vars => [Over!OverNext]_(Over!overVars)
  BY OverStep
<1> QED
  BY <1>1, <1>2, <1>3, <1>4, PTL DEF Spec, ImplementsSwitchover, Over!OverSpec
===============================================================================
