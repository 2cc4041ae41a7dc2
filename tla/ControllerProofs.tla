--------------------------- MODULE ControllerProofs ---------------------------
(***************************************************************************)
(* Proofs about the controller: the manifests it accepts, the preparations *)
(* it makes, the instances it runs and the configuration they are given.   *)
(***************************************************************************)
EXTENDS ManifestForm, PluginPrepare, PluginInstances, PluginConfig, TLAPS

-------------------------------------------------------------------------------
(***************************************************************************)
(* A manifest accepted once is accepted for ever, whatever its types and   *)
(* ports.  The reason is that what a parse returns is Settled: it is valid *)
(* as it is written, and filling in the defaults again changes nothing.    *)
(***************************************************************************)

Settled(f) ==
  /\ f \in Forms
  /\ FormValid(f) /\ WithDefaults(f) = f
  /\ f.type = install.type
  /\ install.mode # "endpoint" => f.mode # "endpoint"

(* What a dry run that found the request valid has seen to.                *)
Promised ==
  /\ install.supplied => RequestFits
  /\ ~install.supplied /\ install.mode # "endpoint" => ControllerAccepts

FormInv ==
  /\ FormTypeOK
  /\ ~refusedLate
  /\ formStage \in {"asked", "prepared", "recorded", "started"} => Settled(form)
  /\ formStage = "started" => install.mode # "endpoint"
  /\ verdict = "valid" /\ ~Unused =>
       /\ formStage # "refused"
       /\ formStage = "written" => Promised

-------------------------------------------------------------------------------
(* Defaults                                                                *)

LEMMA DefaultFields ==
  ASSUME NEW f \in Forms
  PROVE  /\ WithDefaults(f) \in Forms
         /\ WithDefaults(f).type = f.type
         /\ WithDefaults(f).mode = DefaultMode(f)
         /\ WithDefaults(f).mode # ""
         /\ WithDefaults(f).mode = "container" =>
              WithDefaults(f).dockerfile # "" /\ WithDefaults(f).context # ""
         /\ WithDefaults(f).mode # "endpoint" => WithDefaults(f).port # 0
         /\ WithDefaults(f).python # "pathless"
         /\ WithDefaults(f).health # "" /\ WithDefaults(f).egress # ""
<1> DEFINE mode == DefaultMode(f)
           built == mode = "container"
<1>1. f.mode # "" => mode = f.mode
  BY DEF DefaultMode, OrDefault
<1>2. mode \in {"container", "python", "endpoint", "other"}
  BY DEF DefaultMode, OrDefault, Forms
<1> DEFINE dockerfile == IF built THEN OrDefault(f.dockerfile, "", "inside") ELSE f.dockerfile
           context == IF built THEN OrDefault(f.context, "", "inside") ELSE f.context
           port == IF mode = "endpoint" THEN f.port ELSE OrDefault(f.port, 0, DefaultPort)
           python == OrDefault(f.python, "pathless", "whole")
           health == OrDefault(f.health, "", "path")
           egress == OrDefault(f.egress, "", "none")
<1>3. WithDefaults(f) =
        [f EXCEPT !.mode = mode, !.dockerfile = dockerfile, !.context = context,
                  !.port = port, !.python = python, !.health = health, !.egress = egress]
  BY DEF WithDefaults
<1>4. /\ dockerfile \in Paths /\ (built => dockerfile # "")
      /\ context \in {"", "inside"} /\ (built => context # "")
  BY DEF OrDefault, Forms, Paths
<1>5. port \in Ports /\ (mode # "endpoint" => port # 0)
  <2>1. DefaultPort \in Ports /\ DefaultPort # 0
    BY ManifestFormAssumption
  <2> QED
    BY <2>1 DEF OrDefault, Forms
<1>6. /\ python \in {"none", "whole", "wrong"}
      /\ health \in {"path", "wrong"}
      /\ egress \in {"none", "internet", "other"}
  BY DEF OrDefault, Forms
<1> HIDE DEF mode, dockerfile, context, port, python, health, egress
<1>7. WithDefaults(f) \in Forms
  <2>1. mode \in {"", "container", "python", "endpoint", "other"}
    BY <1>2
  <2>2. python \in {"none", "pathless", "whole", "wrong"}
    BY <1>6
  <2>3. health \in {"", "path", "wrong"}
    BY <1>6
  <2>4. egress \in {"", "none", "internet", "other"}
    BY <1>6
  <2>5. dockerfile \in Paths /\ context \in {"", "inside"} /\ port \in Ports
    BY <1>4, <1>5
  <2>6. ASSUME NEW P, NEW H, NEW E,
               f \in [type : Types, mode : {"", "container", "python", "endpoint", "other"},
                      dockerfile : Paths, context : {"", "inside"}, port : Ports,
                      python : P, health : H, egress : E],
               python \in P, health \in H, egress \in E
        PROVE  WithDefaults(f) \in
                 [type : Types, mode : {"", "container", "python", "endpoint", "other"},
                  dockerfile : Paths, context : {"", "inside"}, port : Ports,
                  python : P, health : H, egress : E]
    BY <1>3, <2>1, <2>5, <2>6
  <2> QED
    BY <2>2, <2>3, <2>4, <2>6 DEF Forms
<1>8. /\ WithDefaults(f).type = f.type
      /\ WithDefaults(f).mode = mode
      /\ WithDefaults(f).dockerfile = dockerfile
      /\ WithDefaults(f).context = context
      /\ WithDefaults(f).port = port
      /\ WithDefaults(f).python = python
      /\ WithDefaults(f).health = health
      /\ WithDefaults(f).egress = egress
  BY <1>3 DEF Forms
<1> QED
  BY <1>2, <1>4, <1>5, <1>6, <1>7, <1>8 DEF mode

(* Defaults are filled in where nothing is written, so nothing changes in  *)
(* a manifest that has no such field.                                      *)
LEMMA NothingToFill ==
  ASSUME NEW f \in Forms, f.mode # "",
         f.mode = "container" => f.dockerfile # "" /\ f.context # "",
         f.mode # "endpoint" => f.port # 0,
         f.python # "pathless", f.health # "", f.egress # ""
  PROVE  WithDefaults(f) = f
  BY DEF WithDefaults, DefaultMode, OrDefault, Forms

LEMMA DefaultsOnce ==
  ASSUME NEW f \in Forms
  PROVE  WithDefaults(WithDefaults(f)) = WithDefaults(f)
  BY DefaultFields, NothingToFill
-------------------------------------------------------------------------------
(* Parses                                                                  *)

(* What a parse accepts as the type that was asked for is settled.         *)
LEMMA ParsedIsSettled ==
  ASSUME FormTypeOK, FormParses(form, install.type),
         install.mode # "endpoint" => WithDefaults(form).mode # "endpoint"
  PROVE  Settled(WithDefaults(form))
<1>1. form \in Forms
  BY DEF FormTypeOK
<1>2. /\ WithDefaults(form) \in Forms
      /\ WithDefaults(form).type = form.type
  BY <1>1, DefaultFields
<1> QED
  BY <1>1, <1>2, DefaultsOnce DEF Settled, FormParses

(* A settled manifest is accepted by every parse.                          *)
LEMMA SettledParses ==
  ASSUME Settled(form)
  PROVE  /\ FormParses(form, install.type)
         /\ install.mode # "endpoint" => ControllerAccepts
  BY DEF Settled, FormParses, ControllerAccepts

LEMMA MinimalIsSettled ==
  ASSUME FormTypeOK, FormValid(MinimalForm(install.type)), install.mode = "endpoint"
  PROVE  Settled(MinimalForm(install.type))
<1> DEFINE f == [type |-> install.type, mode |-> "endpoint", dockerfile |-> "",
                 context |-> "", port |-> 0, python |-> "none", health |-> "", egress |-> ""]
<1>1. f \in Forms
  BY ManifestFormAssumption DEF FormTypeOK, Installs, Forms, Paths
<1>2. f.type = install.type /\ MinimalForm(install.type) = WithDefaults(f)
  BY DEF MinimalForm
<1> HIDE DEF f
<1> QED
  BY <1>1, <1>2, DefaultFields, DefaultsOnce DEF Settled

(* A parse that accepts leads from a state of the invariant to another.    *)
LEMMA ParsedKeeps ==
  ASSUME FormInv, NEW at \in {"asked", "prepared", "recorded", "started"}, Parsed(at),
         FormParses(form, install.type),
         install.mode # "endpoint" => WithDefaults(form).mode # "endpoint",
         at = "started" => install.mode # "endpoint"
  PROVE  FormInv'
<1>1. Settled(WithDefaults(form))
  BY ParsedIsSettled DEF FormInv
<1>2. Settled(form)'
  <2> DEFINE g == WithDefaults(form)
  <2>1. form' = g /\ install' = install
    BY DEF Parsed
  <2>2. Settled(g)
    BY <1>1
  <2> HIDE DEF g
  <2> QED
    BY <2>1, <2>2 DEF Settled
<1>3. FormTypeOK'
  BY <1>1 DEF Parsed, FormInv, FormTypeOK, Settled
<1>4. ~refusedLate' /\ formStage' = at /\ install' = install
  BY DEF Parsed, FormInv
<1> QED
  BY <1>2, <1>3, <1>4 DEF FormInv, Unused

-------------------------------------------------------------------------------
LEMMA FormInitially ==
  FormInit => FormInv
  BY DEF FormInit, FormInv, FormTypeOK

LEMMA FormStep ==
  ASSUME FormInv, [FormNext]_formVars
  PROVE  FormInv'
<1>1. CASE UNCHANGED formVars
  BY <1>1 DEF formVars, FormInv, FormTypeOK, Settled, Unused, Promised, RequestFits,
     ControllerAccepts, FormParses
<1>2. CASE VerifyForm
  <2>1. FormTypeOK' /\ UNCHANGED <<form, install, formStage, refusedLate>>
    BY <1>2 DEF VerifyForm, FormInv, FormTypeOK
  <2>2. verdict' = "valid" /\ ~Unused => Promised
    BY <1>2 DEF VerifyForm, Promised
  <2>3. formStage = "written"
    BY <1>2 DEF VerifyForm
  <2> QED
    BY <2>1, <2>2, <2>3 DEF FormInv, Unused, Promised, RequestFits, ControllerAccepts
<1>3. CASE AskWithManifest
  <2>1. CASE RequestFits /\ Parsed("recorded")
    BY <2>1, ParsedKeeps DEF RequestFits
  <2>2. CASE RequestFits /\ Parsed("asked")
    BY <2>2, ParsedKeeps DEF RequestFits
  <2>3. CASE (Unused \/ ~RequestFits) /\ RefuseForm
    BY <1>3, <2>3 DEF AskWithManifest, RefuseForm, FormInv, FormTypeOK, Unused, Promised
  <2> QED
    BY <1>3, <2>1, <2>2, <2>3 DEF AskWithManifest
<1>4. CASE AskWithoutManifest
  <2>1. Settled(MinimalForm(install.type))
    BY <1>4, MinimalIsSettled DEF AskWithoutManifest, FormInv
  <2>2. Settled(form)'
    BY <1>4, <2>1 DEF AskWithoutManifest, Settled
  <2>3. FormTypeOK'
    BY <1>4, <2>1 DEF AskWithoutManifest, FormInv, FormTypeOK, Settled
  <2> QED
    BY <1>4, <2>2, <2>3 DEF AskWithoutManifest, FormInv, Unused
<1>5. CASE PrepareForm
  <2>1. CASE ControllerAccepts /\ Parsed("prepared")
    BY <2>1, ParsedKeeps DEF ControllerAccepts
  <2>2. CASE ~ControllerAccepts /\ RefuseForm
    <3>1. formStage = "written" /\ (Unused \/ ~install.supplied)
      BY <1>5, <2>2, SettledParses DEF PrepareForm, FormInv
    <3> QED
      BY <1>5, <2>2, <3>1 DEF PrepareForm, RefuseForm, FormInv, FormTypeOK, Unused, Promised
  <2> QED
    BY <1>5, <2>1, <2>2 DEF PrepareForm
<1>6. CASE RecordForm
  <2>1. Settled(form)
    BY <1>6 DEF RecordForm, FormInv
  <2>2. FormParses(form, install.type) /\ Parsed("recorded")
    BY <1>6, <2>1, SettledParses DEF RecordForm
  <2> QED
    BY <2>1, <2>2, ParsedKeeps DEF Settled
<1>7. CASE StartForm
  <2>1. Settled(form) /\ install.mode # "endpoint"
    BY <1>7 DEF StartForm, FormInv
  <2>2. ControllerAccepts /\ Parsed("started")
    BY <1>7, <2>1, SettledParses DEF StartForm
  <2> QED
    BY <2>1, <2>2, ParsedKeeps DEF ControllerAccepts
<1> QED
  BY <1>1, <1>2, <1>3, <1>4, <1>5, <1>6, <1>7 DEF FormNext

LEMMA FormImplies ==
  FormInv => AcceptedOnceAndForAll
<1> SUFFICES ASSUME FormInv
             PROVE  AcceptedOnceAndForAll
  OBVIOUS
<1>1. ASSUME formStage = "started"
      PROVE  /\ (form.mode = "python") = (form.type \in PythonTypes)
             /\ form.mode = "python" => form.python = "whole"
             /\ form.port >= MinPort
  <2>1. RuntimeValid(form) /\ form.mode # "endpoint" /\ form.port >= MinPort
    BY <1>1 DEF FormInv, Settled, FormValid
  <2>2. form.mode = "python" => form.python = "whole"
    BY <1>1 DEF FormInv, Settled, FormValid
  <2>3. CASE form.mode = "python"
    <3>1. form.type \in PythonTypes
      BY <2>1, <2>3 DEF RuntimeValid
    <3> QED
      BY <2>1, <2>2, <2>3, <3>1
  <2>4. CASE form.mode = "container"
    <3>1. form.type \notin PythonTypes /\ form.mode # "python"
      BY <2>1, <2>4 DEF RuntimeValid
    <3> QED
      BY <2>1, <2>2, <3>1
  <2> QED
    BY <2>1, <2>3, <2>4 DEF RuntimeValid
<1> QED
  BY <1>1 DEF FormInv, Settled, AcceptedOnceAndForAll

(* A manifest that one parse accepted is refused by none that follows, and *)
(* what a dry run found valid is installed with the same manifest          *)
(* (manifest.go:322).                                                      *)
THEOREM AcceptedForAll == FormSpec => [](FormTypeOK /\ AcceptedOnceAndForAll)
<1>1. FormInv /\ [FormNext]_formVars => FormInv'
  BY FormStep
<1>2. FormInv => FormTypeOK
  BY DEF FormInv
<1> QED
  BY FormInitially, FormImplies, <1>1, <1>2, PTL DEF FormSpec

-------------------------------------------------------------------------------
(***************************************************************************)
(* A digest that is recorded was vetted.  What a preparation has vetted    *)
(* and the image it will record are one from the reading of the manifest   *)
(* on, because every later step looks the image up by its digest.          *)
(***************************************************************************)

Prep ==
  [pc : PrepSteps \cup {"idle", "shown", "done", "failed"},
   mode : {"image", "repository"}, dry : BOOLEAN, commit : Commits \cup {NoImage},
   image : Images \cup {NoImage}, vetted : SUBSET Images, scratch : BOOLEAN]

OnImage == {"pull", "resolve", "manifest"}
OnTree == {"fetch", "tree", "read", "context", "build", "built"}
Chosen == {"manifest", "built", "weigh", "scan", "done"}

(* What a preparation knows at each step; the scratch directory is there   *)
(* only while a repository is prepared.                                    *)
PrepSound(r, seen) ==
  /\ r \in Prep
  /\ r.pc \in OnImage => r.mode = "image"
  /\ r.pc \in OnTree => r.mode = "repository"
  /\ r.scratch => r.mode = "repository" /\ r.pc \notin {"idle", "done", "failed", "shown"}
  /\ r.pc \in {"tree", "read", "context", "build"} => r.commit \in Commits
  /\ r.pc \in Chosen => r.image \in Images /\ r.image \in seen
  /\ r.pc \in {"built", "weigh", "scan", "done"} => r.vetted = {r.image}
  /\ r.pc \in {"scan", "done"} => r.image \notin Heavy

(* The images that the container runtime has or had.                       *)
Seen == stocked \cup rejected

PrepareInv ==
  /\ PrepareTypeOK
  /\ localName # NoImage => localName \in stocked
  /\ pinned \subseteq Seen
  /\ \A p \in Preparations : PrepSound(prep[p], Seen)

LEMMA PrepareInitially ==
  PrepareInit => PrepareInv
  BY PrepareAssumption
     DEF PrepareInit, PrepareInv, PrepareTypeOK, PrepSound, Prep, PrepSteps, IdlePrep,
         OnImage, OnTree, Chosen, Seen

(* A step of one preparation keeps the invariant if it is sound after it   *)
(* and no image is forgotten.                                              *)
LEMMA PrepareKept ==
  ASSUME PrepareInv, NEW p \in Preparations, NEW r, prep' = [prep EXCEPT ![p] = r],
         PrepSound(r, Seen'), Seen \subseteq Seen',
         UNCHANGED originVars, localName' \in Images \cup {NoImage},
         stocked' \subseteq Images, rejected' \subseteq Images, pinned' \subseteq Seen',
         pinned' \subseteq Images, localName' # NoImage => localName' \in stocked'
  PROVE  PrepareInv'
<1>1. \A q \in Preparations : PrepSound(prep[q], Seen)
  BY DEF PrepareInv
<1>2. prep \in [Preparations -> Prep]
  BY DEF PrepareInv, PrepareTypeOK, Prep
<1>3. \A q \in Preparations : PrepSound(prep'[q], Seen')
  <2> SUFFICES ASSUME NEW q \in Preparations
               PROVE  PrepSound(prep'[q], Seen')
    OBVIOUS
  <2>1. CASE q = p
    BY <1>2, <2>1
  <2>2. CASE q # p
    <3>1. prep'[q] = prep[q] /\ PrepSound(prep[q], Seen)
      BY <1>1, <1>2, <2>2
    <3> QED
      BY <3>1 DEF PrepSound
  <2> QED
    BY <2>1, <2>2
<1>4. prep' \in [Preparations -> Prep]
  BY <1>2 DEF PrepSound
<1>5. PrepareTypeOK'
  BY <1>4 DEF PrepareInv, PrepareTypeOK, Prep, originVars
<1> QED
  BY <1>3, <1>5 DEF PrepareInv

(* Steps that leave the container runtime alone.                           *)
LEMMA PrepareKeptRuntime ==
  ASSUME PrepareInv, NEW p \in Preparations, NEW r, prep' = [prep EXCEPT ![p] = r],
         PrepSound(r, Seen), KeepsRuntime
  PROVE  PrepareInv'
<1>1. Seen' = Seen /\ UNCHANGED <<originVars, runtimeVars, pinned, rejected>>
  BY DEF KeepsRuntime, runtimeVars, Seen
<1> QED
  BY <1>1, PrepareKept DEF PrepareInv, PrepareTypeOK, runtimeVars

LEMMA SoundPrep ==
  ASSUME PrepareInv, NEW p \in Preparations
  PROVE  PrepSound(prep[p], Seen) /\ prep[p] \in Prep
  BY DEF PrepareInv, PrepSound

(* A preparation is refused, or rejected with or without its image.        *)
LEMMA EndedIsSound ==
  ASSUME NEW r, NEW seen, PrepSound(r, seen), NEW pc \in {"failed", "shown"}
  PROVE  PrepSound([r EXCEPT !.pc = pc, !.scratch = FALSE], seen)
  BY DEF PrepSound, Prep, PrepSteps, OnImage, OnTree, Chosen

LEMMA PrepEnds ==
  ASSUME PrepareInv, NEW p \in Preparations, NEW pc, PrepEnd(p, pc)
  PROVE  prep' = [prep EXCEPT ![p] = [@ EXCEPT !.pc = pc, !.scratch = FALSE]]
  BY DEF PrepEnd, PrepareInv, PrepareTypeOK

LEMMA RejectKeeps ==
  ASSUME PrepareInv, NEW p \in Preparations, NEW sized \in BOOLEAN, Reject(p, sized),
         prep[p].image \in Images
  PROVE  PrepareInv'
<1> DEFINE r == [prep[p] EXCEPT !.pc = "failed", !.scratch = FALSE]
           i == prep[p].image
<1>1. prep' = [prep EXCEPT ![p] = r]
  BY DEF Reject, PrepEnd, PrepareInv, PrepareTypeOK
<1>2. PrepSound(r, Seen)
  BY SoundPrep, EndedIsSound
<1> HIDE DEF r
<1>3. CASE RemoveImage(i) /\ UNCHANGED <<originVars, pinned>>
  <2>1. /\ stocked' = stocked \ {i} /\ rejected' = rejected \cup {i}
        /\ localName' = IF localName = i THEN NoImage ELSE localName
    BY <1>3 DEF RemoveImage
  <2>2. Seen \subseteq Seen'
    BY <2>1 DEF Seen
  <2>3. PrepSound(r, Seen')
    BY <1>2, <2>2 DEF PrepSound
  <2>4. /\ stocked' \subseteq Images /\ rejected' \subseteq Images
        /\ localName' \in Images \cup {NoImage}
        /\ localName' # NoImage => localName' \in stocked'
        /\ pinned' \subseteq Seen' /\ pinned' \subseteq Images
    BY <1>3, <2>1, <2>2 DEF PrepareInv, PrepareTypeOK
  <2> QED
    BY <1>1, <1>3, <2>2, <2>3, <2>4, PrepareKept
<1>4. CASE UNCHANGED <<originVars, runtimeVars, pinned, rejected>>
  BY <1>1, <1>2, <1>4, PrepareKeptRuntime DEF KeepsRuntime
<1> QED
  BY <1>3, <1>4 DEF Reject, Subject
LEMMA PrepareStep ==
  ASSUME PrepareInv, [PrepareNext]_prepareVars
  PROVE  PrepareInv'
<1>1. CASE UNCHANGED prepareVars
  BY <1>1 DEF prepareVars, originVars, runtimeVars, PrepareInv, PrepareTypeOK, Seen
<1>2. ASSUME UNCHANGED <<runtimeVars, prep, pinned, rejected>>,
             published' \in Images, branch' \in Commits, moves' \in Nat
      PROVE  PrepareInv'
  BY <1>2 DEF runtimeVars, PrepareInv, PrepareTypeOK, Seen
<1>3. ASSUME NEW p \in Preparations, NEW mode \in {"image", "repository"}, NEW dry \in BOOLEAN,
             BeginPrepare(p, mode, dry)
      PROVE  PrepareInv'
  <2> DEFINE r == [prep[p] EXCEPT !.mode = mode, !.dry = dry, !.scratch = (mode = "repository"),
                     !.pc = IF mode = "image" THEN "pull" ELSE "fetch"]
  <2>1. prep' = [prep EXCEPT ![p] = r] /\ KeepsRuntime
    BY <1>3 DEF BeginPrepare
  <2>2. PrepSound(r, Seen)
    <3>1. PrepSound(prep[p], Seen) /\ prep[p] \in Prep
      BY SoundPrep
    <3> DEFINE d == prep[p]
               scratch == mode = "repository"
               pc == IF mode = "image" THEN "pull" ELSE "fetch"
               e == [d EXCEPT !.mode = mode, !.dry = dry, !.scratch = scratch, !.pc = pc]
    <3>0. scratch \in BOOLEAN /\ pc \in {"pull", "fetch"}
      OBVIOUS
    <3> HIDE DEF d, scratch, pc
    <3>2. e \in Prep /\ e.mode = mode /\ e.scratch = scratch /\ e.pc = pc
      BY <3>0, <3>1 DEF Prep, PrepSteps, d
    <3>3. /\ r \in Prep /\ r.mode = mode /\ r.scratch = (mode = "repository")
          /\ r.pc = IF mode = "image" THEN "pull" ELSE "fetch"
      BY <3>2 DEF d, scratch, pc
    <3> HIDE DEF r
    <3> QED
      BY <3>3 DEF PrepSound, OnImage, OnTree, Chosen
  <2> QED
    BY <2>1, <2>2, PrepareKeptRuntime
<1>4. ASSUME NEW p \in Preparations,
             \/ Refuse(p) \/ ResolveName(p) \/ ReadManifest(p) \/ FetchRepo(p)
             \/ CheckTree(p) \/ ReadTreeManifest(p) \/ ChooseContext(p) \/ InspectBuilt(p)
      PROVE  PrepareInv'
  <2>1. PICK r : prep' = [prep EXCEPT ![p] = r] /\ PrepSound(r, Seen) /\ KeepsRuntime
    <3>1. PrepSound(prep[p], Seen) /\ prep[p] \in Prep
      BY SoundPrep
    <3>2. CASE Refuse(p)
      BY <3>1, <3>2, EndedIsSound, PrepEnds DEF Refuse
    <3>3. CASE ResolveName(p)
      <4>1. localName \in Images /\ localName \in Seen
        BY <3>3 DEF ResolveName, PrepareInv, PrepareTypeOK, Seen
      <4>2. PrepSound([prep[p] EXCEPT !.image = localName, !.pc = "manifest"], Seen)
        BY <3>1, <3>3, <4>1
           DEF ResolveName, PrepAt, PrepSound, Prep, PrepSteps, OnImage, OnTree, Chosen
      <4> QED
        BY <3>3, <4>2 DEF ResolveName
    <3>4. CASE ReadManifest(p)
      <4> DEFINE r == [prep[p] EXCEPT !.pc = IF prep[p].dry THEN "shown" ELSE "weigh",
                                      !.vetted = {Subject(p)}]
      <4>1. prep[p].image \in Images /\ prep[p].pc = "manifest" /\ ~prep[p].scratch
        BY <3>1, <3>4 DEF ReadManifest, PrepAt, PrepSound, Prep, OnImage, Chosen
      <4>2. PrepSound(r, Seen)
        BY <3>1, <4>1 DEF Subject, PrepSound, Prep, PrepSteps, OnImage, OnTree, Chosen
      <4> QED
        BY <3>4, <4>2 DEF ReadManifest
    <3>5. CASE FetchRepo(p)
      <4>1. PrepSound([prep[p] EXCEPT !.commit = branch, !.pc = "tree"], Seen)
        BY <3>1, <3>5 DEF PrepareInv, PrepareTypeOK, FetchRepo, PrepAt, PrepSound, Prep,
                          PrepSteps, OnImage, OnTree, Chosen
      <4> QED
        BY <3>5, <4>1 DEF FetchRepo
    <3>6. CASE CheckTree(p) \/ ChooseContext(p)
      <4>1. PICK pc \in {"read", "build"} : PrepGoto(p, pc) /\ KeepsRuntime /\ prep[p].pc \in {"tree", "context"}
        BY <3>6 DEF CheckTree, ChooseContext, PrepAt
      <4>2. PrepSound([prep[p] EXCEPT !.pc = pc], Seen)
        BY <3>1, <4>1 DEF PrepSound, Prep, PrepSteps, OnImage, OnTree, Chosen
      <4> QED
        BY <4>1, <4>2 DEF PrepGoto
    <3>7. CASE ReadTreeManifest(p)
      <4>1. PrepSound([prep[p] EXCEPT !.pc = "context"], Seen)
        BY <3>1, <3>7 DEF ReadTreeManifest, PrepAt, PrepSound, Prep, PrepSteps, OnImage,
                          OnTree, Chosen
      <4> QED
        BY <3>1, <3>7, <4>1, EndedIsSound, PrepEnds DEF ReadTreeManifest, PrepGoto
    <3>8. CASE InspectBuilt(p)
      <4>1. PrepSound([prep[p] EXCEPT !.pc = "weigh"], Seen)
        BY <3>1, <3>8 DEF InspectBuilt, PrepAt, PrepSound, Prep, PrepSteps, OnImage,
                          OnTree, Chosen
      <4> QED
        BY <3>1, <3>8, <4>1, EndedIsSound, PrepEnds DEF InspectBuilt, PrepGoto
    <3> QED
      BY <1>4, <3>2, <3>3, <3>4, <3>5, <3>6, <3>7, <3>8
  <2> QED
    BY <2>1, PrepareKeptRuntime
<1>5. ASSUME NEW p \in Preparations, Pull(p)
      PROVE  PrepareInv'
  <2> DEFINE r == [prep[p] EXCEPT !.pc = "resolve"]
  <2>1. /\ prep' = [prep EXCEPT ![p] = r]
        /\ UNCHANGED <<originVars, pinned, rejected>>
        /\ \/ localName' = published /\ stocked' = stocked \cup {published}
           \/ UNCHANGED <<localName, stocked>>
    BY <1>5 DEF Pull, PrepGoto, runtimeVars
  <2>2. Seen \subseteq Seen' /\ published \in Images
    BY <2>1 DEF Seen, PrepareInv, PrepareTypeOK
  <2>3. PrepSound(r, Seen')
    BY <1>5, SoundPrep
       DEF Pull, PrepAt, PrepSound, Prep, PrepSteps, OnImage, OnTree, Chosen
  <2>4. /\ stocked' \subseteq Images /\ rejected' \subseteq Images
        /\ localName' \in Images \cup {NoImage}
        /\ localName' # NoImage => localName' \in stocked'
        /\ pinned' \subseteq Seen' /\ pinned' \subseteq Images
    BY <2>1, <2>2 DEF PrepareInv, PrepareTypeOK
  <2> HIDE DEF r
  <2> QED
    BY <2>1, <2>2, <2>3, <2>4, PrepareKept
<1>6. ASSUME NEW p \in Preparations, Build(p)
      PROVE  PrepareInv'
  <2> DEFINE i == BuiltFrom[prep[p].commit]
             r == [prep[p] EXCEPT !.image = i, !.pc = "built", !.vetted = {i}]
  <2>1. /\ prep' = [prep EXCEPT ![p] = r] /\ stocked' = stocked \cup {i}
        /\ UNCHANGED <<originVars, localName, pinned, rejected>>
    BY <1>6 DEF Build
  <2>2. prep[p].commit \in Commits /\ prep[p].pc = "build" /\ prep[p].mode = "repository"
    BY <1>6, SoundPrep DEF Build, PrepAt, PrepSound, OnTree
  <2>3. i \in Images /\ Seen \subseteq Seen' /\ i \in Seen'
    BY <2>1, <2>2, PrepareAssumption DEF Seen
  <2> HIDE DEF i
  <2>4. PrepSound(r, Seen')
    BY <2>2, <2>3, SoundPrep DEF PrepSound, Prep, PrepSteps, OnImage, OnTree, Chosen
  <2>5. /\ stocked' \subseteq Images /\ rejected' \subseteq Images
        /\ localName' \in Images \cup {NoImage}
        /\ localName' # NoImage => localName' \in stocked'
        /\ pinned' \subseteq Seen' /\ pinned' \subseteq Images
    BY <2>1, <2>3 DEF PrepareInv, PrepareTypeOK
  <2> HIDE DEF r
  <2> QED
    BY <2>1, <2>3, <2>4, <2>5, PrepareKept
<1>7. ASSUME NEW p \in Preparations, Weigh(p) \/ Scan(p)
      PROVE  PrepareInv'
  <2>1. /\ PrepSound(prep[p], Seen) /\ prep[p] \in Prep
        /\ prep[p].image \in Images /\ prep[p].image \in Seen
        /\ prep[p].vetted = {prep[p].image} /\ prep[p].pc \in {"weigh", "scan"}
    BY <1>7, SoundPrep DEF Weigh, Scan, PrepAt, PrepSound, Chosen
  <2>2. CASE Reject(p, TRUE) \/ Reject(p, FALSE)
    BY <2>1, <2>2, RejectKeeps
  <2>3. CASE /\ Weigh(p) /\ prep[p].image \notin Heavy /\ KeepsRuntime
             /\ prep' = [prep EXCEPT ![p].pc = "scan", ![p].vetted = @ \cap {Subject(p)}]
    <3> DEFINE r == [prep[p] EXCEPT !.pc = "scan", !.vetted = @ \cap {prep[p].image}]
    <3>1. prep' = [prep EXCEPT ![p] = r]
      BY <2>3 DEF Subject, PrepareInv, PrepareTypeOK
    <3>2. PrepSound(r, Seen)
      BY <2>1, <2>3 DEF PrepSound, Prep, PrepSteps, OnImage, OnTree, Chosen
    <3> QED
      BY <2>3, <3>1, <3>2, PrepareKeptRuntime
  <2>4. CASE /\ Scan(p) /\ pinned' = pinned \cup {prep[p].image}
             /\ prep' = [prep EXCEPT ![p].pc = "done", ![p].scratch = FALSE,
                                     ![p].vetted = @ \cap {Subject(p)}]
             /\ UNCHANGED <<originVars, runtimeVars, rejected>>
    <3> DEFINE r == [prep[p] EXCEPT !.pc = "done", !.scratch = FALSE,
                                    !.vetted = @ \cap {prep[p].image}]
    <3>1. prep' = [prep EXCEPT ![p] = r]
      BY <2>4 DEF Subject, PrepareInv, PrepareTypeOK
    <3>2. PrepSound(r, Seen)
      <4>1. prep[p].pc = "scan"
        BY <2>4 DEF Scan, PrepAt
      <4> QED
        BY <2>1, <4>1 DEF PrepSound, Prep, PrepSteps, OnImage, OnTree, Chosen
    <3>3. Seen' = Seen
      BY <2>4 DEF runtimeVars, Seen
    <3>4. /\ stocked' \subseteq Images /\ rejected' \subseteq Images
          /\ localName' \in Images \cup {NoImage}
          /\ localName' # NoImage => localName' \in stocked'
          /\ pinned' \subseteq Seen /\ pinned' \subseteq Images
      BY <2>1, <2>4 DEF PrepareInv, PrepareTypeOK, runtimeVars
    <3> HIDE DEF r
    <3> QED
      BY <2>4, <3>1, <3>2, <3>3, <3>4, PrepareKept
  <2> QED
    BY <1>7, <2>2, <2>3, <2>4 DEF Weigh, Scan, Subject
<1>8. ASSUME NEW i \in Images, MoveName(i)
      PROVE  PrepareInv'
  BY <1>2, <1>8 DEF MoveName, PrepareInv, PrepareTypeOK
<1>9. ASSUME NEW c \in Commits, MoveBranch(c)
      PROVE  PrepareInv'
  BY <1>2, <1>9 DEF MoveBranch, PrepareInv, PrepareTypeOK
<1>10. CASE PrepareNext
  BY <1>3, <1>4, <1>5, <1>6, <1>7, <1>8, <1>9, <1>10 DEF PrepareNext
<1> QED
  BY <1>1, <1>10

(* Whatever names and branches are moved to, and whatever other            *)
(* preparations remove: the digest an installed plugin is pinned to is the *)
(* one whose manifest was read, that was weighed and that was scanned, and *)
(* only a rejection can have taken its image away (server.go:283).         *)
THEOREM PinnedVetted == PrepareSpec => [](PrepareTypeOK /\ PinnedIsVetted)
<1>1. PrepareInv => PrepareTypeOK /\ PinnedIsVetted
  BY DEF PrepareInv, PrepSound, PinnedIsVetted, PrepAt, Seen
<1>2. PrepareInv /\ [PrepareNext]_prepareVars => PrepareInv'
  BY PrepareStep
<1> QED
  BY PrepareInitially, <1>1, <1>2, PTL DEF PrepareSpec
-------------------------------------------------------------------------------
(***************************************************************************)
(* A configuration that was recorded fits its manifest ever after, and an  *)
(* instance is given each value and a memory limit within bounds.  The     *)
(* reason is that the form a value has in the record, canonical and then   *)
(* through JSON, is a fixed point of resolving it again.                   *)
(***************************************************************************)

InJSON(v) == IF Number(v) THEN <<"float64", v[2]>> ELSE v

Recorded(prop, v) == InJSON(Canonical(prop, v))

LEMMA RecordedFits ==
  ASSUME NEW prop, NEW v, Fits(prop, v)
  PROVE  /\ Fits(prop, Recorded(prop, v))
         /\ Recorded(prop, Recorded(prop, v)) = Recorded(prop, v)
         /\ v \notin {Absent, Text("")} => Recorded(prop, v) \notin {Absent, Text("")}
         /\ Number(Recorded(prop, v)) => Number(v) /\ Recorded(prop, v)[2] = v[2]
<1>1. CASE prop.type \in {"integer", "number"}
  <2>1. Recorded(prop, v) = <<"float64", v[2]>> /\ Number(v)
    BY <1>1 DEF Recorded, Canonical, InJSON, Number, Fits
  <2>2. Number(<<"float64", v[2]>>) /\ <<"float64", v[2]>>[2] = v[2]
    BY DEF Number
  <2>3. Recorded(prop, <<"float64", v[2]>>) = <<"float64", v[2]>>
    BY <1>1 DEF Recorded, Canonical, InJSON, Number
  <2>4. Fits(prop, <<"float64", v[2]>>)
    BY <1>1, <2>2 DEF Fits
  <2>5. <<"float64", v[2]>> \notin {Absent, Text("")}
    BY DEF Absent, Text
  <2> DEFINE f == <<"float64", v[2]>>
  <2>6. /\ Recorded(prop, v) = f /\ Recorded(prop, f) = f /\ f[2] = v[2] /\ Fits(prop, f)
        /\ f \notin {Absent, Text("")} /\ Number(v)
    BY <2>1, <2>2, <2>3, <2>4, <2>5
  <2> HIDE DEF f
  <2> QED
    BY <2>6
<1>2. CASE prop.type \notin {"integer", "number"}
  <2>1. Canonical(prop, v) = v
    BY <1>2 DEF Canonical
  <2>2. v[1] \in {"string", "bool"}
    BY <1>2 DEF Fits
  <2>3. ~Number(v) /\ Recorded(prop, v) = v
    BY <2>1, <2>2 DEF Recorded, InJSON, Number
  <2> QED
    BY <2>3
<1> QED
  BY <1>1, <1>2

(* The value that a property takes from what is given, before its form.    *)
Source(s, values, n) == IF Given(values, n) THEN values[n] ELSE s[n].default

LEMMA RecordedValues ==
  ASSUME NEW s, NEW values
  PROVE  /\ DOMAIN FromJSON(Resolved(s, values)) =
              {n \in DOMAIN s : Given(values, n) \/ s[n].default # Absent}
         /\ \A n \in DOMAIN FromJSON(Resolved(s, values)) :
              FromJSON(Resolved(s, values))[n] = Recorded(s[n], Source(s, values, n))
  BY DEF FromJSON, Resolved, Recorded, InJSON, Source

(* Whatever is accepted for a manifest is recorded in a form that is       *)
(* accepted for it again and recorded as it is.                            *)
LEMMA ResolvedForAll ==
  ASSUME NEW s, \A n \in DOMAIN s : CheckProperty(s[n]), NEW values, Resolvable(s, values)
  PROVE  LET c == FromJSON(Resolved(s, values))
         IN  /\ Resolvable(s, c)
             /\ FromJSON(Resolved(s, c)) = c
             /\ \A n \in DOMAIN c :
                  /\ Fits(s[n], Source(s, values, n))
                  /\ c[n] = Recorded(s[n], Source(s, values, n))
<1> DEFINE c == FromJSON(Resolved(s, values))
           d == FromJSON(Resolved(s, c))
<1>1. /\ DOMAIN c = {n \in DOMAIN s : Given(values, n) \/ s[n].default # Absent}
      /\ \A n \in DOMAIN c : c[n] = Recorded(s[n], Source(s, values, n))
  BY RecordedValues
<1>2. /\ DOMAIN d = {n \in DOMAIN s : Given(c, n) \/ s[n].default # Absent}
      /\ \A n \in DOMAIN d : d[n] = Recorded(s[n], Source(s, c, n))
  BY RecordedValues
<1>3. /\ c = [n \in DOMAIN c |-> c[n]]
      /\ d = [n \in DOMAIN d |-> d[n]]
  BY DEF FromJSON
<1> HIDE DEF c, d
<1>4. \A n \in DOMAIN c : Fits(s[n], Source(s, values, n))
  BY <1>1 DEF Source, Resolvable, CheckProperty
<1>5. \A n \in DOMAIN c :
        /\ Fits(s[n], c[n]) /\ Recorded(s[n], c[n]) = c[n]
        /\ Given(values, n) => Given(c, n)
  <2> SUFFICES ASSUME NEW n \in DOMAIN c
               PROVE  /\ Fits(s[n], c[n]) /\ Recorded(s[n], c[n]) = c[n]
                      /\ Given(values, n) => Given(c, n)
    OBVIOUS
  <2> DEFINE v == Source(s, values, n)
  <2>1. Fits(s[n], v) /\ c[n] = Recorded(s[n], v)
    BY <1>1, <1>4
  <2>2. Given(values, n) => v \notin {Absent, Text("")}
    BY DEF Source, Given
  <2> HIDE DEF v
  <2>3. Given(values, n) => c[n] \notin {Absent, Text("")}
    BY <2>1, <2>2, RecordedFits
  <2>4. Given(values, n) => Given(c, n)
    BY <2>3 DEF Given
  <2>5. Fits(s[n], c[n]) /\ Recorded(s[n], c[n]) = c[n]
    BY <2>1, RecordedFits
  <2> QED
    BY <2>4, <2>5
<1>6. DOMAIN d = DOMAIN c
  BY <1>1, <1>2, <1>5 DEF Given
<1>7. \A n \in DOMAIN c : d[n] = c[n]
  <2> SUFFICES ASSUME NEW n \in DOMAIN c
               PROVE  d[n] = c[n]
    OBVIOUS
  <2>1. d[n] = Recorded(s[n], Source(s, c, n))
    BY <1>2, <1>6
  <2>2. CASE Given(c, n)
    BY <1>5, <2>1, <2>2 DEF Source
  <2>3. CASE ~Given(c, n)
    <3>1. ~Given(values, n) /\ Source(s, values, n) = s[n].default
          /\ Source(s, c, n) = s[n].default
      BY <1>5, <2>3 DEF Source
    <3> QED
      BY <1>1, <2>1, <3>1
  <2> QED
    BY <2>2, <2>3
<1>8. Resolvable(s, c)
  <2>1. DOMAIN c \subseteq DOMAIN s
    BY <1>1
  <2>2. ASSUME NEW n \in DOMAIN s, ~Given(c, n), s[n].default = Absent
        PROVE  ~s[n].required
    BY <1>1, <1>5, <2>2 DEF Resolvable
  <2> QED
    BY <1>5, <2>1, <2>2 DEF Resolvable, Given
<1>9. d = c
  BY <1>3, <1>6, <1>7
<1> QED
  BY <1>1, <1>4, <1>8, <1>9 DEF c, d
Settling(s, values) == FromJSON(Resolved(s, values)) = values

IntegralIn(values) == \A n \in DOMAIN values : Number(values[n]) => values[n][2] \in Int

(* What an instance is started with.                                       *)
Equipped ==
  /\ limit \in MinMemory .. Ceiling
  /\ \A n \in DOMAIN config : Own(n) => env[EnvName[n]] = Sprint(config[n])

ConfigInv ==
  /\ stage # "new" =>
       /\ Resolvable(schema, config) /\ Settling(schema, config) /\ IntegralIn(config)
       /\ MemoryValid(memory)
  /\ stage = "started" => Equipped

LEMMA RecordKeeps ==
  ASSUME NEW s \in Schemas, NEW decl, NEW values, NEW names, NEW ask,
         RecordConfig(s, decl, values, names, ask), IntegralIn(values)
  PROVE  ConfigInv'
<1> DEFINE c == FromJSON(Resolved(s, values))
<1>1. /\ \A n \in DOMAIN s : CheckProperty(s[n])
      /\ Resolvable(s, values) /\ MemoryValid(ask)
      /\ stage' = "recorded" /\ schema' = s /\ config' = c /\ memory' = ask
  BY DEF RecordConfig, Admissible
<1>2. /\ Resolvable(s, c) /\ Settling(s, c)
      /\ \A n \in DOMAIN c :
           /\ Fits(s[n], Source(s, values, n))
           /\ c[n] = Recorded(s[n], Source(s, values, n))
  BY <1>1, ResolvedForAll DEF Settling
<1>3. /\ DOMAIN c \subseteq DOMAIN s
      /\ \A n \in DOMAIN c : Given(values, n) => n \in DOMAIN values
  BY RecordedValues DEF Given
<1> HIDE DEF c
<1>4. IntegralIn(c)
  <2> SUFFICES ASSUME NEW n \in DOMAIN c, Number(c[n])
               PROVE  c[n][2] \in Int
    BY DEF IntegralIn
  <2> DEFINE v == Source(s, values, n)
  <2>1. Fits(s[n], v) /\ c[n] = Recorded(s[n], v)
    BY <1>2
  <2>2. Number(v) => v[2] \in Int
    BY <1>3, ConfigAssumption DEF Source, IntegralIn
  <2> HIDE DEF v
  <2>3. Number(Recorded(s[n], v)) => Number(v) /\ Recorded(s[n], v)[2] = v[2]
    BY <2>1, RecordedFits
  <2>4. Number(Recorded(s[n], v)) /\ c[n][2] = Recorded(s[n], v)[2]
    BY <2>1
  <2> QED
    BY <2>2, <2>3, <2>4
<1>5. Resolvable(schema, config)' /\ Settling(schema, config)' /\ IntegralIn(config)'
  BY <1>1, <1>2, <1>4
<1> QED
  BY <1>1, <1>5 DEF ConfigInv, MemoryValid

LEMMA InstallKeeps ==
  ASSUME NEW s \in Schemas, NEW decl, NEW values \in Requests, NEW names, NEW ask,
         InstallConfig(s, decl, values, names, ask)
  PROVE  ConfigInv'
<1>1. RecordConfig(s, decl, FromJSON(values), names, ask)
  BY DEF InstallConfig
<1>2. /\ DOMAIN FromJSON(values) = DOMAIN values
      /\ \A n \in DOMAIN values : FromJSON(values)[n] = InJSON(values[n])
  BY DEF FromJSON, InJSON
<1>3. \A n \in DOMAIN values :
        Number(InJSON(values[n])) => Number(values[n]) /\ InJSON(values[n])[2] = values[n][2]
  BY DEF InJSON, Number
<1>4. IntegralIn(FromJSON(values))
  BY <1>2, <1>3, ConfigAssumption DEF IntegralIn
<1> QED
  BY <1>1, <1>4, RecordKeeps

(* Of the properties that share a variable any may be visited last; one    *)
(* that has its variable to itself is.                                     *)
LEMMA StartEquips ==
  ASSUME ConfigInv, NEW last, StartInstance(last)
  PROVE  ConfigInv'
<1>1. /\ stage = "recorded" /\ stage' = "started"
      /\ UNCHANGED <<schema, config, secrets, memory>>
      /\ \A k \in DOMAIN last : last[k] \in DOMAIN config /\ EnvName[last[k]] = k
      /\ DOMAIN last = {EnvName[n] : n \in DOMAIN config}
      /\ Effective(memory) <= Ceiling /\ limit' = Effective(memory)
      /\ env' = Environment(last)
  BY DEF StartInstance
<1>2. MemoryValid(memory)
  BY <1>1 DEF ConfigInv
<1>3. limit' \in MinMemory .. Ceiling
  <2>1. CASE memory = Absent
    BY <1>1, <2>1, ConfigAssumption DEF Effective
  <2>2. CASE memory # Absent
    <3>1. ParseBytes(memory) \in MinMemory .. MaxMemory /\ limit' = ParseBytes(memory)
      BY <1>1, <1>2, <2>2 DEF MemoryValid, Effective
    <3> QED
      BY <1>1, <3>1, ConfigAssumption
  <2> QED
    BY <2>1, <2>2
<1>4. ASSUME NEW n \in DOMAIN config, Own(n)
      PROVE  env'[EnvName[n]] = Sprint(config[n])
  <2> DEFINE k == EnvName[n]
             ks == {EnvName[m] : m \in DOMAIN config} \cup secrets \cup {"PLUGIN_AUTH_TOKEN"}
  <2>1. k \in ks /\ k # "PLUGIN_AUTH_TOKEN" /\ k \notin secrets
    BY <1>4 DEF Own
  <2>2. last[k] = n
    BY <1>1, <1>4 DEF Own
  <2>3. Environment(last)[k] = Sprint(config[last[k]])
    BY <2>1 DEF Environment
  <2> QED
    BY <1>1, <2>2, <2>3
<1>5. Equipped'
  <2>1. ASSUME NEW n \in DOMAIN config', Own(n)'
        PROVE  env'[EnvName[n]] = Sprint(config'[n])
    <3>1. n \in DOMAIN config /\ Own(n) /\ config' = config
      BY <1>1, <2>1 DEF Own
    <3> QED
      BY <1>4, <3>1
  <2> QED
    BY <1>3, <2>1 DEF Equipped, Sprint
<1> QED
  BY <1>1, <1>5 DEF ConfigInv

LEMMA ConfigStep ==
  ASSUME ConfigInv, [ConfigNext]_configVars
  PROVE  ConfigInv'
<1>1. CASE UNCHANGED configVars
  <2>1. UNCHANGED <<stage, schema, config, secrets, memory, env, limit>>
    BY <1>1 DEF configVars
  <2>2. Equipped => Equipped'
    BY <2>1 DEF Equipped, Own
  <2> QED
    BY <2>1, <2>2 DEF ConfigInv
<1>2. ASSUME NEW s \in Schemas, NEW decl, NEW names, UpgradeConfig(s, decl, names)
      PROVE  ConfigInv'
  BY <1>2, RecordKeeps DEF UpgradeConfig, ConfigInv
<1> QED
  BY <1>1, <1>2, InstallKeeps, StartEquips DEF ConfigNext

LEMMA ConfigImplies ==
  ConfigInv => ConfigKept
<1> SUFFICES ASSUME ConfigInv
             PROVE  ConfigKept
  OBVIOUS
<1>1. ASSUME stage = "started", NEW n \in DOMAIN config, Own(n), Small(n)
      PROVE  env[EnvName[n]] = <<"plain", config[n][2]>>
  <2>1. env[EnvName[n]] = Sprint(config[n])
    BY <1>1 DEF ConfigInv, Equipped
  <2>2. CASE config[n][1] = "float64"
    <3>1. config[n][2] \in Int /\ config[n][2] < Exponential
      BY <1>1, <2>2 DEF ConfigInv, IntegralIn, Small, Number
    <3>2. ~(config[n][2] >= Exponential)
      BY <3>1, ConfigAssumption
    <3> QED
      BY <2>1, <3>2 DEF Sprint
  <2>3. CASE config[n][1] # "float64"
    BY <2>1, <2>3 DEF Sprint
  <2> QED
    BY <2>2, <2>3
<1> QED
  BY <1>1 DEF ConfigInv, Equipped, Settling, ConfigKept

LEMMA ConfigTyped ==
  ASSUME ConfigTypeOK, ConfigInv, [ConfigNext]_configVars
  PROVE  ConfigTypeOK'
<1>1. CASE UNCHANGED configVars
  BY <1>1 DEF configVars, ConfigTypeOK
<1>2. ASSUME NEW s \in Schemas, NEW decl \in Declarations, NEW values,
             NEW names \in SUBSET SecretNames, NEW ask \in Asks,
             RecordConfig(s, decl, values, names, ask), upgrades' \in Nat
      PROVE  ConfigTypeOK'
  <2>1. /\ stage' = "recorded" /\ schema' = s /\ declared' = decl /\ secrets' = names
        /\ config' = FromJSON(Resolved(s, values)) /\ memory' = ask /\ limit' = Ceiling
    BY <1>2 DEF RecordConfig
  <2>2. DOMAIN config' \subseteq DOMAIN s
    BY <2>1 DEF FromJSON, Resolved
  <2>3. Ceiling \in Int
    BY ConfigAssumption
  <2> QED
    BY <1>2, <2>1, <2>2, <2>3 DEF ConfigTypeOK
<1>3. ASSUME NEW s \in Schemas, NEW decl \in Declarations, NEW values \in Requests,
             NEW names \in SUBSET SecretNames, NEW ask \in Asks,
             InstallConfig(s, decl, values, names, ask)
      PROVE  ConfigTypeOK'
  <2>1. RecordConfig(s, decl, FromJSON(values), names, ask) /\ upgrades' \in Nat
    BY <1>3 DEF InstallConfig, ConfigTypeOK
  <2> QED
    BY <1>2, <2>1
<1>4. ASSUME NEW s \in Schemas, NEW decl \in Declarations, NEW names \in SUBSET SecretNames,
             UpgradeConfig(s, decl, names)
      PROVE  ConfigTypeOK'
  <2>1. /\ RecordConfig(s, decl, config, secrets \cup names, memory)
        /\ upgrades' = upgrades + 1
    BY <1>4 DEF UpgradeConfig
  <2>2. upgrades \in Nat /\ memory \in Asks /\ secrets \cup names \in SUBSET SecretNames
    BY DEF ConfigTypeOK
  <2>3. upgrades' \in Nat
    BY <2>1, <2>2
  <2> QED
    BY <1>2, <2>1, <2>2, <2>3
<1>5. ASSUME NEW last, StartInstance(last)
      PROVE  ConfigTypeOK'
  <2>1. /\ stage = "recorded" /\ stage' = "started" /\ limit' = Effective(memory)
        /\ UNCHANGED <<schema, declared, config, secrets, memory, upgrades>>
    BY <1>5 DEF StartInstance
  <2>2. MemoryValid(memory)
    BY <2>1 DEF ConfigInv
  <2>3. Effective(memory) \in Int
    BY <2>2, ConfigAssumption DEF Effective, MemoryValid
  <2> QED
    BY <2>1, <2>3 DEF ConfigTypeOK
<1> QED
  BY <1>1, <1>3, <1>4, <1>5 DEF ConfigNext

(* For any manifests, requests, upgrades and word size: a recorded         *)
(* configuration fits its manifest and resolves to itself, an instance     *)
(* gets every value of its own that is not printed with an exponent, and a *)
(* memory limit within bounds (install.go:203, lifecycle.go:37,            *)
(* manager.go:374).                                                        *)
THEOREM ConfigHolds == ConfigSpec => [](ConfigTypeOK /\ ConfigKept)
<1>1. ConfigInit => ConfigInv
  BY DEF ConfigInit, ConfigInv
<1>2. ConfigInv /\ [ConfigNext]_configVars => ConfigInv'
  BY ConfigStep
<1>3. ConfigInit => ConfigTypeOK
  <2>1. NoEntries \in [{} -> BOOLEAN]
    BY DEF NoEntries
  <2>2. NoEntries \in Declarations /\ DOMAIN NoEntries = {}
    BY <2>1 DEF Declarations
  <2> QED
    BY <2>2, ConfigAssumption DEF ConfigInit, ConfigTypeOK
<1>4. ConfigTypeOK /\ ConfigInv /\ [ConfigNext]_configVars => ConfigTypeOK'
  BY ConfigTyped
<1> QED
  BY <1>1, <1>2, <1>3, <1>4, ConfigImplies, PTL DEF ConfigSpec
-------------------------------------------------------------------------------
(***************************************************************************)
(* An instance is what was asked for, whole, and called once.  The start   *)
(* lock makes the starts follow one another; a stop, which takes no lock,  *)
(* marks the starts it overlaps, and a start that was not overlapped knows *)
(* at each step how far container, network and membership are.             *)
(***************************************************************************)

StartRecord ==
  [pc : StartSteps \cup {"idle", "ok", "failed"}, spec : Specs \cup {NoSpec},
   addr : Nat \cup {NoAddr}, overlapped : BOOLEAN]

(* One start at a time, and none that a stop did not mark is under way     *)
(* while the stop is; what was promised waits for neither.                 *)
OrderInv ==
  /\ \A s, t \in Starters : Holding(s) /\ Holding(t) => s = t
  /\ \A s \in Starters : Holding(s) => start[s].spec \in Specs /\ promised = NoSpec
  /\ stop # "idle" => promised = NoSpec
  /\ stop # "idle" => \A s \in Starters : Holding(s) => start[s].overlapped

(* From the run on, or the finding of one that fits, the container is the  *)
(* one the start asks for.                                                 *)
RequestedInv ==
  /\ \A s \in Starters :
       start[s].pc \in {"reuse", "join", "probe", "remember"} /\ ~start[s].overlapped =>
         container.spec = start[s].spec
  /\ promised # NoSpec => container.spec = promised

Whole ==
  /\ network <=> Exists
  /\ joined <=> Exists /\ ~publish

StartedSoFar(pc) ==
  /\ pc \in {"inspect", "reuse", "clear", "probe", "remember"} => Whole
  /\ pc \in {"clearNetwork", "undoNetwork"} => ~Exists
  /\ pc = "network" => ~Exists /\ ~network /\ ~joined
  /\ pc = "run" => ~Exists /\ network /\ ~joined
  /\ pc = "join" => Exists /\ network /\ ~joined

TidyInv ==
  ~untidy =>
    /\ stop # "idle" => \A s \in Starters : ~Holding(s)
    /\ stop = "network" => ~Exists
    /\ Quiet => Whole
    /\ \A s \in Starters : Holding(s) => StartedSoFar(start[s].pc)

(* A call is only sent again when it changes nothing.                      *)
ProxyInv ==
  /\ proxied.pc \in {"idle", "send"} => proxied.handled = 0
  /\ proxied.pc = "again" => proxied.get
  /\ ~proxied.get => proxied.handled <= 1

InstancesInv == InstancesTypeOK /\ OrderInv /\ RequestedInv /\ TidyInv /\ ProxyInv

LEMMA InstancesInitially ==
  InstancesInit => InstancesInv
<1> SUFFICES ASSUME InstancesInit
             PROVE  InstancesInv
  OBVIOUS
<1>1. /\ \A s \in Starters : start[s] = IdleStart /\ ~Holding(s)
      /\ ~Exists /\ ~network /\ ~joined /\ promised = NoSpec
  BY DEF InstancesInit, IdleStart, Holding, StartSteps, Exists, NoContainer
<1>2. InstancesTypeOK
  BY DEF InstancesInit, InstancesTypeOK, IdleStart, NoContainer, IdleProxy
<1>3. OrderInv /\ RequestedInv /\ TidyInv
  BY <1>1 DEF OrderInv, RequestedInv, TidyInv, Whole, IdleStart, InstancesInit
<1>4. ProxyInv
  BY DEF InstancesInit, ProxyInv, IdleProxy
<1> QED
  BY <1>2, <1>3, <1>4 DEF InstancesInv

-------------------------------------------------------------------------------
(* The steps of a start                                                    *)

StarterStep(s) ==
  \/ Inspect(s) \/ Reuse(s) \/ Clear(s) \/ CreateNetwork(s) \/ RunContainer(s)
  \/ JoinNetwork(s) \/ WaitHealthy(s) \/ Remember(s) \/ UndoStart(s)

(* A start goes on to pc with an address it has found, if any.             *)
GoesTo(s, pc) ==
  \E addr \in Nat \cup {NoAddr} :
    start' = [start EXCEPT ![s] = [@ EXCEPT !.pc = pc, !.addr = addr]]

LEMMA GoneTo ==
  ASSUME InstancesTypeOK, NEW s \in Starters, NEW pc \in StartSteps \cup {"ok", "failed"},
         GoesTo(s, pc)
  PROVE  /\ start' \in [Starters -> StartRecord]
         /\ start'[s].pc = pc
         /\ start'[s].spec = start[s].spec /\ start'[s].overlapped = start[s].overlapped
         /\ \A t \in Starters \ {s} : start'[t] = start[t]
<1>1. start \in [Starters -> StartRecord]
  BY DEF InstancesTypeOK, StartRecord
<1>2. PICK addr \in Nat \cup {NoAddr} :
        start' = [start EXCEPT ![s] = [@ EXCEPT !.pc = pc, !.addr = addr]]
  BY DEF GoesTo
<1> DEFINE r == [start[s] EXCEPT !.pc = pc, !.addr = addr]
<1>3. /\ r \in StartRecord /\ r.pc = pc /\ r.spec = start[s].spec
      /\ r.overlapped = start[s].overlapped
  BY <1>1 DEF StartRecord
<1>4. start' = [start EXCEPT ![s] = r]
  BY <1>1, <1>2
<1> HIDE DEF r
<1> QED
  BY <1>1, <1>3, <1>4

LEMMA GotoGoes ==
  ASSUME InstancesTypeOK, NEW s \in Starters, NEW pc, Goto(s, pc)
  PROVE  GoesTo(s, pc)
<1>1. start \in [Starters -> StartRecord] /\ start[s].addr \in Nat \cup {NoAddr}
  BY DEF InstancesTypeOK, StartRecord
<1>2. start' = [start EXCEPT ![s] = [@ EXCEPT !.pc = pc, !.addr = start[s].addr]]
  BY <1>1 DEF Goto, StartRecord
<1> QED
  BY <1>1, <1>2 DEF GoesTo

LEMMA FindsAddress ==
  ASSUME InstancesTypeOK, NEW s \in Starters, NEW pc,
         start' = [start EXCEPT ![s].pc = pc, ![s].addr = Address]
  PROVE  GoesTo(s, pc)
<1>1. start \in [Starters -> StartRecord] /\ Address \in Nat
  BY DEF InstancesTypeOK, StartRecord, Address
<1>2. start' = [start EXCEPT ![s] = [@ EXCEPT !.pc = pc, !.addr = Address]]
  BY <1>1
<1> QED
  BY <1>1, <1>2 DEF GoesTo
Container == [spec : Specs \cup {NoSpec}, up : BOOLEAN, host : Nat]

RuntimeTypes ==
  /\ container \in Container
  /\ network \in BOOLEAN /\ joined \in BOOLEAN
  /\ known \in Nat \cup {NoAddr}
  /\ instanceSpent \in [InstanceEvents -> Nat]
  /\ untidy \in BOOLEAN

Fitting == {"reuse", "join", "probe", "remember"}

(* What a step of a start that leads to pc does.                           *)
Advanced(s, pc) ==
  /\ pc \in StartSteps \cup {"ok", "failed"}
  /\ Holding(s) /\ GoesTo(s, pc)
  /\ UNCHANGED <<publish, stop, proxied>>
  /\ RuntimeTypes'
  /\ untidy => untidy'
  /\ \/ promised' = promised
     \/ /\ pc = "ok" /\ start[s].pc = "remember" /\ UNCHANGED container
        /\ promised' = IF start[s].overlapped THEN NoSpec ELSE start[s].spec
  /\ pc \in Fitting =>
       \/ container'.spec = start[s].spec
       \/ start[s].pc \in Fitting /\ UNCHANGED container
  /\ ~untidy' /\ StartedSoFar(start[s].pc) =>
       IF pc \in StartSteps THEN StartedSoFar(pc)' ELSE Whole'

LEMMA SpendTypes ==
  ASSUME InstancesTypeOK, NEW e \in InstanceEvents, SpendInstance(e)
  PROVE  instanceSpent' \in [InstanceEvents -> Nat]
  BY DEF InstancesTypeOK, SpendInstance

LEMMA SmoothOrMishap ==
  ASSUME InstancesTypeOK, Smooth \/ Mishap
  PROVE  /\ instanceSpent' \in [InstanceEvents -> Nat] /\ untidy' \in BOOLEAN
         /\ untidy => untidy'
         /\ Mishap => untidy'
<1>1. CASE Smooth
  BY <1>1 DEF Smooth, Mishap, InstancesTypeOK
<1>2. CASE Mishap
  BY <1>2, SpendTypes DEF Mishap, InstanceEvents
<1> QED
  BY <1>1, <1>2

LEMMA ContainerTypes ==
  ASSUME InstancesTypeOK
  PROVE  /\ container \in Container
         /\ [NoContainer EXCEPT !.host = container.host] \in Container
         /\ [NoContainer EXCEPT !.host = container.host].spec = NoSpec
         /\ \A spec \in Specs :
              /\ DockerRun(spec) \in Container /\ DockerRun(spec).spec = spec
              /\ [DockerRun(spec) EXCEPT !.up = FALSE] \in Container
<1>1. container \in Container /\ container.host \in Nat /\ NextHost \in Nat
  BY DEF InstancesTypeOK, Container, NextHost
<1> QED
  BY <1>1 DEF Container, NoContainer, DockerRun

LEMMA Removing ==
  ASSUME InstancesTypeOK
  PROVE  /\ RemoveContainer =>
              /\ RuntimeTypes' \/ known' \notin Nat \cup {NoAddr}
              /\ UNCHANGED <<network, joined>> /\ (untidy => untidy')
              /\ ~untidy' => container'.spec = NoSpec
         /\ RemoveNetwork =>
              /\ RuntimeTypes' \/ known' \notin Nat \cup {NoAddr}
              /\ UNCHANGED container /\ (untidy => untidy')
              /\ ~untidy' => ~joined' /\ network' = (network /\ Exists)
<1>1. ASSUME RemoveContainer
      PROVE  /\ container' \in Container /\ network' \in BOOLEAN /\ joined' \in BOOLEAN
             /\ instanceSpent' \in [InstanceEvents -> Nat] /\ untidy' \in BOOLEAN
             /\ UNCHANGED <<network, joined>> /\ (untidy => untidy')
             /\ ~untidy' => container'.spec = NoSpec
  BY <1>1, ContainerTypes, SmoothOrMishap DEF RemoveContainer, InstancesTypeOK
<1>2. ASSUME RemoveNetwork
      PROVE  /\ container' \in Container /\ network' \in BOOLEAN /\ joined' \in BOOLEAN
             /\ instanceSpent' \in [InstanceEvents -> Nat] /\ untidy' \in BOOLEAN
             /\ UNCHANGED container /\ (untidy => untidy')
             /\ ~untidy' => ~joined' /\ network' = (network /\ Exists)
  BY <1>2, ContainerTypes, SmoothOrMishap DEF RemoveNetwork, InstancesTypeOK
<1> QED
  BY <1>1, <1>2 DEF RuntimeTypes

LEMMA StarterAdvances ==
  ASSUME InstancesTypeOK, NEW s \in Starters, start[s].spec \in Specs, StarterStep(s)
  PROVE  \E pc : Advanced(s, pc)
<1>1. /\ container \in Container /\ network \in BOOLEAN /\ joined \in BOOLEAN
      /\ known \in Nat \cup {NoAddr} /\ start \in [Starters -> StartRecord]
      /\ publish \in BOOLEAN /\ untidy \in BOOLEAN
  BY DEF InstancesTypeOK, Container, StartRecord
<1>2. CASE Inspect(s)
  <2>1. UNCHANGED <<known, container, network, joined, promised, publish, stop, proxied>>
    BY <1>2 DEF Inspect, dockerVars, StartUnchanged
  <2>2. PICK pc \in {"network", "reuse", "clear", "failed"} :
          /\ Goto(s, pc) /\ (Smooth \/ Mishap) /\ At(s, "inspect")
          /\ pc = "failed" => untidy'
          /\ pc = "network" => ~Exists
          /\ pc = "reuse" => SameHash(s)
    BY <1>2, SmoothOrMishap DEF Inspect
  <2>3. RuntimeTypes' /\ (untidy => untidy') /\ GoesTo(s, pc)
    BY <1>1, <2>1, <2>2, SmoothOrMishap, GotoGoes DEF RuntimeTypes
  <2>4. ~untidy' /\ StartedSoFar("inspect") => pc \in StartSteps /\ StartedSoFar(pc)'
    BY <1>1, <2>1, <2>2 DEF StartedSoFar, Whole, Exists, StartSteps
  <2> QED
    BY <2>1, <2>2, <2>3, <2>4 DEF Advanced, At, Holding, StartSteps, Fitting, SameHash
<1>3. CASE Reuse(s)
  <2>1. UNCHANGED <<known, container, network, joined, promised, publish, stop, proxied>>
    BY <1>3 DEF Reuse, dockerVars, StartUnchanged
  <2>2. PICK pc \in {"remember", "clear"} :
          GoesTo(s, pc) /\ (Smooth \/ Mishap) /\ At(s, "reuse")
    BY <1>3, GotoGoes, FindsAddress DEF Reuse
  <2>3. RuntimeTypes' /\ (untidy => untidy')
    BY <1>1, <2>1, <2>2, SmoothOrMishap DEF RuntimeTypes
  <2>4. StartedSoFar("reuse") => StartedSoFar(pc)'
    BY <1>1, <2>1, <2>2 DEF StartedSoFar, Whole, Exists
  <2> QED
    BY <2>1, <2>2, <2>3, <2>4 DEF Advanced, At, Holding, StartSteps, Fitting
<1>4. CASE WaitHealthy(s)
  <2>1. UNCHANGED <<known, container, network, joined, promised, publish, stop, proxied>>
    BY <1>4 DEF WaitHealthy, dockerVars, StartUnchanged
  <2>2. PICK pc \in {"remember", "undo"} :
          GoesTo(s, pc) /\ (Smooth \/ Mishap) /\ At(s, "probe")
    BY <1>4, GotoGoes, FindsAddress DEF WaitHealthy
  <2>3. RuntimeTypes' /\ (untidy => untidy')
    BY <1>1, <2>1, <2>2, SmoothOrMishap DEF RuntimeTypes
  <2>4. StartedSoFar("probe") => StartedSoFar(pc)'
    BY <1>1, <2>1, <2>2 DEF StartedSoFar, Whole, Exists
  <2> QED
    BY <2>1, <2>2, <2>3, <2>4 DEF Advanced, At, Holding, StartSteps, Fitting
<1>5. CASE Clear(s) \/ UndoStart(s)
  <2>1. UNCHANGED <<known, promised, publish, stop, proxied>>
    BY <1>5 DEF Clear, UndoStart, StartUnchanged
  <2>2. CASE RemoveContainer /\ \/ At(s, "clear") /\ Goto(s, "clearNetwork")
                                \/ At(s, "undo") /\ Goto(s, "undoNetwork")
    <3>1. PICK pc \in {"clearNetwork", "undoNetwork"} :
            Goto(s, pc) /\ start[s].pc \in {"clear", "undo"}
      BY <2>2 DEF At
    <3>2. RuntimeTypes' /\ (untidy => untidy') /\ (~untidy' => ~Exists')
      BY <1>1, <2>1, <2>2, Removing DEF Exists
    <3> QED
      BY <2>1, <3>1, <3>2, GotoGoes DEF Advanced, Holding, StartSteps, Fitting, StartedSoFar
  <2>3. CASE RemoveNetwork /\ At(s, "clearNetwork") /\ Goto(s, "network")
    <3>1. /\ RuntimeTypes' /\ (untidy => untidy') /\ UNCHANGED container
          /\ ~untidy' => ~joined' /\ network' = (network /\ Exists)
      BY <1>1, <2>1, <2>3, Removing
    <3> QED
      BY <2>1, <2>3, <3>1, GotoGoes
         DEF Advanced, At, Holding, StartSteps, Fitting, StartedSoFar, Exists
  <2>4. CASE RemoveNetwork /\ At(s, "undoNetwork") /\ Goto(s, "failed")
    <3>1. /\ RuntimeTypes' /\ (untidy => untidy') /\ UNCHANGED container
          /\ ~untidy' => ~joined' /\ network' = (network /\ Exists)
      BY <1>1, <2>1, <2>4, Removing
    <3>2. ~untidy' /\ StartedSoFar("undoNetwork") => Whole'
      BY <3>1 DEF StartedSoFar, Exists, Whole
    <3>3. start[s].pc = "undoNetwork" /\ "failed" \notin StartSteps
      BY <2>4 DEF At, StartSteps
    <3> QED
      BY <2>1, <2>4, <3>1, <3>2, <3>3, GotoGoes DEF Advanced, Holding, StartSteps, Fitting
  <2> QED
    BY <1>5, <2>2, <2>3, <2>4 DEF Clear, UndoStart
<1>6. CASE CreateNetwork(s)
  <2>1. /\ UNCHANGED <<known, container, joined, promised, publish, stop, proxied>>
        /\ network' \in BOOLEAN
    BY <1>1, <1>6 DEF CreateNetwork, StartUnchanged
  <2>2. PICK pc \in {"run", "undo"} :
          /\ Goto(s, pc) /\ (Smooth \/ Mishap) /\ At(s, "network")
          /\ pc = "undo" => untidy'
          /\ pc = "run" => network'
    BY <1>6, SmoothOrMishap DEF CreateNetwork
  <2>3. RuntimeTypes' /\ (untidy => untidy') /\ GoesTo(s, pc)
    BY <1>1, <2>1, <2>2, SmoothOrMishap, GotoGoes DEF RuntimeTypes
  <2>4. ~untidy' /\ StartedSoFar("network") => StartedSoFar(pc)'
    BY <1>1, <2>1, <2>2 DEF StartedSoFar, Whole, Exists
  <2> QED
    BY <2>1, <2>2, <2>3, <2>4 DEF Advanced, At, Holding, StartSteps, Fitting
<1>7. CASE RunContainer(s)
  <2>1. UNCHANGED <<known, network, joined, promised, publish, stop, proxied>>
    BY <1>7 DEF RunContainer, StartUnchanged
  <2>2. PICK pc \in {"join", "undo"} :
          /\ Goto(s, pc) /\ (Smooth \/ Mishap) /\ At(s, "run")
          /\ container' \in Container
          /\ pc = "undo" => untidy' \/ Exists \/ ~network
          /\ pc = "join" => container'.spec = start[s].spec
    BY <1>1, <1>7, SmoothOrMishap, ContainerTypes DEF RunContainer
  <2>3. RuntimeTypes' /\ (untidy => untidy') /\ GoesTo(s, pc)
    BY <1>1, <2>1, <2>2, SmoothOrMishap, GotoGoes DEF RuntimeTypes
  <2>4. ~untidy' /\ StartedSoFar("run") => StartedSoFar(pc)'
    <3>1. start[s].spec # NoSpec
      BY InstancesAssumption
    <3> QED
      BY <1>1, <2>1, <2>2, <3>1 DEF StartedSoFar, Exists
  <2> QED
    BY <2>1, <2>2, <2>3, <2>4 DEF Advanced, At, Holding, StartSteps, Fitting
<1>8. CASE JoinNetwork(s)
  <2>1. UNCHANGED <<known, container, network, promised, publish, stop, proxied>>
    BY <1>8 DEF JoinNetwork, StartUnchanged
  <2>2. PICK pc \in {"probe", "undo"} :
          /\ Goto(s, pc) /\ (Smooth \/ Mishap) /\ At(s, "join")
          /\ joined' \in BOOLEAN
          /\ pc = "undo" => untidy' \/ ~network
          /\ pc = "probe" => IF publish THEN joined' = joined ELSE joined' = network
    BY <1>1, <1>8, SmoothOrMishap DEF JoinNetwork
  <2>3. RuntimeTypes' /\ (untidy => untidy') /\ GoesTo(s, pc)
    BY <1>1, <2>1, <2>2, SmoothOrMishap, GotoGoes DEF RuntimeTypes
  <2>4. ~untidy' /\ StartedSoFar("join") => StartedSoFar(pc)'
    BY <1>1, <2>1, <2>2 DEF StartedSoFar, Exists, Whole
  <2> QED
    BY <2>1, <2>2, <2>3, <2>4 DEF Advanced, At, Holding, StartSteps, Fitting
<1>9. CASE Remember(s)
  <2>1. /\ UNCHANGED <<container, network, joined, instanceSpent, untidy, publish, stop, proxied>>
        /\ At(s, "remember") /\ Goto(s, "ok") /\ known' \in Nat \cup {NoAddr}
        /\ promised' = IF start[s].overlapped THEN NoSpec ELSE start[s].spec
    BY <1>1, <1>9 DEF Remember, dockerVars, StartUnchanged, StartRecord
  <2>2. RuntimeTypes' /\ (StartedSoFar("remember") => Whole')
    BY <1>1, <2>1 DEF RuntimeTypes, InstancesTypeOK, StartedSoFar, Whole, Exists
  <2> QED
    BY <2>1, <2>2, GotoGoes DEF Advanced, At, Holding, StartSteps, Fitting
<1> QED
  BY <1>2, <1>3, <1>4, <1>5, <1>6, <1>7, <1>8, <1>9 DEF StarterStep
(* A step of a start keeps the invariant: no other start is under way, and *)
(* if a stop is, the start is marked.                                      *)
LEMMA StarterKeeps ==
  ASSUME InstancesInv, NEW s \in Starters, StarterStep(s)
  PROVE  InstancesInv'
<1>1. Holding(s)
  BY DEF StarterStep, Inspect, Reuse, Clear, CreateNetwork, RunContainer, JoinNetwork,
     WaitHealthy, Remember, UndoStart, At, Holding, StartSteps
<1>2. /\ start[s].spec \in Specs /\ promised = NoSpec
      /\ \A t \in Starters \ {s} : ~Holding(t)
      /\ start \in [Starters -> StartRecord]
  BY <1>1 DEF InstancesInv, OrderInv, InstancesTypeOK, StartRecord
<1>3. PICK pc : Advanced(s, pc)
  BY <1>2, StarterAdvances DEF InstancesInv
<1>4. /\ pc \in StartSteps \cup {"ok", "failed"} /\ GoesTo(s, pc)
      /\ UNCHANGED <<publish, stop, proxied>> /\ RuntimeTypes' /\ (untidy => untidy')
  BY <1>3 DEF Advanced
<1>5. /\ start' \in [Starters -> StartRecord]
      /\ start'[s].pc = pc /\ start'[s].spec = start[s].spec
      /\ start'[s].overlapped = start[s].overlapped
      /\ \A t \in Starters \ {s} : start'[t] = start[t]
  BY <1>4, GoneTo DEF InstancesInv
<1>6. /\ \A t \in Starters \ {s} : ~Holding(t)'
      /\ Holding(s)' <=> pc \in StartSteps
      /\ \A t \in Starters : Holding(t)' => t = s
  BY <1>2, <1>5 DEF Holding
<1>7. \/ promised' = NoSpec
      \/ /\ pc = "ok" /\ start[s].pc = "remember" /\ UNCHANGED container
         /\ ~start[s].overlapped /\ promised' = start[s].spec
  BY <1>2, <1>3 DEF Advanced
<1>8. InstancesTypeOK'
  <2>1. promised' \in Specs \cup {NoSpec}
    BY <1>2, <1>7
  <2> QED
    BY <1>4, <1>5, <2>1 DEF InstancesInv, InstancesTypeOK, RuntimeTypes, Container, StartRecord
<1>9. OrderInv'
  <2>1. stop # "idle" => start[s].overlapped
    BY <1>1 DEF InstancesInv, OrderInv
  <2>2. pc \in StartSteps => promised' = NoSpec
    BY <1>7 DEF StartSteps
  <2>3. stop' = stop
    BY <1>4
  <2> QED
    BY <1>2, <1>5, <1>6, <1>7, <2>1, <2>2, <2>3 DEF OrderInv
<1>10. RequestedInv'
  <2>1. pc \in Fitting /\ ~start[s].overlapped => container'.spec = start[s].spec
    BY <1>3 DEF Advanced, InstancesInv, RequestedInv, Fitting
  <2>2. \A t \in Starters : start'[t].pc \in Fitting => t = s
    BY <1>6 DEF Holding, Fitting, StartSteps
  <2>3. promised' # NoSpec => container'.spec = promised'
    BY <1>7 DEF InstancesInv, RequestedInv
  <2> QED
    BY <1>5, <2>1, <2>2, <2>3 DEF RequestedInv, Fitting
<1>11. TidyInv'
  <2> SUFFICES ASSUME ~untidy'
               PROVE  /\ stop' # "idle" => \A t \in Starters : ~Holding(t)'
                      /\ stop' = "network" => ~Exists'
                      /\ Quiet' => Whole'
                      /\ \A t \in Starters : \A q \in StartSteps :
                           start'[t].pc = q => StartedSoFar(q)'
    BY DEF TidyInv, Holding, StartedSoFar
  <2>1. ~untidy /\ stop = "idle" /\ StartedSoFar(start[s].pc)
    BY <1>1, <1>4 DEF InstancesInv, TidyInv
  <2>2. IF pc \in StartSteps THEN StartedSoFar(pc)' ELSE Whole'
    BY <1>3, <2>1 DEF Advanced
  <2>3. Quiet' => pc \notin StartSteps
    BY <1>6 DEF Quiet
  <2>4. ASSUME NEW t \in Starters, NEW q \in StartSteps, start'[t].pc = q
        PROVE  StartedSoFar(q)'
    <3>1. q = pc
      BY <1>5, <1>6, <2>4 DEF Holding
    <3>2. StartedSoFar(pc)'
      BY <2>2, <3>1
    <3> QED
      BY <3>1, <3>2 DEF StartedSoFar
  <2> QED
    BY <1>4, <2>1, <2>2, <2>3, <2>4
<1>12. ProxyInv'
  BY <1>4 DEF InstancesInv, ProxyInv
<1> QED
  BY <1>8, <1>9, <1>10, <1>11, <1>12 DEF InstancesInv

LEMMA BeginKeeps ==
  ASSUME InstancesInv, NEW s \in Starters, NEW spec \in Specs, BeginStart(s, spec)
  PROVE  InstancesInv'
<1> DEFINE r == [start[s] EXCEPT !.pc = "inspect", !.spec = spec, !.overlapped = stop # "idle"]
<1>1. /\ \A t \in Starters : ~Holding(t)
      /\ start' = [start EXCEPT ![s] = r]
      /\ promised' = NoSpec /\ untidy' = (untidy \/ stop # "idle")
      /\ UNCHANGED <<known, container, network, joined, instanceSpent, publish, stop, proxied>>
  BY DEF BeginStart, StartUnchanged, dockerVars
<1>2. start \in [Starters -> StartRecord]
  BY DEF InstancesInv, InstancesTypeOK, StartRecord
<1>3. /\ r \in StartRecord /\ r.pc = "inspect" /\ r.spec = spec
      /\ r.overlapped = (stop # "idle")
  BY <1>2 DEF StartRecord, StartSteps
<1> HIDE DEF r
<1>4. /\ start' \in [Starters -> StartRecord] /\ start'[s] = r
      /\ \A t \in Starters \ {s} : start'[t] = start[t]
  BY <1>1, <1>2, <1>3
<1>5. /\ Holding(s)' /\ \A t \in Starters \ {s} : ~Holding(t)'
      /\ ~Quiet'
  BY <1>1, <1>3, <1>4 DEF Holding, StartSteps, Quiet
<1>6. InstancesTypeOK'
  BY <1>1, <1>4 DEF InstancesInv, InstancesTypeOK, StartRecord
<1>7. OrderInv' /\ RequestedInv'
  <2>1. \A t \in Starters : start'[t].pc \notin Fitting
    BY <1>3, <1>4, <1>5 DEF Holding, Fitting, StartSteps
  <2> QED
    BY <1>1, <1>3, <1>4, <1>5, <2>1 DEF OrderInv, RequestedInv, Fitting
<1>8. TidyInv'
  <2> SUFFICES ASSUME ~untidy'
               PROVE  /\ stop' # "idle" => \A t \in Starters : ~Holding(t)'
                      /\ stop' = "network" => ~Exists'
                      /\ Quiet' => Whole'
                      /\ \A t \in Starters : \A q \in StartSteps :
                           start'[t].pc = q => StartedSoFar(q)'
    BY DEF TidyInv, Holding, StartedSoFar
  <2>1. ~untidy /\ stop = "idle" /\ stop' = "idle" /\ Quiet
    BY <1>1 DEF Quiet
  <2>2. Whole /\ Whole'
    BY <1>1, <2>1 DEF InstancesInv, TidyInv, Whole, Exists
  <2>3. ASSUME NEW t \in Starters, NEW q \in StartSteps, start'[t].pc = q
        PROVE  StartedSoFar(q)'
    <3>1. q = "inspect"
      BY <1>3, <1>4, <1>5, <2>3 DEF Holding
    <3> QED
      BY <2>2, <3>1 DEF StartedSoFar
  <2> QED
    BY <1>5, <2>1, <2>3
<1>9. ProxyInv'
  BY <1>1 DEF InstancesInv, ProxyInv
<1> QED
  BY <1>6, <1>7, <1>8, <1>9 DEF InstancesInv

-------------------------------------------------------------------------------
(* Stops, proxied calls, and what happens by itself                        *)

LEMMA BeginStopKeeps ==
  ASSUME InstancesInv, BeginStop
  PROVE  InstancesInv'
<1>1. /\ stop = "idle" /\ stop' = "remove" /\ promised' = NoSpec /\ known' = NoAddr
      /\ start' = [s \in Starters |-> [start[s] EXCEPT !.overlapped = @ \/ Holding(s)]]
      /\ untidy' = (untidy \/ ~Quiet) /\ SpendInstance("stop")
      /\ UNCHANGED <<publish, container, network, joined, proxied>>
  BY DEF BeginStop, dockerVars
<1>2. start \in [Starters -> StartRecord]
  BY DEF InstancesInv, InstancesTypeOK, StartRecord
<1>3. /\ start' \in [Starters -> StartRecord]
      /\ \A s \in Starters : /\ start'[s].pc = start[s].pc /\ start'[s].spec = start[s].spec
                             /\ start'[s].overlapped <=> start[s].overlapped \/ Holding(s)
  <2> SUFFICES ASSUME NEW s \in Starters
               PROVE  /\ start'[s] \in StartRecord
                      /\ start'[s].pc = start[s].pc /\ start'[s].spec = start[s].spec
                      /\ start'[s].overlapped <=> start[s].overlapped \/ Holding(s)
    BY <1>1
  <2>1. start'[s] = [start[s] EXCEPT !.overlapped = @ \/ Holding(s)]
    BY <1>1
  <2>2. start[s] \in StartRecord /\ Holding(s) \in BOOLEAN
    BY <1>2 DEF Holding
  <2> QED
    BY <2>1, <2>2 DEF StartRecord
<1>4. \A s \in Starters : Holding(s)' = Holding(s)
  BY <1>3 DEF Holding
<1>5. InstancesTypeOK'
  <2>1. instanceSpent' \in [InstanceEvents -> Nat] /\ Quiet \in BOOLEAN
    BY <1>1, SpendTypes DEF InstanceEvents, InstancesInv, Quiet
  <2> QED
    BY <1>1, <1>3, <2>1 DEF InstancesInv, InstancesTypeOK, StartRecord
<1>6. OrderInv'
  BY <1>1, <1>3, <1>4 DEF InstancesInv, OrderInv
<1>7. RequestedInv'
  BY <1>1, <1>3 DEF InstancesInv, RequestedInv
<1>8. TidyInv'
  BY <1>1, <1>4 DEF InstancesInv, TidyInv, Quiet
<1>9. ProxyInv'
  BY <1>1 DEF InstancesInv, ProxyInv
<1> QED
  BY <1>5, <1>6, <1>7, <1>8, <1>9 DEF InstancesInv

LEMMA StopKeeps ==
  ASSUME InstancesInv, StopRemove
  PROVE  InstancesInv'
<1>1. /\ UNCHANGED <<publish, known, start, proxied, promised>>
      /\ \/ stop = "remove" /\ RemoveContainer /\ stop' = "network"
         \/ stop = "network" /\ RemoveNetwork /\ stop' = "idle"
  BY DEF StopRemove
<1>2. known \in Nat \cup {NoAddr}
  BY DEF InstancesInv, InstancesTypeOK
<1>3. RuntimeTypes' /\ (untidy => untidy')
  BY <1>1, <1>2, Removing DEF InstancesInv
<1>4. \A s \in Starters : Holding(s)' = Holding(s)
  BY <1>1 DEF Holding
<1>5. stop # "idle" /\ promised = NoSpec
  BY <1>1 DEF InstancesInv, OrderInv
<1>6. InstancesTypeOK'
  BY <1>1, <1>3 DEF InstancesInv, InstancesTypeOK, RuntimeTypes, Container
<1>7. OrderInv' /\ RequestedInv'
  <2>1. \A s \in Starters : start[s].pc \in Fitting => start[s].overlapped
    BY <1>5 DEF InstancesInv, OrderInv, Holding, Fitting, StartSteps
  <2> QED
    BY <1>1, <1>4, <1>5, <2>1 DEF InstancesInv, OrderInv, RequestedInv, Fitting
<1>8. TidyInv'
  <2> SUFFICES ASSUME ~untidy'
               PROVE  /\ \A t \in Starters : ~Holding(t)'
                      /\ stop' = "network" => ~Exists'
                      /\ Quiet' => Whole'
    BY DEF TidyInv
  <2>1. ~untidy /\ (\A t \in Starters : ~Holding(t)) /\ (stop = "network" => ~Exists)
    BY <1>3, <1>5 DEF InstancesInv, TidyInv
  <2>2. CASE stop = "remove" /\ RemoveContainer /\ stop' = "network"
    <3>1. ~Exists'
      BY <2>2, Removing DEF InstancesInv, Exists
    <3> QED
      BY <1>4, <2>1, <2>2, <3>1 DEF Quiet
  <2>3. CASE stop = "network" /\ RemoveNetwork /\ stop' = "idle"
    <3>1. UNCHANGED container /\ ~joined' /\ network' = (network /\ Exists)
      BY <2>3, Removing DEF InstancesInv
    <3>2. Whole'
      BY <2>1, <2>3, <3>1 DEF Whole, Exists
    <3> QED
      BY <1>4, <2>1, <2>3, <3>2
  <2> QED
    BY <1>1, <2>2, <2>3
<1>9. ProxyInv'
  BY <1>1 DEF InstancesInv, ProxyInv
<1> QED
  BY <1>6, <1>7, <1>8, <1>9 DEF InstancesInv

(* The steps of a proxied call leave the runtime, starts and stops alone.  *)
LEMMA ProxyKeeps ==
  ASSUME InstancesInv, (\E get \in BOOLEAN : Lookup(get)) \/ Send \/ EndProxy
  PROVE  InstancesInv'
<1>1. /\ UNCHANGED <<publish, container, network, joined, start, stop, promised, untidy>>
      /\ instanceSpent \in [InstanceEvents -> Nat] /\ known \in Nat \cup {NoAddr}
      /\ proxied \in [pc : {"idle", "send", "again", "ok", "failed"}, get : BOOLEAN,
                      addr : Nat \cup {NoAddr}, handled : Nat]
      /\ Address \in Nat
  BY DEF Lookup, Send, EndProxy, ProxyUnchanged, dockerVars, InstancesInv, InstancesTypeOK,
     Address
<1>2. /\ proxied' \in [pc : {"idle", "send", "again", "ok", "failed"}, get : BOOLEAN,
                       addr : Nat \cup {NoAddr}, handled : Nat]
      /\ instanceSpent' \in [InstanceEvents -> Nat] /\ known' \in Nat \cup {NoAddr}
      /\ ProxyInv'
  <2>1. ASSUME NEW get \in BOOLEAN, Lookup(get)
        PROVE  /\ proxied' \in [pc : {"idle", "send", "again", "ok", "failed"}, get : BOOLEAN,
                               addr : Nat \cup {NoAddr}, handled : Nat]
               /\ instanceSpent' \in [InstanceEvents -> Nat] /\ known' \in Nat \cup {NoAddr}
               /\ ProxyInv'
    <3>1. proxied' = [pc |-> IF known = NoAddr THEN "failed" ELSE "send", get |-> get,
                      addr |-> known, handled |-> 0]
      BY <2>1 DEF Lookup, IdleProxy
    <3>2. UNCHANGED known /\ instanceSpent' \in [InstanceEvents -> Nat]
      BY <2>1, SpendTypes DEF Lookup, InstancesInv, InstanceEvents
    <3> QED
      BY <1>1, <3>1, <3>2 DEF ProxyInv
  <2>2. CASE Send
    <3> DEFINE n == IF Reachable(proxied.addr) THEN 1 ELSE 0
               after(pc) == [proxied EXCEPT !.pc = pc, !.handled = @ + n]
    <3>1. /\ proxied.pc \in {"send", "again"}
          /\ \/ proxied' = after("ok") /\ UNCHANGED <<known, instanceSpent>>
             \/ /\ UNCHANGED instanceSpent \/ SpendInstance("mishap")
                /\ \/ proxied' = after("failed") /\ UNCHANGED known
                   \/ /\ proxied.pc = "send" /\ proxied.get
                      /\ known' = Address
                      /\ proxied' = [after("again") EXCEPT !.addr = Address]
      BY <2>2 DEF Send
    <3>2. instanceSpent' \in [InstanceEvents -> Nat] /\ known' \in Nat \cup {NoAddr}
      BY <1>1, <3>1, SpendTypes DEF InstancesInv, InstanceEvents
    <3>3. n \in {0, 1}
      OBVIOUS
    <3> HIDE DEF n
    <3>4. /\ proxied'.pc \in {"again", "ok", "failed"} /\ proxied'.get = proxied.get
          /\ proxied'.handled = proxied.handled + n
          /\ proxied'.pc = "again" => proxied.get
          /\ proxied' \in [pc : {"idle", "send", "again", "ok", "failed"}, get : BOOLEAN,
                           addr : Nat \cup {NoAddr}, handled : Nat]
      <4>1. proxied.handled + n \in Nat
        BY <1>1, <3>3
      <4>2. CASE \/ proxied' = after("ok")
                 \/ proxied' = after("failed")
        BY <1>1, <4>1, <4>2
      <4>3. CASE /\ proxied.get
                 /\ proxied' = [after("again") EXCEPT !.addr = Address]
        BY <1>1, <4>1, <4>3
      <4> QED
        BY <3>1, <4>2, <4>3
    <3>5. ~proxied.get => proxied.pc = "send" /\ proxied.handled = 0
      BY <3>1 DEF InstancesInv, ProxyInv
    <3>6. ProxyInv'
      BY <1>1, <3>3, <3>4, <3>5 DEF ProxyInv
    <3> QED
      BY <3>2, <3>4, <3>6
  <2>3. CASE EndProxy
    BY <1>1, <2>3 DEF EndProxy, IdleProxy, ProxyInv
  <2> QED
    BY <2>1, <2>2, <2>3
<1>3. InstancesTypeOK'
  BY <1>1, <1>2 DEF InstancesInv, InstancesTypeOK
<1>4. OrderInv' /\ RequestedInv'
  BY <1>1 DEF InstancesInv, OrderInv, RequestedInv, Holding
<1>5. TidyInv'
  BY <1>1 DEF InstancesInv, TidyInv, Holding, Quiet, Whole, Exists, StartedSoFar
<1> QED
  BY <1>2, <1>3, <1>4, <1>5 DEF InstancesInv

(* A container that ends or comes up again is still the same container.    *)
LEMMA RuntimeKeeps ==
  ASSUME InstancesInv, ContainerEnds \/ ContainerRestarts
  PROVE  InstancesInv'
<1>1. /\ UNCHANGED <<publish, known, network, joined, start, stop, proxied, promised, untidy>>
      /\ container \in Container /\ NextHost \in Nat
  BY DEF ContainerEnds, ContainerRestarts, InstancesInv, InstancesTypeOK, Container, NextHost
<1>2. container' \in Container /\ container'.spec = container.spec
  <2>1. CASE ContainerEnds
    BY <1>1, <2>1 DEF ContainerEnds, Container
  <2>2. CASE ContainerRestarts
    <3>1. container' = [container EXCEPT !.up = TRUE, !.host = NextHost]
      BY <2>2 DEF ContainerRestarts
    <3> QED
      BY <1>1, <3>1 DEF Container
  <2> QED
    BY <2>1, <2>2
<1>3. instanceSpent' \in [InstanceEvents -> Nat]
  <2>1. CASE ContainerEnds
    BY <2>1, SpendTypes DEF ContainerEnds, InstancesInv, InstanceEvents
  <2>2. CASE ContainerRestarts
    BY <2>2 DEF ContainerRestarts, InstancesInv, InstancesTypeOK
  <2> QED
    BY <2>1, <2>2
<1>4. InstancesTypeOK'
  BY <1>1, <1>2, <1>3 DEF InstancesInv, InstancesTypeOK, Container
<1>5. OrderInv' /\ RequestedInv'
  BY <1>1, <1>2 DEF InstancesInv, OrderInv, RequestedInv, Holding
<1>6. TidyInv'
  BY <1>1, <1>2 DEF InstancesInv, TidyInv, Holding, Quiet, Whole, Exists, StartedSoFar
<1>7. ProxyInv'
  BY <1>1 DEF InstancesInv, ProxyInv
<1> QED
  BY <1>4, <1>5, <1>6, <1>7 DEF InstancesInv

(* A restart of the controller cuts the calls; it is only tidy when there  *)
(* were none.                                                              *)
LEMMA RestartKeeps ==
  ASSUME InstancesInv, RestartController
  PROVE  InstancesInv'
<1>1. /\ UNCHANGED <<publish, container, network, joined, promised>>
      /\ known' = NoAddr /\ stop' = "idle" /\ proxied' = IdleProxy
      /\ untidy' = (untidy \/ ~Quiet)
      /\ start' = [s \in Starters |-> IF Holding(s) THEN [start[s] EXCEPT !.pc = "failed"]
                                                    ELSE start[s]]
      /\ instanceSpent' \in [InstanceEvents -> Nat]
  BY SpendTypes DEF RestartController, dockerVars, InstancesInv, InstanceEvents
<1>2. start \in [Starters -> StartRecord]
  BY DEF InstancesInv, InstancesTypeOK, StartRecord
<1>3. \A s \in Starters : start'[s] \in StartRecord /\ ~Holding(s)'
  <2> SUFFICES ASSUME NEW s \in Starters
               PROVE  start'[s] \in StartRecord /\ ~Holding(s)'
    OBVIOUS
  <2>1. start'[s] = IF Holding(s) THEN [start[s] EXCEPT !.pc = "failed"] ELSE start[s]
    BY <1>1
  <2>2. start'[s] \in StartRecord /\ start'[s].pc \notin StartSteps
    BY <1>2, <2>1 DEF StartRecord, Holding, StartSteps
  <2> QED
    BY <2>2 DEF Holding
<1>4. start' \in [Starters -> StartRecord]
  BY <1>1, <1>3
<1>5. InstancesTypeOK'
  <2>1. Quiet \in BOOLEAN
    BY DEF Quiet
  <2> QED
    BY <1>1, <1>4, <2>1 DEF InstancesInv, InstancesTypeOK, StartRecord, IdleProxy
<1>6. OrderInv' /\ RequestedInv'
  <2>1. \A s \in Starters : start'[s].pc \notin Fitting
    BY <1>3 DEF Holding, Fitting, StartSteps
  <2>2. promised' # NoSpec => container'.spec = promised'
    BY <1>1 DEF InstancesInv, RequestedInv
  <2> QED
    BY <1>1, <1>3, <2>1, <2>2 DEF OrderInv, RequestedInv, Fitting
<1>7. TidyInv'
  BY <1>1, <1>3 DEF InstancesInv, TidyInv, Whole, Exists
<1>8. ProxyInv'
  BY <1>1 DEF ProxyInv, IdleProxy
<1> QED
  BY <1>5, <1>6, <1>7, <1>8 DEF InstancesInv

LEMMA InstancesStep ==
  InstancesInv /\ [InstancesNext]_instanceVars => InstancesInv'
<1> SUFFICES ASSUME InstancesInv, [InstancesNext]_instanceVars
             PROVE  InstancesInv'
  OBVIOUS
<1>1. ASSUME NEW s \in Starters, NEW spec \in Specs, BeginStart(s, spec)
      PROVE  InstancesInv'
  BY <1>1, BeginKeeps
<1>2. ASSUME NEW s \in Starters, StarterStep(s)
      PROVE  InstancesInv'
  BY <1>2, StarterKeeps
<1>3. CASE BeginStop
  BY <1>3, BeginStopKeeps
<1>4. CASE StopRemove
  BY <1>4, StopKeeps
<1>5. CASE (\E get \in BOOLEAN : Lookup(get)) \/ Send \/ EndProxy
  BY <1>5, ProxyKeeps
<1>6. CASE ContainerEnds \/ ContainerRestarts
  BY <1>6, RuntimeKeeps
<1>7. CASE RestartController
  BY <1>7, RestartKeeps
<1>8. CASE UNCHANGED instanceVars
  BY <1>8 DEF instanceVars, dockerVars, InstancesInv, InstancesTypeOK, OrderInv, RequestedInv,
     TidyInv, ProxyInv, Holding, Quiet, Whole, Exists, StartedSoFar
<1> QED
  BY <1>1, <1>2, <1>3, <1>4, <1>5, <1>6, <1>7, <1>8 DEF InstancesNext, StarterStep

(* An instance is what was asked for, whole, and called once: a start that *)
(* answers "ok", and that no stop overlapped, has left a container with    *)
(* the image, manifest and environment it asked for (server.go:555-613);   *)
(* with no call in progress, and unless a docker command failed or a call  *)
(* was cut or overlapped, the network and the membership are those of the  *)
(* container (docker.go:96); and a call that may change something reaches  *)
(* the plugin at most once (server.go:743).                                *)
THEOREM InstanceHolds == InstancesSpec => [](InstancesTypeOK /\ InstanceKept)
<1>1. InstancesInit => InstancesInv
  BY InstancesInitially
<1>2. InstancesInv /\ [InstancesNext]_instanceVars => InstancesInv'
  BY InstancesStep
<1>3. InstancesInv => InstancesTypeOK /\ InstanceKept
  BY DEF InstancesInv, RequestedInv, TidyInv, ProxyInv, Whole, InstanceKept,
     AnsweredRunsRequested, NothingLeftBehind, ChangedAtMostOnce, InstancesTypeOK, Exists
<1> QED
  BY <1>1, <1>2, <1>3, PTL DEF InstancesSpec
===============================================================================
