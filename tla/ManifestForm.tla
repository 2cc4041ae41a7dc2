----------------------------- MODULE ManifestForm ------------------------------
(***************************************************************************)
(* A manifest is parsed again and again: by the manager when it comes with *)
(* a request, by the plugin controller when it prepares the plugin, by the *)
(* manager when the controller returns it, and by the controller whenever  *)
(* it starts an instance (internal/plugins/manifest/manifest.go, Parse).   *)
(* Each parse fills in defaults and then applies the rules.  A field is    *)
(* abstracted to what the rules tell apart, and the path of the health     *)
(* check stands for its times; properties, secrets and resources are in    *)
(* PluginConfig.  A dry run (Verify) gives a verdict and records nothing.  *)
(***************************************************************************)
EXTENDS Naturals

CONSTANTS
  Types,         \* plugin types
  PythonTypes,   \* those that are Python packages, run by the platform's runner
  Ports,         \* ports in a manifest; 0 is not given
  DefaultPort,
  MinPort        \* 1024

ASSUME ManifestFormAssumption ==
  /\ PythonTypes \subseteq Types
  /\ Ports \subseteq Nat /\ 0 \in Ports
  /\ MinPort \in Nat \ {0}
  /\ DefaultPort \in Ports /\ DefaultPort >= MinPort

VARIABLES
  form,          \* the manifest as it is written at this stage
  install,       \* how the plugin is installed, as which type, and whether
                 \* the request comes with a manifest
  formStage,
  verdict,       \* of the dry run before the installation
  refusedLate    \* a manifest was refused after it had been accepted (history)

formVars == <<form, install, formStage, verdict, refusedLate>>

Paths == {"", "inside", "outside"}

Forms ==
  [type : Types, mode : {"", "container", "python", "endpoint", "other"},
   dockerfile : Paths, context : {"", "inside"}, port : Ports,
   python : {"none", "pathless", "whole", "wrong"}, health : {"", "path", "wrong"},
   egress : {"", "none", "internet", "other"}]

Installs ==
  [mode : {"endpoint", "image", "repository"}, type : Types, supplied : BOOLEAN]

FormTypeOK ==
  /\ form \in Forms
  /\ install \in Installs
  /\ formStage \in {"written", "asked", "prepared", "recorded", "started", "refused"}
  /\ verdict \in {"none", "valid", "invalid"}
  /\ refusedLate \in BOOLEAN

-------------------------------------------------------------------------------
(* applyDefaults                                                           *)

OrDefault(x, none, default) == IF x = none THEN default ELSE x

DefaultMode(f) ==
  OrDefault(f.mode, "", IF f.type \in PythonTypes THEN "python" ELSE "container")

WithDefaults(f) ==
  LET mode == DefaultMode(f)
      built == mode = "container"
  IN [f EXCEPT
        !.mode = mode,
        !.dockerfile = IF built THEN OrDefault(@, "", "inside") ELSE @,
        !.context = IF built THEN OrDefault(@, "", "inside") ELSE @,
        !.port = IF mode = "endpoint" THEN @ ELSE OrDefault(@, 0, DefaultPort),
        !.python = OrDefault(@, "pathless", "whole"),
        !.health = OrDefault(@, "", "path"),
        !.egress = OrDefault(@, "", "none")]

(* validate                                                                *)

RuntimeValid(f) ==
  \/ /\ f.mode = "container"
     /\ f.type \notin PythonTypes
     /\ f.dockerfile = "inside" /\ f.context = "inside"
  \/ /\ f.mode = "python"
     /\ f.type \in PythonTypes
     /\ f.dockerfile = "" /\ f.context = ""
  \/ f.mode = "endpoint" /\ f.dockerfile = "" /\ f.context = ""

FormValid(f) ==
  /\ RuntimeValid(f)
  /\ f.mode # "endpoint" => f.port >= MinPort
  /\ f.python = (IF f.mode = "python" THEN "whole" ELSE "none")
  /\ f.health = "path"
  /\ f.egress \in {"none", "internet"}

(* Parse, and the type that was asked for.                                 *)
FormParses(f, type) == FormValid(WithDefaults(f)) /\ f.type = type

(* What a hosted endpoint without a manifest gets.                         *)
MinimalForm(type) ==
  WithDefaults([type |-> type, mode |-> "endpoint", dockerfile |-> "", context |-> "",
                port |-> 0, python |-> "none", health |-> "", egress |-> ""])

-------------------------------------------------------------------------------
FormInit ==
  /\ form \in Forms
  /\ install \in Installs
  /\ formStage = "written"
  /\ verdict = "none"
  /\ refusedLate = FALSE

Parsed(stage) ==
  /\ form' = WithDefaults(form)
  /\ formStage' = stage
  /\ UNCHANGED <<install, verdict, refusedLate>>

RefuseForm ==
  /\ formStage' = "refused"
  /\ refusedLate' = (formStage # "written")
  /\ UNCHANGED <<form, install, verdict>>

RequestFitsAnyMode == FormParses(form, install.type)

(* parseRequest: only an endpoint may say that it is one.                  *)
RequestFits ==
  /\ FormParses(form, install.type)
  /\ install.mode # "endpoint" => WithDefaults(form).mode # "endpoint"

(* The controller's parseManifest.                                         *)
ControllerAccepts ==
  FormParses(form, install.type) /\ WithDefaults(form).mode # "endpoint"

(* A manifest that comes with a repository is another one than the         *)
(* repository's, which alone is used: it can only get the request refused. *)
Unused == install.supplied /\ install.mode = "repository"

(* A dry run, which a failing download makes invalid, too.                 *)
VerifyForm ==
  /\ formStage = "written" /\ verdict = "none"
  /\ \/ /\ \/ install.supplied /\ (RequestFits \/ Unused)
           \/ /\ ~install.supplied /\ install.mode = "endpoint"
              /\ FormValid(MinimalForm(install.type))
           \/ /\ ~install.supplied /\ install.mode # "endpoint"
              /\ ControllerAccepts
              /\ FormParses(WithDefaults(form), install.type)
        /\ verdict' = "valid"
     \/ verdict' = "invalid"
  /\ UNCHANGED <<form, install, formStage, refusedLate>>

AskWithManifest ==
  /\ formStage = "written" /\ install.supplied
  /\ \/ ~Unused /\ RequestFits
        /\ Parsed(IF install.mode = "endpoint" THEN "recorded" ELSE "asked")
     \/ (Unused \/ ~RequestFits) /\ RefuseForm

AskWithoutManifest ==
  /\ formStage = "written" /\ ~install.supplied /\ install.mode = "endpoint"
  /\ FormValid(MinimalForm(install.type))
  /\ form' = MinimalForm(install.type)
  /\ formStage' = "recorded"
  /\ UNCHANGED <<install, verdict, refusedLate>>

PrepareForm ==
  /\ install.mode # "endpoint"
  /\ \/ formStage = "asked"
     \/ formStage = "written" /\ (Unused \/ ~install.supplied)
  /\ \/ ControllerAccepts /\ Parsed("prepared")
     \/ ~ControllerAccepts /\ RefuseForm

RecordForm ==
  /\ formStage = "prepared"
  /\ \/ FormParses(form, install.type) /\ Parsed("recorded")
     \/ ~FormParses(form, install.type) /\ RefuseForm

StartForm ==
  /\ formStage \in {"recorded", "started"} /\ install.mode # "endpoint"
  /\ \/ ControllerAccepts /\ Parsed("started")
     \/ ~ControllerAccepts /\ RefuseForm

FormNext ==
  \/ VerifyForm \/ AskWithManifest \/ AskWithoutManifest
  \/ PrepareForm \/ RecordForm \/ StartForm

FormSpec == FormInit /\ [][FormNext]_formVars

-------------------------------------------------------------------------------
(* A manifest that one parse accepted is accepted by all later ones, none  *)
(* of which changes it, so that the label of a running container still     *)
(* fits; one that a dry run found valid is not refused; and one that is    *)
(* started has what its runtime needs (manifest.go:322, server.go:268,     *)
(* 462, manager.go:518).                                                   *)
AcceptedOnceAndForAll ==
  /\ ~refusedLate
  /\ formStage \in {"asked", "prepared", "recorded", "started"} => WithDefaults(form) = form
  /\ verdict = "valid" /\ ~Unused => formStage # "refused"
  /\ formStage = "started" =>
       /\ (form.mode = "python") = (form.type \in PythonTypes)
       /\ form.mode = "python" => form.python = "whole"
       /\ form.port >= MinPort
===============================================================================
