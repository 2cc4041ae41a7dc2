-------------------------------- MODULE Parts ---------------------------------
(***************************************************************************)
(* The components that share no state with one another: how the plugin     *)
(* controller prepares and runs a plugin, and with what; the policies and  *)
(* the one a plugin provides; the limiter of queries, the backends of the  *)
(* LLM, the index of the vector store, the updates of the registry and the *)
(* pages of a persistence plugin.                                          *)
(* What each promises does not depend on the others, so a behaviour here   *)
(* is one of a single part and leaves the others as they began.            *)
(***************************************************************************)
EXTENDS PluginInstances, PluginPrepare, PluginConfig, ManifestForm, Policies,
        PolicyAdapter, RateLimiter, LLMBackends, VectorIndex, RecordUpdate, PagedStore

VARIABLE part

vars ==
  <<part, instanceVars, prepareVars, configVars, formVars, policiesVars, policyVars,
    limiterVars, llmVars, indexVars, recordVars, storeVars>>

PartNames ==
  {"instances", "prepare", "config", "form", "policies", "adapter", "limiter", "llm",
   "index", "record", "store"}

AnImage == CHOOSE i \in Images : TRUE
ACommit == CHOOSE c \in Commits : TRUE
AForm == CHOOSE f \in Forms : TRUE
AnInstall == CHOOSE i \in Installs : TRUE

Init ==
  /\ part \in PartNames
  /\ IF part = "instances" THEN TRUE ELSE publish = TRUE
  /\ IF part = "prepare" THEN TRUE ELSE published = AnImage /\ branch = ACommit
  /\ IF part = "form" THEN TRUE ELSE form = AForm /\ install = AnInstall
  /\ InstancesInit /\ PrepareInit /\ ConfigInit /\ FormInit
  /\ PoliciesInit /\ PolicyInit /\ LimiterInit /\ LLMInit /\ IndexInit /\ RecordInit
  /\ StoreInit

Next ==
  /\ UNCHANGED part
  /\ \/ part = "instances" /\ InstancesNext
     \/ part # "instances" /\ UNCHANGED instanceVars
  /\ \/ part = "prepare" /\ PrepareNext
     \/ part # "prepare" /\ UNCHANGED prepareVars
  /\ \/ part = "config" /\ ConfigNext
     \/ part # "config" /\ UNCHANGED configVars
  /\ \/ part = "form" /\ FormNext
     \/ part # "form" /\ UNCHANGED formVars
  /\ \/ part = "policies" /\ PoliciesNext
     \/ part # "policies" /\ UNCHANGED policiesVars
  /\ \/ part = "adapter" /\ PolicyNext
     \/ part # "adapter" /\ UNCHANGED policyVars
  /\ \/ part = "limiter" /\ LimiterNext
     \/ part # "limiter" /\ UNCHANGED limiterVars
  /\ \/ part = "llm" /\ LLMNext
     \/ part # "llm" /\ UNCHANGED llmVars
  /\ \/ part = "index" /\ IndexNext
     \/ part # "index" /\ UNCHANGED indexVars
  /\ \/ part = "record" /\ RecordNext
     \/ part # "record" /\ UNCHANGED recordVars
  /\ \/ part = "store" /\ StoreNext
     \/ part # "store" /\ UNCHANGED storeVars

Spec == Init /\ [][Next]_vars

(* Every part keeps its own types.                                         *)
PartsTypeOK ==
  /\ part \in PartNames
  /\ InstancesTypeOK /\ PrepareTypeOK /\ ConfigTypeOK /\ FormTypeOK
  /\ PolicyTypeOK /\ LimiterTypeOK /\ LLMTypeOK /\ IndexTypeOK /\ RecordTypeOK
  /\ StoreTypeOK

(* Three parts implement an abstract one step by step: the policies what   *)
(* the orchestrator relies on (policy.go:12), the index the service that   *)
(* VectorStore is of it (main.py:122-172), and the commands of an update   *)
(* one atomic step (record.go:185).                                        *)
ContractsKept ==
  /\ part = "policies" => [HooksAsPromised]_policiesVars
  /\ part = "index" => [RequestsAsPromised]_indexVars
  /\ part = "record" => [Atomic!AtomicNext]_Atomic!atomicVars
PartsMeetContracts == Atomic!AtomicInit /\ [][ContractsKept]_vars
===============================================================================
