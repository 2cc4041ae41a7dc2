---------------------------- MODULE PluginInstances ----------------------------
(***************************************************************************)
(* The containers of installed plugins as the plugin controller keeps them *)
(* (internal/plugins/controller/server.go: start, stop, lookup and proxy;  *)
(* docker.go: what each does to the container runtime).  Calls about       *)
(* different instances share nothing but the controller process, so the    *)
(* module has one instance: its container, its network, and what the       *)
(* controller remembers of it.  Each docker command is a step.             *)
(***************************************************************************)
EXTENDS Naturals

CONSTANTS
  Starters,          \* start calls, each made once
  Specs,             \* image, manifest and environment a start asks for
  NoSpec,
  NoAddr,
  InstanceLimits     \* how often each unbounded event happens

(* A mishap: a docker command refused, an instance that does not get       *)
(* healthy, or a container that ends by itself.                            *)
InstanceEvents == {"stop", "proxy", "mishap", "crash"}

ASSUME InstancesAssumption ==
  /\ NoSpec \notin Specs
  /\ NoAddr \notin Nat
  /\ InstanceLimits \in [InstanceEvents -> Nat]

VARIABLES
  publish,     \* the port is published on the host, or the network is joined
  known,       \* the address the controller remembers (Server.instances)
  container,   \* the container: what it runs, whether it is up, its host port
  network,     \* the network of the instance exists
  joined,      \* the controller is in that network
  start,       \* the progress of each start call
  stop,        \* the progress of a stop call
  proxied,     \* the progress of a proxied call
  instanceSpent,
  promised,    \* what the last start to succeed left running (history)
  untidy       \* a docker command failed, a stop overlapped a start, or a
               \* crash cut a call (history)

dockerVars == <<container, network, joined>>
instanceVars ==
  <<publish, known, dockerVars, start, stop, proxied, instanceSpent, promised, untidy>>

NoContainer == [spec |-> NoSpec, up |-> FALSE, host |-> 0]
IdleStart == [pc |-> "idle", spec |-> NoSpec, addr |-> NoAddr, overlapped |-> FALSE]
IdleProxy == [pc |-> "idle", get |-> FALSE, addr |-> NoAddr, handled |-> 0]

StartSteps ==
  {"inspect", "reuse", "clear", "clearNetwork", "network", "run", "join", "probe",
   "remember", "undo", "undoNetwork"}

InstancesTypeOK ==
  /\ publish \in BOOLEAN
  /\ known \in Nat \cup {NoAddr}
  /\ container \in [spec : Specs \cup {NoSpec}, up : BOOLEAN, host : Nat]
  /\ network \in BOOLEAN
  /\ joined \in BOOLEAN
  /\ start \in [Starters -> [pc : StartSteps \cup {"idle", "ok", "failed"},
                             spec : Specs \cup {NoSpec}, addr : Nat \cup {NoAddr},
                             overlapped : BOOLEAN]]
  /\ stop \in {"idle", "remove", "network"}
  /\ proxied \in [pc : {"idle", "send", "again", "ok", "failed"}, get : BOOLEAN,
                  addr : Nat \cup {NoAddr}, handled : Nat]
  /\ instanceSpent \in [InstanceEvents -> Nat]
  /\ promised \in Specs \cup {NoSpec}
  /\ untidy \in BOOLEAN

InstancesInit ==
  /\ publish \in BOOLEAN
  /\ known = NoAddr
  /\ container = NoContainer
  /\ network = FALSE
  /\ joined = FALSE
  /\ start = [s \in Starters |-> IdleStart]
  /\ stop = "idle"
  /\ proxied = IdleProxy
  /\ instanceSpent = [e \in InstanceEvents |-> 0]
  /\ promised = NoSpec
  /\ untidy = FALSE

SpendInstance(e) ==
  /\ instanceSpent[e] < InstanceLimits[e]
  /\ instanceSpent' = [instanceSpent EXCEPT ![e] = @ + 1]

Mishap == SpendInstance("mishap") /\ untidy' = TRUE
Smooth == UNCHANGED <<instanceSpent, untidy>>

-------------------------------------------------------------------------------
(* The container runtime                                                   *)

Exists == container.spec # NoSpec

(* A new container, or a restarted one, is published on a port of its own. *)
NextHost == IF publish THEN container.host + 1 ELSE container.host
Address == IF publish THEN container.host ELSE 0

Reachable(addr) == Exists /\ container.up /\ addr = Address /\ (publish \/ joined)

DockerRun(spec) == [spec |-> spec, up |-> TRUE, host |-> NextHost]

(* Remove is a docker rm, then the controller's leaving the network and a  *)
(* docker network rm.  A failure of any of them goes unseen, and a network *)
(* that still has a member is not removed.                                 *)
RemoveContainer ==
  /\ \/ Smooth /\ container' = [NoContainer EXCEPT !.host = container.host]
     \/ Mishap /\ UNCHANGED container
  /\ UNCHANGED <<network, joined>>

RemoveNetwork ==
  /\ \/ Smooth /\ joined' = FALSE /\ network' = (network /\ Exists)
     \/ Mishap /\ joined' \in {joined, FALSE} /\ UNCHANGED network
  /\ UNCHANGED container

-------------------------------------------------------------------------------
(* Start                                                                   *)

At(s, pc) == start[s].pc = pc
Holding(s) == start[s].pc \in StartSteps
Goto(s, pc) == start' = [start EXCEPT ![s].pc = pc]

Quiet == stop = "idle" /\ \A s \in Starters : ~Holding(s)

StartUnchanged == UNCHANGED <<publish, stop, proxied>>

BeginUnlocked(s, spec) ==
  /\ At(s, "idle")
  /\ start' = [start EXCEPT ![s] =
                 [@ EXCEPT !.pc = "inspect", !.spec = spec, !.overlapped = stop # "idle"]]
  /\ promised' = NoSpec
  /\ untidy' = (untidy \/ stop # "idle")
  /\ UNCHANGED <<known, dockerVars, instanceSpent>>
  /\ StartUnchanged

(* Start with a valid request; it takes the instance's start lock.         *)
BeginStart(s, spec) ==
  /\ At(s, "idle")
  /\ \A t \in Starters : ~Holding(t)
  /\ start' = [start EXCEPT ![s] =
                 [@ EXCEPT !.pc = "inspect", !.spec = spec, !.overlapped = stop # "idle"]]
  /\ promised' = NoSpec
  /\ untidy' = (untidy \/ stop # "idle")
  /\ UNCHANGED <<known, dockerVars, instanceSpent>>
  /\ StartUnchanged

(* The label on the container is the hash of what is asked for.            *)
SameHash(s) == container.spec = start[s].spec

Inspect(s) ==
  /\ At(s, "inspect")
  /\ \/ /\ Smooth
        /\ Goto(s, IF ~Exists THEN "network"
                   ELSE IF container.up /\ SameHash(s) THEN "reuse" ELSE "clear")
     \/ Mishap /\ Goto(s, "failed")
  /\ UNCHANGED <<known, dockerVars, promised>>
  /\ StartUnchanged

(* The running container is kept if it answers, and replaced otherwise.    *)
Reuse(s) ==
  /\ At(s, "reuse")
  /\ \/ /\ Reachable(Address)
        /\ Smooth
        /\ start' = [start EXCEPT ![s].pc = "remember", ![s].addr = Address]
     \/ ~Reachable(Address) /\ Smooth /\ Goto(s, "clear")
     \/ Mishap /\ Goto(s, "clear")
  /\ UNCHANGED <<known, dockerVars, promised>>
  /\ StartUnchanged

Clear(s) ==
  /\ \/ At(s, "clear") /\ RemoveContainer /\ Goto(s, "clearNetwork")
     \/ At(s, "clearNetwork") /\ RemoveNetwork /\ Goto(s, "network")
  /\ UNCHANGED <<known, promised>>
  /\ StartUnchanged

(* docker network create, where "already exists" is no failure.            *)
CreateNetwork(s) ==
  /\ At(s, "network")
  /\ \/ Smooth /\ network' = TRUE /\ Goto(s, "run")
     \/ Mishap /\ UNCHANGED network /\ Goto(s, "undo")
  /\ UNCHANGED <<known, container, joined, promised>>
  /\ StartUnchanged

(* docker run fails when a container of that name is left or the network   *)
(* is gone; it may also leave a container that never ran.                  *)
RunContainer(s) ==
  /\ At(s, "run")
  /\ \/ /\ ~Exists /\ network
        /\ Smooth
        /\ container' = DockerRun(start[s].spec)
        /\ Goto(s, "join")
     \/ /\ Exists \/ ~network
        /\ Smooth
        /\ UNCHANGED container
        /\ Goto(s, "undo")
     \/ /\ ~Exists /\ network
        /\ Mishap
        /\ container' \in {container, [DockerRun(start[s].spec) EXCEPT !.up = FALSE]}
        /\ Goto(s, "undo")
  /\ UNCHANGED <<known, network, joined, promised>>
  /\ StartUnchanged

JoinNetwork(s) ==
  /\ At(s, "join")
  /\ \/ /\ publish
        /\ Smooth
        /\ UNCHANGED joined
        /\ Goto(s, "probe")
     \/ /\ ~publish
        /\ Smooth
        /\ joined' = network
        /\ Goto(s, IF network THEN "probe" ELSE "undo")
     \/ ~publish /\ Mishap /\ UNCHANGED joined /\ Goto(s, "undo")
  /\ UNCHANGED <<known, container, network, promised>>
  /\ StartUnchanged

(* The address and the wait for a healthy answer.                          *)
WaitHealthy(s) ==
  /\ At(s, "probe")
  /\ \/ /\ Reachable(Address)
        /\ Smooth
        /\ start' = [start EXCEPT ![s].pc = "remember", ![s].addr = Address]
     \/ ~Reachable(Address) /\ Smooth /\ Goto(s, "undo")
     \/ Mishap /\ Goto(s, "undo")
  /\ UNCHANGED <<known, dockerVars, promised>>
  /\ StartUnchanged

Remember(s) ==
  /\ At(s, "remember")
  /\ known' = start[s].addr
  /\ Goto(s, "ok")
  /\ promised' = IF start[s].overlapped THEN NoSpec ELSE start[s].spec
  /\ UNCHANGED <<dockerVars, instanceSpent, untidy>>
  /\ StartUnchanged

UndoStart(s) ==
  /\ \/ At(s, "undo") /\ RemoveContainer /\ Goto(s, "undoNetwork")
     \/ At(s, "undoNetwork") /\ RemoveNetwork /\ Goto(s, "failed")
  /\ UNCHANGED <<known, promised>>
  /\ StartUnchanged

-------------------------------------------------------------------------------
(* Stop, which does not take the start lock                                *)

BeginStop ==
  /\ stop = "idle"
  /\ SpendInstance("stop")
  /\ known' = NoAddr
  /\ stop' = "remove"
  /\ promised' = NoSpec
  /\ start' = [s \in Starters |-> [start[s] EXCEPT !.overlapped = @ \/ Holding(s)]]
  /\ untidy' = (untidy \/ ~Quiet)
  /\ UNCHANGED <<publish, dockerVars, proxied>>

StopRemove ==
  /\ \/ stop = "remove" /\ RemoveContainer /\ stop' = "network"
     \/ stop = "network" /\ RemoveNetwork /\ stop' = "idle"
  /\ UNCHANGED <<publish, known, start, proxied, promised>>

-------------------------------------------------------------------------------
(* A proxied call of the orchestrator                                      *)

ProxyUnchanged == UNCHANGED <<publish, dockerVars, start, stop, promised, untidy>>

Lookup(get) ==
  /\ proxied.pc = "idle"
  /\ SpendInstance("proxy")
  /\ proxied' = [IdleProxy EXCEPT !.get = get, !.addr = known,
                   !.pc = IF known = NoAddr THEN "failed" ELSE "send"]
  /\ UNCHANGED known
  /\ ProxyUnchanged

(* Only a call that changes nothing is sent again.  The plugin handles a   *)
(* call that reaches it, but the reply may be lost.                        *)
Send ==
  /\ proxied.pc \in {"send", "again"}
  /\ LET arrives == Reachable(proxied.addr)
         fail == IF proxied.pc = "send" /\ proxied.get THEN "again" ELSE "failed"
         after(pc) == [proxied EXCEPT !.pc = pc, !.handled = @ + (IF arrives THEN 1 ELSE 0)]
     IN
       \/ arrives /\ proxied' = after("ok") /\ UNCHANGED <<known, instanceSpent>>
       \/ /\ IF arrives THEN SpendInstance("mishap") ELSE UNCHANGED instanceSpent
          /\ \/ /\ fail = "failed" \/ ~Exists \/ ~container.up \/ known = NoAddr
                /\ proxied' = after("failed")
                /\ UNCHANGED known
             \/ /\ fail = "again" /\ Exists /\ container.up /\ known # NoAddr
                /\ known' = Address
                /\ proxied' = [after("again") EXCEPT !.addr = Address]
  /\ ProxyUnchanged

EndProxy ==
  /\ proxied.pc \in {"ok", "failed"}
  /\ proxied' = IdleProxy
  /\ UNCHANGED <<known, instanceSpent>>
  /\ ProxyUnchanged

-------------------------------------------------------------------------------
(* Faults                                                                  *)

(* The container ends, or its restart policy starts it again.              *)
ContainerEnds ==
  /\ Exists /\ container.up
  /\ SpendInstance("mishap")
  /\ container' = [container EXCEPT !.up = FALSE]
  /\ UNCHANGED <<publish, known, network, joined, start, stop, proxied, promised, untidy>>

ContainerRestarts ==
  /\ Exists /\ ~container.up
  /\ container' = [container EXCEPT !.up = TRUE, !.host = NextHost]
  /\ UNCHANGED <<publish, known, network, joined, start, stop, proxied, instanceSpent,
                 promised, untidy>>

(* The controller restarts: what it remembered is gone, Recover reads      *)
(* nothing back, and the calls in progress are cut.                        *)
RestartController ==
  /\ SpendInstance("crash")
  /\ known' = NoAddr
  /\ start' = [s \in Starters |-> IF Holding(s) THEN [start[s] EXCEPT !.pc = "failed"]
                                                ELSE start[s]]
  /\ stop' = "idle"
  /\ proxied' = IdleProxy
  /\ untidy' = (untidy \/ ~Quiet)
  /\ UNCHANGED <<publish, dockerVars, promised>>

InstancesNext ==
  \/ \E s \in Starters :
       \/ \E spec \in Specs : BeginStart(s, spec)
       \/ Inspect(s) \/ Reuse(s) \/ Clear(s) \/ CreateNetwork(s) \/ RunContainer(s)
       \/ JoinNetwork(s) \/ WaitHealthy(s) \/ Remember(s) \/ UndoStart(s)
  \/ BeginStop \/ StopRemove
  \/ \E get \in BOOLEAN : Lookup(get)
  \/ Send \/ EndProxy
  \/ ContainerEnds \/ ContainerRestarts \/ RestartController

InstancesSpec == InstancesInit /\ [][InstancesNext]_instanceVars

-------------------------------------------------------------------------------
(* A start that answers "ok" and was not overlapped by a stop has left a   *)
(* container with exactly the image, manifest and environment it asked     *)
(* for, until a stop or another start begins (server.go:555-613).          *)
AnsweredRunsRequested == promised # NoSpec => container.spec = promised

(* With no call in progress, and unless a docker command failed, a restart *)
(* cut a call or a stop overlapped a start, a container has its network    *)
(* and, where needed, the controller in it, and neither outlives the       *)
(* container (docker.go:96).                                               *)
NothingLeftBehind ==
  Quiet /\ ~untidy =>
    /\ network = Exists
    /\ joined = (Exists /\ ~publish)

(* A call that may change something reaches the plugin at most once, even  *)
(* when its answer is lost (server.go:743).                                *)
ChangedAtMostOnce == ~proxied.get => proxied.handled <= 1

(* The instance is what was asked for, whole, and called once.             *)
InstanceKept == AnsweredRunsRequested /\ NothingLeftBehind /\ ChangedAtMostOnce

(* What a start left running is served after a restart of the controller   *)
(* (server.go:453, 681 and 767 say so).                                    *)
KeepsProxying == promised # NoSpec => known # NoAddr
===============================================================================
