------------------------------ MODULE CacheSlots ------------------------------
(***************************************************************************)
(* The cache as the plugin platform sees it: four slots whose              *)
(* implementation can be replaced while the cache is used, the write gate  *)
(* of the orchestrator and its similarity threshold.  Every implementation *)
(* keeps its own contents when another one takes its place.                *)
(*                                                                         *)
(* A vector is abstracted to the space it belongs to, the name of the      *)
(* model that computed it; an embedder of another dimension than the index *)
(* in use is refused, so all spaces here have the same.  An entry is its   *)
(* id and the space of its vector.  Eviction is left out: it removes an id *)
(* from the three of them in one job, under the gate.                      *)
(***************************************************************************)
EXTENDS PluginRegistry, Naturals

CONSTANTS
  Ids,       \* ids of cache entries
  Clients,   \* queries in flight at the same time
  Spaces,    \* vector spaces
  NoSpace,   \* the space of an entry that is not there
  SpaceOf,   \* the space an implementation of the embedder embeds into
  MetricOf,  \* the threshold that fits the metric of a vector store
  NoSlot,    \* nobody holds the write gate
  Present    \* entries the store already has when the process starts

ASSUME SlotsAssumption ==
  /\ Slots = {"embedder", "vectorStore", "persistence", "policy"}
  /\ NoSlot \notin Slots
ASSUME PresentAssumption == Present \subseteq Ids
ASSUME SpacesAssumption ==
  /\ NoSpace \notin Spaces
  /\ SpaceOf \in [ImplsOf("embedder") -> Spaces]
  /\ MetricOf \in [ImplsOf("vectorStore") -> Thresholds]

VARIABLES
  serving,    \* the implementation behind each slot
  kept,       \* entries of each persistence implementation
  indexed,    \* vectors of each vector store implementation
  tracked,    \* ids each eviction policy implementation tracks
  gate,       \* the switch that holds the write gate
  threshold,  \* the live similarity threshold
  asked,      \* the space of the vector of each query in flight
  queued      \* how many queued jobs carry a vector of each space

contentVars == <<kept, indexed, tracked>>
trafficVars == <<asked, queued>>
cacheVars == <<serving, contentVars, gate, threshold, trafficVars>>

-------------------------------------------------------------------------------
Contents == [Ids -> Spaces \cup {NoSpace}]
Nothing == [i \in Ids |-> NoSpace]
Held(f) == {i \in Ids : f[i] # NoSpace}

Store == kept[serving["persistence"]]
Index == indexed[serving["vectorStore"]]
Tracked == tracked[serving["policy"]]

CacheTypeOK ==
  /\ serving \in [Slots -> Impls]
  /\ kept \in [ImplsOf("persistence") -> Contents]
  /\ indexed \in [ImplsOf("vectorStore") -> Contents]
  /\ tracked \in [ImplsOf("policy") -> SUBSET Ids]
  /\ gate \in Slots \cup {NoSlot}
  /\ threshold \in Thresholds \cup {Blocked}
  /\ asked \in [Clients -> Spaces \cup {NoSpace}]
  /\ queued \in [Spaces -> Nat]

(* rebuildFromStore has told index and policy of the entries that a store  *)
(* in use from the start holds.                                            *)
Found == [i \in Ids |-> IF i \in Present THEN SpaceOf[NoPlugin] ELSE NoSpace]

CacheInit ==
  /\ serving = [s \in Slots |-> NoPlugin]
  /\ kept = [p \in ImplsOf("persistence") |-> IF p = NoPlugin THEN Found ELSE Nothing]
  /\ indexed = [p \in ImplsOf("vectorStore") |-> IF p = NoPlugin THEN Found ELSE Nothing]
  /\ tracked = [p \in ImplsOf("policy") |-> IF p = NoPlugin THEN Present ELSE {}]
  /\ gate = NoSlot
  /\ threshold = MetricOf[NoPlugin]
  /\ asked = [c \in Clients |-> NoSpace]
  /\ queued = [v \in Spaces |-> 0]

-------------------------------------------------------------------------------
(* Contents after a call to the implementation serving a slot              *)

KeepAs(f) == kept' = [kept EXCEPT ![serving["persistence"]] = f]
IndexAs(f) == indexed' = [indexed EXCEPT ![serving["vectorStore"]] = f]
TrackAs(S) == tracked' = [tracked EXCEPT ![serving["policy"]] = S]

Serve(s, p) == serving' = [serving EXCEPT ![s] = p]

(* An id the vector store may still mint.                                  *)
Unused(i) ==
  /\ \A p \in DOMAIN kept : kept[p][i] = NoSpace
  /\ \A p \in DOMAIN indexed : indexed[p][i] = NoSpace
  /\ \A p \in DOMAIN tracked : i \notin tracked[p]

-------------------------------------------------------------------------------
(* Queries and the worker                                                  *)

(* handleQuery embeds the prompt with the embedder of that moment ...      *)
Embed(c) ==
  /\ asked[c] = NoSpace
  /\ asked' = [asked EXCEPT ![c] = SpaceOf[serving["embedder"]]]
  /\ UNCHANGED <<serving, contentVars, gate, threshold, queued>>

(* ... and searches the index of a later one.  A match that the store has  *)
(* is a hit; the policy ignores a hit on an id it does not track.          *)
Hit(c) ==
  /\ asked[c] # NoSpace
  /\ threshold # Blocked
  /\ Held(Index) \cap Held(Store) # {}
  /\ asked' = [asked EXCEPT ![c] = NoSpace]
  /\ UNCHANGED <<serving, contentVars, gate, threshold, queued>>

(* Nothing is near enough: the reply of the LLM is queued with the vector. *)
Miss(c) ==
  /\ asked[c] # NoSpace
  /\ asked' = [asked EXCEPT ![c] = NoSpace]
  /\ queued' = [queued EXCEPT ![asked[c]] = @ + 1]
  /\ UNCHANGED <<serving, contentVars, gate, threshold>>

ApplyJobUngated(v) ==
  /\ queued[v] > 0
  /\ queued' = [queued EXCEPT ![v] = @ - 1]
  /\ \E i \in Ids :
       /\ Unused(i)
       /\ IndexAs([Index EXCEPT ![i] = v])
       /\ KeepAs([Store EXCEPT ![i] = v])
       /\ TrackAs(Tracked \cup {i})
  /\ UNCHANGED <<serving, gate, threshold, asked>>

(* updateCache holds the gate's read lock from the upsert to the last      *)
(* eviction, so no switch that takes the gate sees it half done.           *)
ApplyJob(v) ==
  /\ gate = NoSlot
  /\ queued[v] > 0
  /\ queued' = [queued EXCEPT ![v] = @ - 1]
  /\ \E i \in Ids :
       /\ Unused(i)
       /\ IndexAs([Index EXCEPT ![i] = v])
       /\ KeepAs([Store EXCEPT ![i] = v])
       /\ TrackAs(Tracked \cup {i})
  /\ UNCHANGED <<serving, gate, threshold, asked>>
===============================================================================
