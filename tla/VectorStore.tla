----------------------------- MODULE VectorStore ------------------------------
(***************************************************************************)
(* The vector-store service (vector_store_service/app/main.py) as the      *)
(* orchestrator's HTTP client sees it: every route runs its index          *)
(* operation under one lock, so each is one step.  The index is in RAM     *)
(* only.  Which vectors match a query is left to the module that uses it.  *)
(***************************************************************************)
EXTENDS CacheIds

VARIABLES
  index,    \* ids of the vectors the index holds
  issued    \* ids an upsert has ever returned: uuid4 never repeats one

indexVars == <<index, issued>>

IndexTypeOK ==
  /\ index \subseteq Ids
  /\ issued \subseteq Ids

IndexInit ==
  /\ index = {}
  /\ issued = {}

UpsertVector(id) ==
  /\ id \in Ids \ issued
  /\ index' = index \cup {id}
  /\ issued' = issued \cup {id}

(* DELETE /entries/{id} of a known id; of an unknown id it is a 404.       *)
DeleteVector(id) ==
  /\ id \in index
  /\ index' = index \ {id}
  /\ UNCHANGED issued

DeleteNotFound(id) ==
  /\ id \notin index
  /\ UNCHANGED indexVars

(* POST /rebuild replaces all contents.                                    *)
RebuildVectors(ids) ==
  /\ index' = ids
  /\ UNCHANGED issued

FlushVectors ==
  /\ index' = {}
  /\ UNCHANGED issued
===============================================================================
