------------------------------- MODULE CacheIds -------------------------------
(***************************************************************************)
(* The identifiers of cache entries: the fresh UUIDs the vector store      *)
(* returns from an upsert (index.py, uuid.uuid4().hex) and every other     *)
(* component uses as the key of the entry.                                 *)
(***************************************************************************)
CONSTANTS
  Ids,   \* the identifiers an upsert can return
  NoId   \* the value of an unset identifier

ASSUME NoIdAssumption == NoId \notin Ids
===============================================================================
