------------------------------ MODULE RedisStore ------------------------------
(***************************************************************************)
(* The durable reply store (internal/persistence/redis_store.go).  Redis   *)
(* holds one key per entry and, beside them, the set of the ids; Save and  *)
(* Delete change both in one MULTI/EXEC, Flush does not.                   *)
(***************************************************************************)
EXTENDS FiniteSets, CacheIds

VARIABLES
  entries,   \* ids with a key llm_cache:entry:<id>
  members    \* the set llm_cache:entries

storeVars == <<entries, members>>

StoreTypeOK ==
  /\ entries \subseteq Ids
  /\ members \subseteq Ids

StoreInit ==
  /\ entries = {}
  /\ members = {}

SaveEntry(id) ==
  /\ entries' = entries \cup {id}
  /\ members' = members \cup {id}

DeleteKeepsKey(id) == members' = members \ {id} /\ UNCHANGED entries

(* DEL of a missing key and SREM of a missing member succeed.              *)
DeleteEntry(id) ==
  /\ entries' = entries \ {id}
  /\ members' = members \ {id}

(* Load(id) of a live store.                                               *)
Stored(id) == id \in entries

(* List: SMEMBERS, then GET of each, skipping ids whose key is missing.    *)
Listed == members \cap entries

(* Size: SCARD, which counts ids and never looks at the keys.              *)
Size == Cardinality(members)

DelDropped(keys) == UNCHANGED storeVars

(* The second round trip of Flush: DEL of the keys SMEMBERS returned and   *)
(* of the id set, whatever was saved since.                                *)
DelListed(keys) ==
  /\ entries' = entries \ keys
  /\ members' = {}
===============================================================================
