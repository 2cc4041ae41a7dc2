------------------------------- MODULE LRUPolicy ------------------------------
(***************************************************************************)
(* internal/policy/lru.go: a doubly linked list, most recently used first, *)
(* and a map from the ids to its elements.                                 *)
(***************************************************************************)
EXTENDS PolicyHistory, SequencesExt

VARIABLE lruOrder   \* the list; the keys of the map are its elements

LRUItems == ToSet(lruOrder)

MoveToFront(id) == lruOrder' = <<id>> \o RemoveFirst(lruOrder, id)

LRUHitInserts(id) == Record("hit", id) /\ MoveToFront(id)

LRUOnHit(id) ==
  /\ Record("hit", id)
  /\ IF id \in LRUItems THEN MoveToFront(id) ELSE UNCHANGED lruOrder

(* A known id moves to the front, a new one is pushed there.               *)
LRUOnInsert(id) == Record("insert", id) /\ MoveToFront(id)

LRUOnDelete(id) == Record("delete", id) /\ lruOrder' = RemoveFirst(lruOrder, id)

LRUVictim == IF lruOrder = << >> THEN NoId ELSE Last(lruOrder)

LRUFlush == Record("flush", NoId) /\ lruOrder' = << >>

LRUInit == lruOrder = << >>
===============================================================================
