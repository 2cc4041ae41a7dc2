------------------------------ MODULE FIFOPolicy ------------------------------
(***************************************************************************)
(* internal/policy/fifo.go, the example adapter: a list in the order of    *)
(* the insertions and a map from the ids to its elements.                  *)
(***************************************************************************)
EXTENDS PolicyHistory, SequencesExt

VARIABLE fifoOrder   \* the list, oldest first; the map's keys are its elements

FIFOItems == ToSet(fifoOrder)

(* Accesses do not change insertion order.                                 *)
FIFOOnHit(id) == Record("hit", id) /\ UNCHANGED fifoOrder

FIFOOnInsert(id) ==
  /\ Record("insert", id)
  /\ fifoOrder' = IF id \in FIFOItems THEN fifoOrder ELSE Append(fifoOrder, id)

FIFOOnDelete(id) == Record("delete", id) /\ fifoOrder' = RemoveFirst(fifoOrder, id)

FIFOVictim == IF fifoOrder = << >> THEN NoId ELSE Head(fifoOrder)

FIFOFlush == Record("flush", NoId) /\ fifoOrder' = << >>

FIFOInit == fifoOrder = << >>
===============================================================================
