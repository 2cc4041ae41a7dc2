------------------------------- MODULE LFUPolicy ------------------------------
(***************************************************************************)
(* internal/policy/lfu.go: a map from ids to a use count and an insertion  *)
(* number, and the next insertion number.                                  *)
(***************************************************************************)
EXTENDS PolicyHistory, Functions

VARIABLES
  lfuEntries,   \* the map
  next          \* the next insertion number

lfuVars == <<lfuEntries, next>>

LFUItems == DOMAIN lfuEntries

LFUOnHit(id) ==
  /\ Record("hit", id)
  /\ lfuEntries' = IF id \in LFUItems
                     THEN [lfuEntries EXCEPT ![id].count = @ + 1]
                     ELSE lfuEntries
  /\ UNCHANGED next

Put(id) ==
  /\ lfuEntries' = [i \in LFUItems \cup {id} |->
                      IF i = id THEN [count |-> 1, order |-> next] ELSE lfuEntries[i]]
  /\ next' = next + 1

LFUInsertResetsCount(id) == Record("insert", id) /\ Put(id)

(* An id that is known keeps its count and its number.                     *)
LFUOnInsert(id) ==
  /\ Record("insert", id)
  /\ IF id \in LFUItems THEN UNCHANGED lfuVars ELSE Put(id)

LFUOnDelete(id) ==
  /\ Record("delete", id)
  /\ lfuEntries' = Restrict(lfuEntries, LFUItems \ {id})
  /\ UNCHANGED next

(* The comparison of Victim's loop.                                        *)
Beats(e, v) ==
  \/ e.count < v.count
  \/ e.count = v.count /\ e.order < v.order

(* What the loop may end with, the map being visited in any order: an id   *)
(* that no other beats.                                                    *)
LFUVictims ==
  {i \in LFUItems : \A j \in LFUItems : ~Beats(lfuEntries[j], lfuEntries[i])}

LFUFlush ==
  /\ Record("flush", NoId)
  /\ lfuEntries' = << >>
  /\ next' = 0

LFUInit == lfuEntries = << >> /\ next = 0
===============================================================================
