----------------------------- MODULE MCSlotSwitch -----------------------------
(* Small instances of SlotSwitch for TLC: at most one plugin for each slot *)
(* (two vector stores), two spaces, one metric for each vector store.      *)
EXTENDS SlotSwitch, TLC

CONSTANTS e1, s1, v1, v2, y1, d0, d1, m0, m1, m2

AllSlots == {"embedder", "vectorStore", "persistence", "policy"}
SlotOfPlugin ==
  [p \in Plugins |-> CASE p = e1 -> "embedder"
                       [] p = s1 -> "persistence"
                       [] p \in {v1, v2} -> "vectorStore"
                       [] p = y1 -> "policy"]
Space == [p \in ImplsOf("embedder") |-> IF p = e1 THEN d1 ELSE d0]
Metric ==
  [p \in ImplsOf("vectorStore") |->
     CASE p = NoPlugin -> m0 [] p = v1 -> m1 [] p = v2 -> m2]

Confirm(c) == [compat |-> c, threshold |-> FALSE]
WithThreshold(c) == [compat |-> c, threshold |-> TRUE]
Choices(e, v, p) ==
  [s \in AllSlots |->
     CASE s = "embedder" -> {Confirm(c) : c \in e}
       [] s = "vectorStore" -> v
       [] s = "persistence" -> {Confirm(c) : c \in p}
       [] s = "policy" -> {Confirm("none")}]

AllChoices ==
  Choices({"none", "flush", "reembed"},
          {Confirm("none"), WithThreshold("none"), WithThreshold("flush")},
          {"none", "migrate", "empty", "adopt"})
Metrics == {m0, m1, m2}

LimitsAre(s, q, f, c) == [switch |-> s, query |-> q, fault |-> f, crash |-> c]
LimitsSwitch == LimitsAre(2, 1, 2, 1)

(* Faults after which the code promises that nothing has changed, and that *)
(* it lives up to: all but those of the calls that follow the swap.        *)
BeforeSwap ==
  ({"embed", "save", "rebuild", "replay"} \X Outcomes)
    \cup ({"prepare", "flushIndex", "after", "setActive", "restorePolicy"} \X {"refused"})

(* For the runs that show a divergence.                                    *)
NoFaults == {}
LimitsLateJob == LimitsAre(1, 1, 0, 0)
LimitsThreeSwitches == LimitsAre(3, 0, 0, 0)
===============================================================================
