-------------------------- MODULE MCPluginLifecycle ---------------------------
(* Small instances of PluginLifecycle for TLC: one slot, plugins of        *)
(* different installation modes.                                           *)
EXTENDS PluginLifecycle, TLC

CONSTANTS p1, p2, s1

OneSlot == [p \in Plugins |-> s1]
Mode == [p \in Plugins |-> IF p = p1 THEN "image" ELSE "endpoint"]
AllFaults == Calls \X {"refused"} \cup {<<"start", "replyLost">>}
NoFaults == {}
LimitsAre(i, r, t, f, c) ==
  [install |-> i, request |-> r, timer |-> t, fault |-> f, crash |-> c]
LimitsLifecycle == LimitsAre(2, 3, 1, 1, 1)
===============================================================================
