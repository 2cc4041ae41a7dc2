---------------------------- MODULE MCQueueSwitch -----------------------------
(* Small instances of QueueSwitch for TLC.                                 *)
EXTENDS QueueSwitch

CONSTANTS b, q1, q2, j1, j2

AllFaults == Calls \X Outcomes
LimitsAre(s, m) == [switch |-> s, mishap |-> m]
LimitsQueue == LimitsAre(3, 2)
LimitsLostWorker == LimitsAre(2, 0)

(* Two senders with two switches and one mishap left, or one of them with  *)
(* three switches and two mishaps.                                         *)
MCInit ==
  \/ StartWith([j \in Jobs |-> "new"], LimitsAre(1, 1))
  \/ StartWith([j \in Jobs |-> IF j = j1 THEN "new" ELSE "failed"], LimitsAre(0, 0))
MCSpec == MCInit /\ [][Next]_vars /\ Fairness
===============================================================================
