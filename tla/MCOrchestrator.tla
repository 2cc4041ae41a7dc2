---------------------------- MODULE MCOrchestrator ----------------------------
(* Small instances of Orchestrator for TLC.                                *)
EXTENDS Orchestrator, TLC

LimitsAre(q, fl, fa, cr, ir) ==
  [query |-> q, flush |-> fl, fault |-> fa, crash |-> cr, indexRestart |-> ir]

AllFaults == Components \X Outcomes
NoFaults == {}
Refusals == Components \X {"refused"}

Symmetry == Permutations(Ids) \cup Permutations(Prompts)

LimitsFaults == LimitsAre(2, 1, 1, 1, 1)
LimitsConsistency == LimitsAre(4, 0, 3, 2, 0)

LimitsRace == LimitsAre(3, 1, 0, 0, 0)
===============================================================================
