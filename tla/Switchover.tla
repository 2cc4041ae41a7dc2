------------------------------ MODULE Switchover ------------------------------
(***************************************************************************)
(* What the plugin manager promises of replacing implementations while the *)
(* cache is used (internal/plugins/manager/types.go).  A replacement first *)
(* serves on trial; it then becomes the chosen one or gives way to the     *)
(* chosen one.  A restart serves the chosen ones.  One slot at a time may  *)
(* pause writes, a slot with contents is replaced within its pause, and    *)
(* the jobs that wait are neither lost nor applied by any of this.         *)
(***************************************************************************)
EXTENDS Naturals

CONSTANTS
  Slots,     \* what can be replaced
  Choices,   \* the implementations of each slot
  Builtin,   \* the implementation of every slot in a new process
  Light,     \* the slots that may be replaced while writes go on
  Spare,     \* the slots that go without their chosen implementation
  NoSlot,    \* writes are not paused
  Kinds      \* kinds of jobs

VARIABLES
  running,   \* the process runs
  serves,    \* what serves each slot
  chosen,    \* what was recorded to serve each slot
  trying,    \* the slots whose implementation is on trial
  paused,    \* the slot that has paused writes
  waiting    \* how many jobs of each kind wait

slotVars == <<serves, chosen, trying>>
overVars == <<running, slotVars, paused, waiting>>

OverInit ==
  /\ running = TRUE
  /\ serves = [s \in Slots |-> Builtin]
  /\ chosen = [s \in Slots |-> Builtin]
  /\ trying = {}
  /\ paused = NoSlot
  /\ waiting = [k \in Kinds |-> 0]

-------------------------------------------------------------------------------
(* A replacement                                                           *)

PauseWrites(s) ==
  /\ paused = NoSlot /\ s \notin trying
  /\ paused' = s
  /\ UNCHANGED <<slotVars, waiting>>

ResumeWrites(s) ==
  /\ paused = s
  /\ paused' = NoSlot
  /\ UNCHANGED <<slotVars, waiting>>

Try(s, p) ==
  /\ s \notin trying
  /\ paused = s \/ s \in Light
  /\ serves' = [serves EXCEPT ![s] = p]
  /\ trying' = trying \cup {s}
  /\ UNCHANGED <<chosen, paused, waiting>>

(* Writes have been resumed when a choice is recorded.                     *)
Choose(s) ==
  /\ s \in trying /\ paused # s
  /\ chosen' = [chosen EXCEPT ![s] = serves[s]]
  /\ trying' = trying \ {s}
  /\ UNCHANGED <<serves, paused, waiting>>

GiveUp(s) ==
  /\ s \in trying
  /\ serves' = [serves EXCEPT ![s] = chosen[s]]
  /\ trying' = trying \ {s}
  /\ UNCHANGED <<chosen, paused, waiting>>

Replace(s) ==
  \/ PauseWrites(s) \/ ResumeWrites(s) \/ Choose(s) \/ GiveUp(s)
  \/ \E p \in Choices[s] : Try(s, p)

-------------------------------------------------------------------------------
(* Jobs                                                                    *)

Enqueue(k) ==
  /\ waiting' = [waiting EXCEPT ![k] = @ + 1]
  /\ UNCHANGED <<slotVars, paused>>

Write(k) ==
  /\ paused = NoSlot
  /\ waiting[k] > 0
  /\ waiting' = [waiting EXCEPT ![k] = @ - 1]
  /\ UNCHANGED <<slotVars, paused>>

-------------------------------------------------------------------------------
(* The process                                                             *)

(* Jobs that were being handled may be lost (lost_worker).                 *)
Stop ==
  /\ running /\ ~running'
  /\ serves' = [s \in Slots |-> Builtin]
  /\ trying' = {}
  /\ paused' = NoSlot
  /\ waiting' \in [Kinds -> Nat] /\ \A k \in Kinds : waiting'[k] <= waiting[k]
  /\ UNCHANGED chosen

StartAgain ==
  /\ ~running /\ running'
  /\ \E S \in SUBSET Spare :
       chosen' = [s \in Slots |-> IF s \in S THEN Builtin ELSE chosen[s]]
  /\ serves' = chosen'
  /\ UNCHANGED <<trying, paused, waiting>>

OverNext ==
  \/ /\ running /\ UNCHANGED running
     /\ (\E s \in Slots : Replace(s)) \/ (\E k \in Kinds : Enqueue(k) \/ Write(k))
  \/ Stop
  \/ StartAgain

OverSpec == OverInit /\ [][OverNext]_overVars
===============================================================================
