------------------------------ MODULE Scenario ------------------------------
(***************************************************************************)
(* What the multi-actor conductor promises, with no server, no polling and *)
(* no acknowledgement in it: a scenario is a script of steps, each owned   *)
(* by a role; the steps are performed one at a time, in script order, each *)
(* exactly once, and each by a device that holds the step's role.          *)
(***************************************************************************)
EXTENDS Naturals, Sequences

CONSTANTS
  Device,   \* the runner processes, one per actor
  Script    \* Script[i] is the role that owns step i

VARIABLES
  pos,        \* how many steps are complete
  performing  \* {} between steps, {<<device, role>>} while one is performed

vars == <<pos, performing>>

Init == pos = 0 /\ performing = {}

Begin ==
  /\ pos < Len(Script)
  /\ performing = {}
  /\ \E d \in Device : performing' = {<<d, Script[pos + 1]>>}
  /\ UNCHANGED pos

Complete ==
  /\ performing # {}
  /\ performing' = {}
  /\ pos' = pos + 1

Next == Begin \/ Complete

Spec == Init /\ [][Next]_vars

FairSpec == Spec /\ WF_vars(Next)
=============================================================================
