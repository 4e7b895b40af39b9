------------------------------ MODULE Bracket ------------------------------
(***************************************************************************)
(* What an execution owes the machine it runs on, whatever its phases,     *)
(* commands and failures are: it takes resources while it works, takes     *)
(* none once it has begun to release them, and says "clean" only when it   *)
(* holds nothing.  ExecutionRun implements this module.                    *)
(***************************************************************************)
CONSTANT Resource

VARIABLES
    \* the resources taken and not released
    held,
    \* "working", "releasing" or "ended"
    stage,
    \* "none" until the end, then "clean" or "dirty"
    report

vars == <<held, stage, report>>

TypeOK ==
  /\ held \subseteq Resource
  /\ stage \in {"working", "releasing", "ended"}
  /\ report \in {"none", "clean", "dirty"}

Init ==
  /\ held = {}
  /\ stage = "working"
  /\ report = "none"

\* Preparation, phases and triggers: anything may be taken, something may go by itself.
Work ==
  /\ stage = "working"
  /\ held' \in SUBSET Resource
  /\ UNCHANGED <<stage, report>>

\* The run is refused: it ends without having begun, and reports nothing.
Refuse ==
  /\ stage = "working"
  /\ stage' = "ended"
  /\ UNCHANGED <<held, report>>

Turn ==
  /\ stage = "working"
  /\ stage' = "releasing"
  /\ UNCHANGED <<held, report>>

Release ==
  /\ stage = "releasing"
  /\ held' \in SUBSET held
  /\ UNCHANGED <<stage, report>>

End ==
  /\ stage = "releasing"
  /\ stage' = "ended"
  /\ report' \in IF held = {} THEN {"clean", "dirty"} ELSE {"dirty"}
  /\ UNCHANGED held

\* The next execution begins, possibly beside what this one failed to release;
\* what it does not find there is no longer its business.
Again ==
  /\ stage = "ended"
  /\ held' \in SUBSET held
  /\ stage' = "working"
  /\ report' = "none"

Next == Work \/ Refuse \/ Turn \/ Release \/ End \/ Again

Spec == Init /\ [][Next]_vars
=============================================================================
