--------------------------- MODULE MCExecutionRun ---------------------------
(* Plans for TLC: each kind of provider, phase, cell and matcher occurs. *)
EXTENDS ExecutionRun

Provider(phase, observes) ==
  [phase |-> Phase(phase), observes |-> observes,
   fingerprint |-> phase \in {"Reset", "Seed"}, cleanup |-> FALSE, debug |-> FALSE]

Cleaned(p) == [p EXCEPT !.cleanup = TRUE]

Debugged(p) == [p EXCEPT !.debug = TRUE]

Plan(cell, mode, providers) == [providers |-> providers, cell |-> cell, mode |-> mode]

\* Reset, launch and trigger on the host; two observers; a timeout that is the bug.
HostPlans ==
  {Plan("host", "Authoritative",
        <<Cleaned(Provider("Reset", "none")), Cleaned(Provider("Launch", "none")),
          Provider("Trigger", "output")>>),
   Plan("host", "Authoritative",
        <<Cleaned(Provider("Trigger", "exit")), Provider("Trigger", "none"),
          Cleaned(Provider("Observe", "output"))>>),
   Plan("host", "Authoritative", <<Provider("Build", "none"), Provider("Trigger", "timeout")>>)}

CellPlans ==
  {Plan("full", "Authoritative",
        <<Provider("Seed", "none"), Cleaned(Provider("Trigger", "exit"))>>),
   Plan("app", "Authoritative", <<Provider("Trigger", "output")>>)}

\* A debugger in the cell, and one on the host with a provider before it.
DebugPlans ==
  {Plan("full", "Diagnostic", <<Cleaned(Provider("Launch", "none")), Provider("Trigger", "exit")>>),
   Plan("host", "Diagnostic",
        <<Provider("Debug", "none"), Cleaned(Provider("Trigger", "none")),
          Debugged(Cleaned(Provider("Trigger", "exit")))>>)}

\* A plan that observes nothing, and one with a debugger beside a cell.
BadPlans ==
  {Plan("host", "Authoritative", <<Provider("Trigger", "none")>>),
   Plan("app", "Diagnostic", <<Debugged(Provider("Trigger", "exit"))>>)}

AllPlans == HostPlans \cup CellPlans \cup DebugPlans \cup BadPlans

TriggerPlan == {Plan("host", "Authoritative", <<Provider("Trigger", "output")>>)}
=============================================================================
