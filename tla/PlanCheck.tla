------------------------------ MODULE PlanCheck ------------------------------
(***************************************************************************)
(* `reproit check` of a plan-backed repro: run_plan_runs of                *)
(* workflows/check.rs executes the plan several times, aggregate_plan_runs *)
(* makes one outcome of the verdicts and mark_checked promotes the repro.  *)
(* The executions are those of ExecutionRun, one after the other on one    *)
(* machine: what one of them left is there when the next one starts.  A     *)
(* diagnostic plan is executed by `reproit debug`, once and for no outcome. *)
(***************************************************************************)
EXTENDS ExecutionRun

CONSTANT Runs \* how often the plan is executed, --runs

ASSUME PlanCheckAssumption == Runs \in Nat \ {0}

VARIABLES
  results, \* the verdicts of the runs so far
  outcome, \* "none" until the end; "error" when a run or its record failed
  level,   \* Meta.status of the repro
  tainted  \* history: some run began with something of an earlier run in place

checkVars == <<results, outcome, level, tainted>>

Outcome == {"Pass", "Fail", "Flaky", "Stale"}

CheckInit ==
  /\ Init
  /\ results = <<>>
  /\ outcome = "none"
  /\ level \in {"Quarantined", "Required"}
  /\ tainted = FALSE

\* A step of the run in hand.
Execute == Next /\ outcome = "none" /\ UNCHANGED checkVars

Count(verdicts, v) == Cardinality({i \in DOMAIN verdicts : verdicts[i] = v})

\* Runs that could not be judged are left out of the count.
MutantAggregate(verdicts) ==
  LET reproduced == Count(verdicts, "Reproduced")
      clean == Count(verdicts, "NotReproduced")
  IN  CASE reproduced > 0 /\ clean > 0 -> "Flaky"
        [] reproduced > 0 /\ clean = 0 -> "Fail"
        [] clean > 0 /\ reproduced = 0 -> "Pass"
        [] OTHER -> "Stale"

\* aggregate_plan_runs.
Aggregate(verdicts) ==
  LET reproduced == Count(verdicts, "Reproduced")
      clean == Count(verdicts, "NotReproduced")
  IN  CASE reproduced > 0 /\ clean > 0 -> "Flaky"
        [] reproduced = Len(verdicts) -> "Fail"
        [] clean = Len(verdicts) -> "Pass"
        [] OTHER -> "Stale"

\* The check has a finished run in hand.
RunIsOver == pc = "done" /\ outcome = "none" /\ ~Diagnostic

\* The run returned an error, or its record could not be written.
Abort ==
  /\ RunIsOver
  /\ outcome' = "error"
  /\ UNCHANGED <<vars, results, level, tainted>>

\* A new execution of the same plan: everything is the run's own, but for what
\* is left on the host.  A cell has a fresh project name in every run.
Again ==
  /\ RunIsOver /\ verdict # "Error"
  /\ Len(results) + 1 < Runs
  /\ results' = Append(results, verdict)
  /\ tainted' = (tainted \/ left # {})
  /\ pc' = "validate"
  /\ next' = 1
  /\ status' = [i \in Phases |-> IF i = 1 THEN "Running" ELSE "Pending"]
  /\ failed' = FALSE
  /\ at' = 1
  /\ phaseFailed' = FALSE
  /\ seen' = {} /\ infra' = FALSE /\ different' = FALSE
  /\ ran' = <<>>
  /\ verified' = {}
  /\ attached' = FALSE
  /\ cmd' = NoCommand /\ task' = NoCommand
  /\ containers' = {}
  /\ cleaned' = <<>> /\ failures' = 0 /\ receipt' = "none"
  /\ verdict' = "none"
  /\ UNCHANGED <<plan, left, outcome, level>>

\* Promotion by the last run instead of by the outcome.
MutantSettle ==
  /\ RunIsOver /\ verdict # "Error"
  /\ Len(results) + 1 = Runs
  /\ results' = Append(results, verdict)
  /\ outcome' = Aggregate(results')
  /\ level' = IF verdict = "NotReproduced" THEN "Required" ELSE level
  /\ UNCHANGED <<vars, tainted>>

\* The verdict of the last run as the outcome.
MutantSettleUnaggregated ==
  /\ RunIsOver /\ verdict # "Error"
  /\ Len(results) + 1 = Runs
  /\ results' = Append(results, verdict)
  /\ outcome' = verdict
  /\ UNCHANGED <<vars, level, tainted>>

\* The last run is in: aggregate and mark_checked.
Settle ==
  /\ RunIsOver /\ verdict # "Error"
  /\ Len(results) + 1 = Runs
  /\ results' = Append(results, verdict)
  /\ outcome' = Aggregate(results')
  /\ level' = IF outcome' = "Pass" THEN "Required" ELSE level
  /\ UNCHANGED <<vars, tainted>>

CheckNext == Execute \/ Abort \/ Again \/ Settle

allVars == <<vars, checkVars>>

CheckSpec == CheckInit /\ [][CheckNext]_allVars

\* The fairness of the executions, which the check itself adds nothing to.
CheckFairSpec ==
  CheckSpec /\ WF_allVars(Execute /\ Runner) /\ WF_allVars(Execute /\ Children)

---------------------------------------------------------------------------
CheckTypeOK ==
  /\ results \in Seq(Verdict \ {"Error"}) /\ Len(results) <= Runs
  /\ outcome \in Outcome \cup {"none", "error"}
  /\ level \in {"Quarantined", "Required"}
  /\ tainted \in BOOLEAN

\* The product's promise, as verdict_lattice.rs has it: Pass is "the ONLY proof-of-fix",
\* a run that "did not fire AND ... was evaluable".  A check that says the
\* bug is gone, or that it is there, rests on runs none of which was disturbed by
\* what an earlier one left behind.
ClaimsStartClean == outcome \in {"Pass", "Fail"} => ~tainted

\* A repro becomes required only by a check all of whose runs were clean.
PromotionIsEarned ==
  [][level' # level =>
       /\ outcome' = "Pass"
       /\ \A i \in 1 .. Runs : results'[i] = "NotReproduced"]_allVars
=============================================================================
