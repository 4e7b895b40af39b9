---------------------------- MODULE ExecutionRun ----------------------------
(***************************************************************************)
(* One execution of a compiled reproduction plan: execute_with_mode of     *)
(* adapters/execution/runner.rs, the phase record of domain/execution.rs,  *)
(* the commands of runner/process.rs, the Compose cell of runner/cell.rs   *)
(* and the host debugger of runner/host_debug.rs.                          *)
(*                                                                         *)
(* The runner is one task.  Beside it run the command it waits for, the    *)
(* host debug command (a task of its own, started in the Debug phase and   *)
(* joined in the Trigger phase), what commands leave behind, and the       *)
(* containers of the cell.  What decides to release the trigger            *)
(* (runner/debug_control.rs) is one nondeterministic choice here.          *)
(***************************************************************************)
EXTENDS Naturals, Sequences, FiniteSets

CONSTANTS
  Plans,       \* the plans an execution may be given, see PlanType
  Descendants  \* TRUE: a process that a command leaves behind may keep its output pipes

Order == <<"Validate", "Reserve", "Reset", "Build", "Seed", "Launch",
           "Readiness", "Debug", "Trigger", "Observe", "Retain", "Cleanup">>

Phases == DOMAIN Order

Phase(name) == CHOOSE i \in Phases : Order[i] = name

\* What the catalog may declare of a provider: "output" stands for a marker in
\* stdout or stderr, "exit" for an exit code or a signal.
ProviderType ==
  {p \in [phase : Phases,
          observes : {"none", "timeout", "exit", "output"},
          fingerprint : BOOLEAN,
          cleanup : BOOLEAN,
          debug : BOOLEAN] :
     /\ Order[p.phase] \in {"Reset", "Build", "Seed", "Launch", "Debug",
                            "Trigger", "Observe", "Cleanup"}
     /\ p.fingerprint <=> Order[p.phase] \in {"Reset", "Seed"}
     /\ p.fingerprint => p.observes = "none"
     /\ p.debug => Order[p.phase] = "Trigger"}

\* "host": no cell.  "app": a cell with the application service only.  "full":
\* a cell with dependency services too.
PlanShape ==
  [providers : Seq(ProviderType),
   cell : {"host", "app", "full"},
   mode : {"Authoritative", "Diagnostic"}]

\* The providers as resolve_providers has sorted them, by phase.  It wants an observer;
\* a debug profile is refused beside a cell, and a diagnostic run on the host needs
\* exactly one.
PlanType ==
  {p \in PlanShape :
     LET debuggers == {i \in DOMAIN p.providers : p.providers[i].debug}
     IN  /\ \A i, j \in DOMAIN p.providers :
              i < j => p.providers[i].phase <= p.providers[j].phase
         /\ \E i \in DOMAIN p.providers : p.providers[i].observes # "none"
         /\ p.cell # "host" => debuggers = {}
         /\ p.cell = "host" /\ p.mode = "Diagnostic" => Cardinality(debuggers) = 1}

ASSUME ExecutionAssumption == Plans \subseteq PlanShape /\ Descendants \in BOOLEAN

Status == {"Pending", "Running", "Passed", "Failed", "Skipped"}

ProviderVerdict ==
  {"SetupPassed", "Reproduced", "NotReproduced", "DifferentFailure", "InfrastructureFailed"}

\* "Error" is an execution that returned an error instead of a PlanRun.
Verdict ==
  {"Reproduced", "NotReproduced", "DifferentFailure", "InfrastructureFailed",
   "Incomplete", "Error"}

Service == {"dependencies", "application"}

VARIABLES
  plan,        \* the plan, chosen at the start
  pc,          \* where execute_with_mode is
  next,        \* ExecutionState.next_index, from 1
  status,      \* ExecutionState.records: the status of each phase
  failed,      \* ExecutionState.failed
  at,          \* the provider in hand, or the next one
  phaseFailed, \* phase_failed
  seen,        \* the provider verdicts seen so far
  infra,       \* infrastructure_failure_seen
  different,   \* different_failure_seen
  ran,         \* provider_runs of the phases, in order
  verified,    \* providers whose state fingerprint matched
  attached,    \* diagnostic_receipt is set
  cmd,         \* the command the runner waits for
  task,        \* the host debug command
  left,        \* providers something of which is still to be cleaned up
  containers,  \* services of the cell that exist
  cleaned,     \* providers whose cleanup command was attempted, in order
  failures,    \* cleanup_failures
  receipt,     \* CellReceipt.cleanup, "none" before there is one
  verdict      \* the result, "none" until the end

recordVars == <<next, status, failed>>
tallyVars == <<seen, infra, different>>
worldVars == <<cmd, task, left, containers>>
cleanupVars == <<cleaned, failures, receipt>>
vars == <<plan, pc, recordVars, at, phaseFailed, tallyVars, ran, verified, attached,
          worldVars, cleanupVars, verdict>>

Providers == plan.providers

HasCell == plan.cell # "host"

Diagnostic == plan.mode = "Diagnostic"

\* The debug command of the plan runs instead of the provider's own.
Owned(i) == Diagnostic /\ ~HasCell /\ Providers[i].debug

---------------------------------------------------------------------------
\* Commands: run_command, as the runner and the debug task call it.

CommandState == {"idle", "running", "draining", "ended"}

\* What of a CommandResult decides anything: whether it timed out, whether its
\* exit code is a clean one and whether the observation's matcher accepts it.
ResultType == [timedOut : BOOLEAN, clean : BOOLEAN, matched : BOOLEAN]

NoCommand == [state |-> "idle", result |-> [timedOut |-> FALSE, clean |-> FALSE, matched |-> FALSE],
              held |-> FALSE]

Started == [NoCommand EXCEPT !.state = "running"]

\* A killed command has no exit code; a matcher sees only its own evidence.
Possible(matcher) ==
  {r \in ResultType :
     /\ r.timedOut => ~r.clean
     /\ matcher = "none" => ~r.matched
     /\ matcher = "timeout" => r.matched = r.timedOut
     /\ matcher = "exit" => ~(r.matched /\ r.timedOut)}

\* The child is gone: it exited, or the timeout killed it.  The output pipes
\* are read to their end, which is when no process holds them any more.
Ended(r, held) == [state |-> "draining", result |-> r, held |-> held]

Collected(c) == c.state = "draining" /\ ~c.held

\* evaluate_provider_result, before the state fingerprint is looked at.
Evaluate(p, r) ==
  CASE r.matched -> "Reproduced"
    [] ~r.matched /\ p.observes # "none" /\ r.timedOut -> "InfrastructureFailed"
    [] ~r.matched /\ p.observes # "none" /\ ~r.timedOut /\ r.clean -> "NotReproduced"
    [] ~r.matched /\ p.observes # "none" /\ ~r.timedOut /\ ~r.clean -> "DifferentFailure"
    [] p.observes = "none" /\ r.clean -> "SetupPassed"
    [] OTHER -> "InfrastructureFailed"

---------------------------------------------------------------------------
\* The phase record.

Begin == status' = [status EXCEPT ![next] = "Running"]

Finish(s) ==
  /\ status' = [status EXCEPT ![next] = s]
  /\ failed' = (failed \/ s = "Failed")
  /\ next' = next + 1

\* The phases after a failed one are not skipped.
MutantFailAndAdvance == Finish("Failed")

\* fail_and_advance_to_cleanup: the phases up to Cleanup are skipped.
FailAndAdvance ==
  /\ status' = [i \in Phases |->
                  IF i = next THEN "Failed"
                  ELSE IF i > next /\ i < Phase("Cleanup") THEN "Skipped"
                  ELSE status[i]]
  /\ failed' = TRUE
  /\ next' = Phase("Cleanup")

\* A phase ends with an error of the runner's own: cell, debugger or provider.
Abandon ==
  /\ seen' = seen \cup {"InfrastructureFailed"}
  /\ infra' = TRUE
  /\ FailAndAdvance
  /\ phaseFailed' = FALSE
  /\ pc' = "phase"
  /\ UNCHANGED different

---------------------------------------------------------------------------
Init ==
  /\ plan \in Plans
  /\ pc = "validate"
  /\ next = 1
  /\ status = [i \in Phases |-> IF i = 1 THEN "Running" ELSE "Pending"]
  /\ failed = FALSE
  /\ at = 1
  /\ phaseFailed = FALSE
  /\ seen = {} /\ infra = FALSE /\ different = FALSE
  /\ ran = <<>>
  /\ verified = {}
  /\ attached = FALSE
  /\ cmd = NoCommand /\ task = NoCommand
  /\ left = {} /\ containers = {}
  /\ cleaned = <<>> /\ failures = 0 /\ receipt = "none"
  /\ verdict = "none"

\* The catalog, the providers' digests and the cell's configuration are in order.
Validate ==
  /\ pc = "validate"
  /\ plan \in PlanType
  /\ Finish("Passed")
  /\ pc' = "phase"
  /\ UNCHANGED <<plan, at, phaseFailed, tallyVars, ran, verified, attached, worldVars,
                 cleanupVars, verdict>>

\* They are not, or the configuration cannot be read: nothing has been started.
Refuse ==
  /\ pc = "validate"
  /\ verdict' = "Error"
  /\ pc' = "done"
  /\ UNCHANGED <<plan, recordVars, at, phaseFailed, tallyVars, ran, verified, attached,
                 worldVars, cleanupVars>>

\* The services CellSession::before_phase starts in a phase.
StartedIn(i) ==
  CASE plan.cell = "full" /\ i = Phase("Reserve") -> {"dependencies"}
    [] HasCell /\ i = Phase("Launch") -> {"application"}
    [] OTHER -> {}

PausesIn(i) == Diagnostic /\ i = Phase("Debug")

MoreProviders == at <= Len(Providers) /\ Providers[at].phase = next

\* A phase without a provider is skipped, unless the cell or the debugger acted.
PhaseHasWork == MoreProviders \/ StartedIn(next) # {} \/ PausesIn(next)

StartPhase ==
  /\ pc = "phase"
  /\ next < Phase("Cleanup")
  /\ PhaseHasWork
  /\ Begin
  /\ pc' = CASE StartedIn(next) # {} -> "compose"
             [] PausesIn(next) -> "attach"
             [] OTHER -> "provider"
  /\ UNCHANGED <<plan, next, failed, at, phaseFailed, tallyVars, ran, verified, attached,
                 worldVars, cleanupVars, verdict>>

SkipPhase ==
  /\ pc = "phase"
  /\ next < Phase("Cleanup")
  /\ ~PhaseHasWork
  /\ Finish("Skipped")
  /\ UNCHANGED <<plan, pc, at, phaseFailed, tallyVars, ran, verified, attached,
                 worldVars, cleanupVars, verdict>>

\* Cell or debugger are ready: the providers of the phase, if any, run now.
EnterProviders ==
  IF MoreProviders
  THEN pc' = "provider" /\ UNCHANGED recordVars
  ELSE pc' = "phase" /\ Finish("Passed")

ComposeUp ==
  /\ pc = "compose"
  /\ containers' = containers \cup StartedIn(next)
  /\ EnterProviders
  /\ UNCHANGED <<plan, at, phaseFailed, tallyVars, ran, verified, attached, cmd, task,
                 left, cleanupVars, verdict>>

\* `docker compose up` fails or times out with some of it done.
ComposeUpFails ==
  /\ pc = "compose"
  /\ \E some \in SUBSET StartedIn(next) : containers' = containers \cup some
  /\ Abandon
  /\ UNCHANGED <<plan, at, ran, verified, attached, cmd, task, left, cleanupVars, verdict>>

\* On the host, HostDebugSession::start launches the debug command; in a cell
\* the debugger came up with the application.
StartDebugger ==
  /\ pc = "attach"
  /\ task' = IF HasCell THEN task ELSE Started
  /\ pc' = "endpoint"
  /\ UNCHANGED <<plan, recordVars, at, phaseFailed, tallyVars, ran, verified, attached,
                 cmd, left, containers, cleanupVars, verdict>>

EndpointReady ==
  /\ pc = "endpoint"
  /\ HasCell \/ task.state # "ended"
  /\ pc' = "pause"
  /\ UNCHANGED <<plan, recordVars, at, phaseFailed, tallyVars, ran, verified, attached,
                 worldVars, cleanupVars, verdict>>

\* The endpoint does not open in time, or the debug command is over.
EndpointFails ==
  /\ pc = "endpoint"
  /\ Abandon
  /\ UNCHANGED <<plan, at, ran, verified, attached, worldVars, cleanupVars, verdict>>

\* Enter on the terminal or replay-trigger from the IDE.
ReleaseTrigger ==
  /\ pc = "pause"
  /\ attached' = TRUE
  /\ EnterProviders
  /\ UNCHANGED <<plan, at, phaseFailed, tallyVars, ran, verified, worldVars, cleanupVars,
                 verdict>>

\* Stop from the IDE, end of input, or an error of the control connection.
StopSession ==
  /\ pc = "pause"
  /\ Abandon
  /\ UNCHANGED <<plan, at, ran, verified, attached, worldVars, cleanupVars, verdict>>

---------------------------------------------------------------------------
\* The providers of a phase.

RunProvider ==
  /\ pc = "provider"
  /\ IF Owned(at)
     THEN pc' = "join" /\ UNCHANGED cmd
     ELSE pc' = "command" /\ cmd' = Started
  /\ UNCHANGED <<plan, recordVars, at, phaseFailed, tallyVars, ran, verified, attached,
                 task, left, containers, cleanupVars, verdict>>

Run(v, r) == [provider |-> at, verdict |-> v, timedOut |-> r.timedOut, matched |-> r.matched]

\* What may be left of the provider in hand once its command is over.  What a provider
\* without a cleanup starts and leaves running is nobody's to stop: it does not count.
MayLeave(i) == IF Providers[i].cleanup THEN {left, left \cup {i}} ELSE {left}

\* execute_provider returns an error: no such executable, or a collector failed after
\* the command had run; or finish_trigger returns that of the debug task.  The
\* remaining providers of the phase are left out.
ProviderError ==
  /\ \/ pc = "provider" /\ ~Owned(at) /\ left' \in MayLeave(at) /\ UNCHANGED task
     \/ pc = "join" /\ task.state = "ended" /\ task' = NoCommand /\ UNCHANGED left
  /\ ran' = Append(ran, Run("InfrastructureFailed", NoCommand.result))
  /\ Abandon
  /\ UNCHANGED <<plan, at, verified, attached, cmd, containers, cleanupVars, verdict>>

\* The provider in hand whose own command the debug task is.
DebugProvider == CHOOSE i \in DOMAIN Providers : Owned(i)

CommandEnds ==
  /\ cmd.state = "running"
  /\ \E r \in Possible(IF pc = "command" THEN Providers[at].observes ELSE "none"),
        held \in {FALSE, Descendants} :
       cmd' = Ended(r, held)
  /\ left' \in IF pc = "command" THEN MayLeave(at) ELSE {left}
  /\ UNCHANGED <<plan, pc, recordVars, at, phaseFailed, tallyVars, ran, verified, attached,
                 task, containers, cleanupVars, verdict>>

DebugCommandEnds ==
  /\ task.state = "running"
  /\ \E r \in Possible(Providers[DebugProvider].observes), held \in {FALSE, Descendants} :
       task' = Ended(r, held)
  /\ left' \in MayLeave(DebugProvider)
  /\ UNCHANGED <<plan, pc, recordVars, at, phaseFailed, tallyVars, ran, verified, attached,
                 cmd, containers, cleanupVars, verdict>>

DebugCommandCollected ==
  /\ Collected(task)
  /\ task' = [task EXCEPT !.state = "ended"]
  /\ UNCHANGED <<plan, pc, recordVars, at, phaseFailed, tallyVars, ran, verified, attached,
                 cmd, left, containers, cleanupVars, verdict>>

\* A process left behind closes the pipes it inherited; nothing makes it do so.
PipesClose ==
  /\ \/ cmd.held /\ cmd' = [cmd EXCEPT !.held = FALSE] /\ UNCHANGED task
     \/ task.held /\ task' = [task EXCEPT !.held = FALSE] /\ UNCHANGED cmd
  /\ UNCHANGED <<plan, pc, recordVars, at, phaseFailed, tallyVars, ran, verified, attached,
                 left, containers, cleanupVars, verdict>>

\* The verdict of the provider in hand is in: the next provider of the phase
\* follows even after a bad one, and a phase with a bad one has failed.
Conclude(v, r) ==
  LET bad == v \in {"DifferentFailure", "InfrastructureFailed"}
      more == at < Len(Providers) /\ Providers[at + 1].phase = next
  IN  /\ ran' = Append(ran, Run(v, r))
      /\ seen' = seen \cup {v}
      /\ infra' = (infra \/ v = "InfrastructureFailed")
      /\ different' = (different \/ v = "DifferentFailure")
      /\ at' = at + 1
      /\ phaseFailed' = (more /\ (phaseFailed \/ bad))
      /\ pc' = IF more THEN "provider" ELSE "phase"
      /\ IF more THEN UNCHANGED recordVars
         ELSE IF phaseFailed \/ bad THEN FailAndAdvance
         ELSE Finish("Passed")

\* A setup provider that exited cleanly still has to prove its state.
Assess(r) ==
  LET v == Evaluate(Providers[at], r)
  IN  IF v = "SetupPassed" /\ Providers[at].fingerprint
      THEN /\ pc' = "probe"
           /\ cmd' = Started
           /\ UNCHANGED <<recordVars, at, phaseFailed, tallyVars, ran>>
      ELSE /\ cmd' = NoCommand
           /\ Conclude(v, r)

ProviderDone ==
  /\ pc = "command"
  /\ Collected(cmd)
  /\ Assess(cmd.result)
  /\ UNCHANGED <<plan, verified, attached, task, left, containers, cleanupVars, verdict>>

\* finish_trigger waits for the debug task.
DebugDone ==
  /\ pc = "join"
  /\ task.state = "ended"
  /\ Assess(task.result)
  /\ task' = NoCommand
  /\ UNCHANGED <<plan, verified, attached, left, containers, cleanupVars, verdict>>

\* The probe exits cleanly and prints the expected state, or it does not.
ProbeDone ==
  /\ pc = "probe"
  /\ Collected(cmd)
  /\ \E matches \in {FALSE, cmd.result.clean} :
       /\ verified' = IF matches THEN verified \cup {at} ELSE verified
       /\ Conclude(IF matches THEN "SetupPassed" ELSE "InfrastructureFailed",
                   NoCommand.result)
  /\ cmd' = NoCommand
  /\ UNCHANGED <<plan, attached, task, left, containers, cleanupVars, verdict>>

---------------------------------------------------------------------------
\* Cleanup: reached from every exit of the phase loop.

\* The debug command is left to its timeout.
MutantStartCleanup ==
  /\ pc = "phase"
  /\ next = Phase("Cleanup")
  /\ Begin
  /\ pc' = "cleanup"
  /\ at' = Len(Providers)
  /\ failures' = 0
  /\ UNCHANGED <<plan, next, failed, phaseFailed, tallyVars, ran, verified, attached,
                 worldVars, cleaned, receipt, verdict>>

\* The host debug task is aborted, which kills its command, before the first
\* cleanup command; its receipt may be refused.
StartCleanup ==
  /\ pc = "phase"
  /\ next = Phase("Cleanup")
  /\ Begin
  /\ pc' = "cleanup"
  /\ at' = Len(Providers)
  /\ task' = NoCommand
  /\ failures' \in IF Diagnostic /\ ~HasCell THEN {0, 1} ELSE {0}
  /\ UNCHANGED <<plan, next, failed, phaseFailed, tallyVars, ran, verified, attached,
                 cmd, left, containers, cleaned, receipt, verdict>>

\* run_cleanup goes through all providers backwards, whether they ran or not.
CleanProvider ==
  /\ pc = "cleanup"
  /\ at > 0
  /\ IF Providers[at].cleanup
     THEN pc' = "cleaning" /\ cmd' = Started /\ UNCHANGED at
     ELSE at' = at - 1 /\ UNCHANGED <<pc, cmd>>
  /\ UNCHANGED <<plan, recordVars, phaseFailed, tallyVars, ran, verified, attached,
                 task, left, containers, cleanupVars, verdict>>

\* The cleanup command could not be run: counted, and the next one is tried.
CleanupError ==
  /\ pc = "cleanup"
  /\ at > 0 /\ Providers[at].cleanup
  /\ cleaned' = Append(cleaned, at)
  /\ failures' = failures + 1
  /\ at' = at - 1
  /\ UNCHANGED <<plan, pc, recordVars, phaseFailed, tallyVars, ran, verified, attached,
                 worldVars, receipt, verdict>>

\* The loop a `?` in place of the count would make of run_cleanup.
MutantCleanupDone ==
  /\ pc = "cleaning"
  /\ Collected(cmd)
  /\ cleaned' = Append(cleaned, at)
  /\ failures' = failures + IF cmd.result.clean THEN 0 ELSE 1
  /\ left' \in IF cmd.result.clean THEN {left \ {at}} ELSE {left, left \ {at}}
  /\ cmd' = NoCommand
  /\ at' = IF cmd.result.clean THEN at - 1 ELSE 0
  /\ pc' = "cleanup"
  /\ UNCHANGED <<plan, recordVars, phaseFailed, tallyVars, ran, verified, attached,
                 task, containers, receipt, verdict>>

\* A cleanup that is tried until it succeeds.
MutantCleanupRetried ==
  /\ pc = "cleaning"
  /\ Collected(cmd)
  /\ IF cmd.result.clean
     THEN cleaned' = Append(cleaned, at) /\ at' = at - 1 /\ left' = left \ {at}
     ELSE UNCHANGED <<cleaned, at, left>>
  /\ cmd' = NoCommand
  /\ pc' = "cleanup"
  /\ UNCHANGED <<plan, recordVars, phaseFailed, tallyVars, ran, verified, attached,
                 task, containers, failures, receipt, verdict>>

\* A cleanup command that exits cleanly has stopped what its provider left; one
\* that does not may have stopped it or not.
CleanupDone ==
  /\ pc = "cleaning"
  /\ Collected(cmd)
  /\ cleaned' = Append(cleaned, at)
  /\ failures' = failures + IF cmd.result.clean THEN 0 ELSE 1
  /\ left' \in IF cmd.result.clean THEN {left \ {at}} ELSE {left, left \ {at}}
  /\ cmd' = NoCommand
  /\ at' = at - 1
  /\ pc' = "cleanup"
  /\ UNCHANGED <<plan, recordVars, phaseFailed, tallyVars, ran, verified, attached,
                 task, containers, receipt, verdict>>

CleanupsTried ==
  /\ pc = "cleanup"
  /\ at = 0
  /\ pc' = IF HasCell THEN "down" ELSE "finish"
  /\ UNCHANGED <<plan, recordVars, at, phaseFailed, tallyVars, ran, verified, attached,
                 worldVars, cleanupVars, verdict>>

\* A cleanup that believes `down` without asking what remains.
MutantTearDown ==
  /\ pc = "down"
  /\ containers' \in SUBSET containers
  /\ \E downOk \in BOOLEAN : receipt' = IF downOk THEN "Verified" ELSE "Failed"
  /\ failures' = failures + IF receipt' = "Verified" THEN 0 ELSE 1
  /\ pc' = "finish"
  /\ UNCHANGED <<plan, recordVars, at, phaseFailed, tallyVars, ran, verified, attached,
                 cmd, task, left, cleaned, verdict>>

\* CellSession::cleanup: `docker compose down`, then the query for what is
\* left of the project, then the receipt.  Each may fail.
TearDown ==
  /\ pc = "down"
  /\ containers' \in SUBSET containers
  /\ \E downOk, queryOk, written \in BOOLEAN :
       receipt' = IF downOk /\ queryOk /\ containers' = {} /\ written
                  THEN "Verified" ELSE "Failed"
  /\ failures' = failures + IF receipt' = "Verified" THEN 0 ELSE 1
  /\ pc' = "finish"
  /\ UNCHANGED <<plan, recordVars, at, phaseFailed, tallyVars, ran, verified, attached,
                 cmd, task, left, cleaned, verdict>>

\* What a provider observed outranks what went wrong.
MutantFold(verdicts) ==
  CASE "Reproduced" \in verdicts -> "Reproduced"
    [] "Reproduced" \notin verdicts /\ "NotReproduced" \in verdicts -> "NotReproduced"
    [] OTHER -> "InfrastructureFailed"

\* fold_provider_verdicts: by severity and not by order.
Fold(verdicts) ==
  CASE "InfrastructureFailed" \in verdicts -> "InfrastructureFailed"
    [] "InfrastructureFailed" \notin verdicts /\ "DifferentFailure" \in verdicts ->
         "DifferentFailure"
    [] verdicts \cap {"InfrastructureFailed", "DifferentFailure"} = {}
         /\ "Reproduced" \in verdicts -> "Reproduced"
    [] verdicts \cap {"InfrastructureFailed", "DifferentFailure", "Reproduced"} = {}
         /\ "NotReproduced" \in verdicts -> "NotReproduced"
    [] OTHER -> "Incomplete"

\* Cleanup is recorded and the verdict is folded.  In a diagnostic run that
\* got as far as its trigger, installing the final descriptor may fail.
FinishRun ==
  /\ pc = "finish"
  /\ Finish(IF failures = 0 THEN "Passed" ELSE "Failed")
  /\ seen' = IF failures = 0 THEN seen ELSE seen \cup {"InfrastructureFailed"}
  /\ infra' = (infra \/ failures > 0)
  /\ verdict' \in {IF Diagnostic THEN "Incomplete" ELSE Fold(seen')}
                    \cup (IF attached THEN {"Error"} ELSE {})
  /\ pc' = "done"
  /\ UNCHANGED <<plan, at, phaseFailed, different, ran, verified, attached, worldVars,
                 cleanupVars>>

---------------------------------------------------------------------------
Runner ==
  \/ Validate \/ Refuse
  \/ StartPhase \/ SkipPhase
  \/ ComposeUp \/ ComposeUpFails
  \/ StartDebugger \/ EndpointReady \/ EndpointFails
  \/ RunProvider \/ ProviderError \/ ProviderDone \/ DebugDone \/ ProbeDone
  \/ StartCleanup \/ CleanProvider \/ CleanupError \/ CleanupDone \/ CleanupsTried
  \/ TearDown \/ FinishRun

\* A child exits, or its timeout ends it.
Children == CommandEnds \/ DebugCommandEnds \/ DebugCommandCollected

Person == ReleaseTrigger \/ StopSession

Next == Runner \/ Children \/ Person \/ PipesClose

Spec == Init /\ [][Next]_vars

\* Every wait of the runner and of its children is bounded by a timeout, but for
\* the person at the debugger and for whoever holds an output pipe.
FairSpec == Spec /\ WF_vars(Runner) /\ WF_vars(Children)

---------------------------------------------------------------------------
TypeOK ==
  /\ plan \in Plans
  /\ pc \in {"validate", "phase", "compose", "attach", "endpoint", "pause", "provider",
             "command", "join", "probe", "cleanup", "cleaning", "down", "finish", "done"}
  /\ next \in 1 .. Len(Order) + 1
  /\ status \in [Phases -> Status]
  /\ failed \in BOOLEAN /\ phaseFailed \in BOOLEAN /\ attached \in BOOLEAN
  /\ at \in 0 .. Len(Providers) + 1
  /\ seen \subseteq ProviderVerdict
  /\ infra \in BOOLEAN /\ different \in BOOLEAN
  /\ ran \in Seq([provider : DOMAIN Providers, verdict : ProviderVerdict,
                  timedOut : BOOLEAN, matched : BOOLEAN])
  /\ verified \subseteq DOMAIN Providers
  /\ {cmd, task} \subseteq [state : CommandState, result : ResultType, held : BOOLEAN]
  /\ left \subseteq DOMAIN Providers
  /\ containers \subseteq Service
  /\ cleaned \in Seq(DOMAIN Providers)
  /\ failures \in Nat
  /\ receipt \in {"none", "Verified", "Failed"}
  /\ verdict \in Verdict \cup {"none"}

Conclusive == verdict \in {"Reproduced", "NotReproduced"}

\* What a bound provider's command has to do with the verdict: it ran, once,
\* in its turn, and nothing went wrong with it.
RanOnceInTurn(is) ==
  /\ [i \in DOMAIN ran |-> ran[i].provider] = is
  /\ \A i \in DOMAIN ran : ran[i].verdict \in {"SetupPassed", "Reproduced", "NotReproduced"}

\* The providers of a phase that the loop visits, in order.
Visited ==
  [i \in 1 .. Cardinality({j \in DOMAIN Providers : Order[Providers[j].phase] # "Cleanup"}) |-> i]

\* docs/execution-providers.md: a reset or seed without matching state evidence "never
\* counts as a clean starting state".  A verdict about the bug rests on a whole
\* run: every provider of every phase ran exactly once, in plan order, none of
\* them failed, and every state fingerprint was verified.
EvidenceIsWhole ==
  Conclusive =>
    /\ RanOnceInTurn(Visited)
    /\ {i \in DOMAIN Providers : Providers[i].fingerprint} \subseteq verified

\* A verdict about the bug leaves nothing behind: what the providers with a
\* cleanup command left is cleaned up and no service of the cell exists.  Any
\* cleanup that may have failed makes the run an infrastructure failure.
EvidenceLeavesNothing == Conclusive => left = {} /\ containers = {}

\* docs/decisions/architecture.md: "Cleanup is attempted in reverse provider order after
\* success, a different failure, timeout, or infrastructure failure": each
\* cleanup command once, backwards, whatever the others did.
CleanupIsWhole ==
  pc = "done" /\ status[Phase("Cleanup")] # "Pending" =>
    LET declared == {i \in DOMAIN Providers : Providers[i].cleanup}
    IN  /\ Len(cleaned) = Cardinality(declared)
        /\ {cleaned[i] : i \in DOMAIN cleaned} = declared
        /\ \A i, j \in DOMAIN cleaned : i < j => cleaned[i] > cleaned[j]

\* The debug_assert of execute_with_mode, and what the record says: when the run
\* is over no phase is pending or running, and the phases between a failed one
\* and Cleanup were skipped without a provider of theirs having run.
RecordAgrees ==
  pc = "done" /\ verdict # "none" /\ status[1] = "Passed" =>
    /\ failed = (infra \/ different)
    /\ failed <=> \E i \in Phases : status[i] = "Failed"
    /\ \A i \in Phases : status[i] \notin {"Pending", "Running"}
    /\ \A i, j \in Phases :
         status[i] = "Failed" /\ i < j /\ j < Phase("Cleanup") =>
           /\ status[j] = "Skipped"
           /\ \A k \in DOMAIN ran : Providers[ran[k].provider].phase # j

\* docs/execution-providers.md: "A timeout or provider failure is infrastructure failure,
\* not evidence that the bug reproduced or disappeared": a command that timed
\* out is no reproduction unless a timeout is what its matcher waits for.
TimeoutIsNoEvidence ==
  verdict = "Reproduced" =>
    \E k \in DOMAIN ran :
      /\ ran[k].verdict = "Reproduced"
      /\ ran[k].timedOut => Providers[ran[k].provider].observes = "timeout"

Working == {"phase", "compose", "attach", "endpoint", "provider", "command", "join", "probe"}

\* docs/decisions/architecture.md: "Cleanup is attempted ... after success, a different
\* failure, timeout, or infrastructure failure".  A run that has started its work
\* comes to its cleanup, unless a person keeps the trigger.
CleanupIsAttempted == [](pc \in Working => <>(pc \in {"cleanup", "pause"}))

\* What holds of it: a run comes to its cleanup and the cleanup to an end, unless
\* a process keeps an output pipe for ever.
EndsUnlessPipeHeld ==
  \/ CleanupIsAttempted /\ [](pc = "cleanup" => <>(pc = "done"))
  \/ <>[](cmd.held \/ task.held)

\* What the run has taken from the machine and has to give back.
Taken == {<<"provider", i>> : i \in left} \cup {<<"service", s>> : s \in containers}

Owed ==
  INSTANCE Bracket WITH
    Resource <- ({"provider"} \X Nat) \cup ({"service"} \X Service),
    held <- Taken,
    stage <- CASE pc = "done" -> "ended"
               [] pc \in {"cleanup", "cleaning", "down", "finish"} -> "releasing"
               [] OTHER -> "working",
    report <- IF pc # "done" THEN "none"
              ELSE CASE status[Phase("Cleanup")] = "Passed" -> "clean"
                     [] status[Phase("Cleanup")] = "Failed" -> "dirty"
                     [] OTHER -> "none"

\* Nothing is taken once the run gives back, and its cleanup phase passes only
\* if it holds nothing.
ImplementsBracket == Owed!Spec
=============================================================================
