------------------------------ MODULE PlanProofs -----------------------------
(***************************************************************************)
(* Proofs about ExecutionRun and PlanCheck, for every plan and every       *)
(* number of executions.                                                   *)
(*                                                                         *)
(* The invariant Sound of one execution says where the run is (Place,      *)
(* Commands, ResultsBelong), what its record of phases shows (Record),     *)
(* what it has left in the world (World, CleanupInTurn) and which runs of  *)
(* providers its verdict will rest on (Evidence).  A step is classified    *)
(* first (StepKinds) and each part is then kept kind by kind.  IInv adds   *)
(* the check around the executions.                                        *)
(***************************************************************************)
EXTENDS PlanCheck, FiniteSetTheorems, TLAPS

\* The places of a run, by what it has in hand.
WithProvider == {"provider", "command", "join", "probe"}

InPhase == {"compose", "attach", "endpoint", "pause"} \cup WithProvider

Releasing == {"cleanup", "cleaning", "down", "finish"}

\* Where the run is says which phase it is in and which provider it has in hand.
Place ==
  /\ pc = "validate" => next = 1
  /\ pc = "phase" => next \in 2 .. 12
  /\ pc \in InPhase => next \in 2 .. 11
  /\ pc \in {"validate", "phase"} \cup InPhase => at >= 1
  /\ pc \in WithProvider => at <= Len(Providers) /\ Providers[at].phase = next
  /\ pc \in Releasing => next = 12
  /\ pc \in {"cleanup", "cleaning"} => at <= Len(Providers)
  /\ pc = "cleaning" => at >= 1 /\ Providers[at].cleanup
  /\ pc \in {"down", "finish"} => at = 0
  /\ pc \in {"attach", "endpoint", "pause"} => Diagnostic
  /\ pc \in {"compose", "down"} => HasCell
  /\ IF pc = "done" THEN verdict \in Verdict ELSE verdict = "none"
  /\ pc = "done" => next = 13 \/ (next = 1 /\ verdict = "Error")
  /\ next # 1 => plan \in PlanType

\* What runs beside the run, and when.
Commands ==
  /\ cmd # NoCommand => pc \in {"command", "probe", "cleaning"}
  /\ task # NoCommand => pc \in InPhase \cup {"phase"} /\ Diagnostic /\ ~HasCell

-----------------------------------------------------------------------------
(* Types. *)

\* The phases by number.
LEMMA PhaseFacts ==
  /\ Len(Order) = 12 /\ Phases = 1 .. 12
  /\ Phase("Reserve") = 2 /\ Phase("Launch") = 6
  /\ Phase("Debug") = 8 /\ Phase("Cleanup") = 12
<1>1. Len(Order) = 12 /\ Phases = 1 .. 12
  BY DEF Order, Phases
<1>2. \A i \in 1 .. 12 :
        /\ (Order[i] = "Reserve") <=> i = 2
        /\ (Order[i] = "Launch") <=> i = 6
        /\ (Order[i] = "Debug") <=> i = 8
        /\ (Order[i] = "Cleanup") <=> i = 12
  BY DEF Order
<1> QED BY <1>1, <1>2 DEF Phase

\* The providers of a plan.
LEMMA ProviderFacts ==
  ASSUME plan \in PlanShape
  PROVE  /\ Len(Providers) \in Nat /\ DOMAIN Providers = 1 .. Len(Providers)
         /\ \A i \in DOMAIN Providers : Providers[i] \in ProviderType
<1>1. Providers \in Seq(ProviderType)
  BY DEF PlanShape, Providers
<1> QED BY <1>1

\* A provider belongs to a phase that runs providers.
LEMMA TypeFacts ==
  \A p \in ProviderType :
    /\ p.phase \in 1 .. 12 /\ p.phase > 2
    /\ p.cleanup \in BOOLEAN /\ p.debug \in BOOLEAN /\ p.fingerprint \in BOOLEAN
    /\ p.observes \in {"none", "timeout", "exit", "output"}
<1>1. Order[1] = "Validate" /\ Order[2] = "Reserve"
  BY DEF Order
<1> QED BY <1>1, PhaseFacts DEF ProviderType

\* The commands' values.
LEMMA CommandFacts ==
  /\ NoCommand \in [state : CommandState, result : ResultType, held : BOOLEAN]
  /\ Started \in [state : CommandState, result : ResultType, held : BOOLEAN]
  /\ NoCommand.state = "idle" /\ ~NoCommand.held /\ NoCommand.result \in ResultType
  /\ Started.state = "running" /\ Started # NoCommand
  /\ \A matcher : Possible(matcher) \subseteq ResultType
  /\ \A r \in ResultType, held \in BOOLEAN :
       Ended(r, held) \in [state : CommandState, result : ResultType, held : BOOLEAN]
BY DEF NoCommand, Started, CommandState, ResultType, Possible, Ended

\* A provider is judged by one of the five verdicts.
LEMMA EvaluateFacts ==
  ASSUME NEW p, NEW r
  PROVE  Evaluate(p, r) \in ProviderVerdict
BY DEF Evaluate, ProviderVerdict
Places ==
  {"validate", "phase", "compose", "attach", "endpoint", "pause", "provider", "command", "join",
   "probe", "cleanup", "cleaning", "down", "finish", "done"}

Runs1 ==
  [provider : DOMAIN Providers, verdict : ProviderVerdict, timedOut : BOOLEAN, matched : BOOLEAN]

\* The types without those of what a step seldom touches.
RecordTypes ==
  /\ next \in 1 .. 13 /\ status \in [1 .. 12 -> Status] /\ failed \in BOOLEAN

\* The type invariant, with the record of phases under its own name.
LEMMA TypesMean ==
  TypeOK <=>
    /\ plan \in Plans /\ pc \in Places /\ RecordTypes
    /\ phaseFailed \in BOOLEAN /\ attached \in BOOLEAN
    /\ at \in 0 .. Len(Providers) + 1
    /\ seen \subseteq ProviderVerdict /\ infra \in BOOLEAN /\ different \in BOOLEAN
    /\ ran \in Seq(Runs1) /\ verified \subseteq DOMAIN Providers
    /\ {cmd, task} \subseteq [state : CommandState, result : ResultType, held : BOOLEAN]
    /\ left \subseteq DOMAIN Providers /\ containers \subseteq Service
    /\ cleaned \in Seq(DOMAIN Providers) /\ failures \in Nat
    /\ receipt \in {"none", "Verified", "Failed"} /\ verdict \in Verdict \cup {"none"}
BY PhaseFacts DEF TypeOK, Places, RecordTypes, Runs1

\* Ending, failing and beginning a phase keep the types of the record.
LEMMA FinishTypes ==
  ASSUME RecordTypes, next <= 12, NEW s \in {"Passed", "Failed", "Skipped"}, Finish(s)
  PROVE  RecordTypes'
BY DEF RecordTypes, Finish, Status

\* A failure that moves on to the next phase keeps the types of the record.
LEMMA FailTypes ==
  ASSUME RecordTypes, FailAndAdvance
  PROVE  RecordTypes'
BY PhaseFacts DEF RecordTypes, FailAndAdvance, Status

\* So does the begin of a phase.
LEMMA BeginTypes ==
  ASSUME RecordTypes, Begin, UNCHANGED <<next, failed>>
  PROVE  RecordTypes'
BY DEF RecordTypes, Begin, Status

\* A row of the provider runs is a row.
LEMMA RunTypes ==
  ASSUME TypeOK, at \in DOMAIN Providers, NEW v \in ProviderVerdict, NEW r \in ResultType
  PROVE  Append(ran, Run(v, r)) \in Seq(Runs1)
<1>1. Run(v, r) \in Runs1
  BY DEF Run, Runs1, ResultType
<1> QED BY <1>1, TypesMean

\* Judging a provider keeps the types of what it writes.
LEMMA ConcludeTypes ==
  ASSUME TypeOK, Place, pc \in WithProvider, at \in DOMAIN Providers,
         NEW v \in ProviderVerdict, NEW r \in ResultType, Conclude(v, r)
  PROVE  /\ ran' \in Seq(Runs1) /\ RecordTypes' /\ pc' \in {"provider", "phase"}
         /\ seen' \subseteq ProviderVerdict /\ infra' \in BOOLEAN /\ different' \in BOOLEAN
         /\ at' = at + 1 /\ phaseFailed' \in BOOLEAN
<1>1. RecordTypes /\ next <= 12
  BY TypesMean DEF Place, InPhase
<1>2. RecordTypes'
  <2>1. \/ UNCHANGED recordVars \/ FailAndAdvance \/ Finish("Passed")
    BY DEF Conclude
  <2>2. ASSUME UNCHANGED recordVars PROVE RecordTypes'
    BY <1>1, <2>2 DEF RecordTypes, recordVars
  <2> QED BY <1>1, <2>1, <2>2, FinishTypes, FailTypes
<1>3. ran' \in Seq(Runs1)
  BY RunTypes DEF Conclude
<1> QED BY <1>2, <1>3, TypesMean DEF Conclude
\* A host debug command is some provider's.
LEMMA OneDebugger ==
  ASSUME Place, Commands, plan \in PlanShape, task.state = "running"
  PROVE  DebugProvider \in DOMAIN Providers /\ Owned(DebugProvider)
<1>1. task # NoCommand
  BY CommandFacts
<1>2. Diagnostic /\ ~HasCell /\ plan \in PlanType
  BY <1>1 DEF Commands, Place, InPhase, WithProvider
<1> DEFINE debuggers == {i \in DOMAIN Providers : Providers[i].debug}
<1>3. Cardinality(debuggers) = 1
  BY <1>2 DEF PlanType, PlanShape, Diagnostic, HasCell, Providers
<1>4. debuggers # {}
  BY <1>3, FS_EmptySet
<1>5. \E i \in DOMAIN Providers : Owned(i)
  BY <1>2, <1>4 DEF Owned
<1> QED BY <1>5 DEF DebugProvider

\* The same of the next state, in a step that keeps the plan.
LEMMA TypesThen ==
  ASSUME plan' = plan
  PROVE  TypeOK' <=>
    /\ plan \in Plans /\ pc' \in Places /\ RecordTypes'
    /\ phaseFailed' \in BOOLEAN /\ attached' \in BOOLEAN
    /\ at' \in 0 .. Len(Providers) + 1
    /\ seen' \subseteq ProviderVerdict /\ infra' \in BOOLEAN /\ different' \in BOOLEAN
    /\ ran' \in Seq(Runs1) /\ verified' \subseteq DOMAIN Providers
    /\ {cmd', task'} \subseteq [state : CommandState, result : ResultType, held : BOOLEAN]
    /\ left' \subseteq DOMAIN Providers /\ containers' \subseteq Service
    /\ cleaned' \in Seq(DOMAIN Providers) /\ failures' \in Nat
    /\ receipt' \in {"none", "Verified", "Failed"} /\ verdict' \in Verdict \cup {"none"}
<1>1. Providers' = Providers
  BY DEF Providers
<1> QED BY <1>1, PhaseFacts DEF TypeOK, Places, RecordTypes, Runs1

\* A step that leaves the record alone keeps its types.
LEMMA RecordStays == RecordTypes /\ UNCHANGED recordVars => RecordTypes'
BY DEF RecordTypes, recordVars

\* So does abandoning a phase, and entering the providers of one.
LEMMA AbandonTypes ==
  ASSUME TypeOK, Abandon
  PROVE  /\ RecordTypes' /\ seen' \subseteq ProviderVerdict /\ infra' \in BOOLEAN
         /\ different' \in BOOLEAN /\ phaseFailed' \in BOOLEAN /\ pc' \in Places
BY TypesMean, FailTypes DEF Abandon, ProviderVerdict, Places

\* Entering a phase of the providers keeps the types.
LEMMA EnterTypes ==
  ASSUME TypeOK, next <= 12, EnterProviders
  PROVE  RecordTypes' /\ pc' \in Places
BY TypesMean, FinishTypes, RecordStays DEF EnterProviders, Places

\* A command that ended is a command.
LEMMA EndedTypes ==
  ASSUME NEW matcher, NEW r \in Possible(matcher), NEW held \in {FALSE, Descendants}
  PROVE  Ended(r, held) \in [state : CommandState, result : ResultType, held : BOOLEAN]
BY CommandFacts, ExecutionAssumption

\* Only providers leave something behind.
LEMMA LeaveTypes ==
  ASSUME TypeOK, NEW i \in DOMAIN Providers, NEW l \in MayLeave(i)
  PROVE  l \subseteq DOMAIN Providers
BY TypesMean DEF MayLeave

\* Every step of a run keeps the types.
LEMMA StepTypes ==
  ASSUME TypeOK, Place, Commands, plan \in PlanShape, Next
  PROVE  TypeOK'
<1>0. /\ Len(Providers) \in Nat /\ DOMAIN Providers = 1 .. Len(Providers)
      /\ \A i \in DOMAIN Providers : Providers[i] \in ProviderType
  BY ProviderFacts
<1> USE <1>0, TypesMean, TypesThen, CommandFacts
<1>1. ASSUME Validate PROVE TypeOK'
  BY <1>1, FinishTypes DEF Validate, Places, tallyVars, worldVars, cleanupVars, Place
<1>2. ASSUME Refuse PROVE TypeOK'
  BY <1>2, RecordStays DEF Refuse, Places, tallyVars, worldVars, cleanupVars, Verdict
<1>3. ASSUME StartPhase PROVE TypeOK'
  BY <1>3, BeginTypes DEF StartPhase, Places, tallyVars, worldVars, cleanupVars
<1>4. ASSUME SkipPhase PROVE TypeOK'
  <2>1. RecordTypes'
    <3>1. next <= 12
      BY <1>4, PhaseFacts DEF SkipPhase, RecordTypes
    <3> QED BY <1>4, <3>1, FinishTypes DEF SkipPhase, Status
  <2> QED BY <1>4, <2>1 DEF SkipPhase, tallyVars, worldVars, cleanupVars
<1>5. ASSUME ComposeUp PROVE TypeOK'
  <2>1. StartedIn(next) \subseteq Service
    BY DEF StartedIn, Service
  <2> QED BY <1>5, <2>1, EnterTypes DEF ComposeUp, Place, InPhase, tallyVars, cleanupVars
<1>6. ASSUME ComposeUpFails PROVE TypeOK'
  <2>1. StartedIn(next) \subseteq Service
    BY DEF StartedIn, Service
  <2> QED BY <1>6, <2>1, AbandonTypes DEF ComposeUpFails, cleanupVars
<1>7. ASSUME StartDebugger PROVE TypeOK'
  BY <1>7, RecordStays DEF StartDebugger, Places, tallyVars, cleanupVars
<1>8. ASSUME EndpointReady PROVE TypeOK'
  BY <1>8, RecordStays DEF EndpointReady, Places, tallyVars, worldVars, cleanupVars
<1>9. ASSUME EndpointFails PROVE TypeOK'
  BY <1>9, AbandonTypes DEF EndpointFails, worldVars, cleanupVars
<1>10. ASSUME RunProvider PROVE TypeOK'
  BY <1>10, RecordStays DEF RunProvider, Places, tallyVars, cleanupVars
<1>11. ASSUME ProviderError PROVE TypeOK'
  <2>1. at \in DOMAIN Providers
    BY <1>11 DEF ProviderError, Place, WithProvider, InPhase
  <2>2. Append(ran, Run("InfrastructureFailed", NoCommand.result)) \in Seq(Runs1)
    BY <2>1, RunTypes DEF ProviderVerdict
  <2>3. left' \subseteq DOMAIN Providers
    BY <1>11, <2>1, LeaveTypes DEF ProviderError
  <2>4. task' \in [state : CommandState, result : ResultType, held : BOOLEAN]
    BY <1>11 DEF ProviderError
  <2> QED BY <1>11, <2>2, <2>3, <2>4, AbandonTypes DEF ProviderError, cleanupVars
<1>a. ASSUME NEW r \in ResultType, pc \in WithProvider, Assess(r),
             UNCHANGED <<plan, verified, attached, left, containers, cleanupVars, verdict>>,
             task' \in {task, NoCommand}
      PROVE  TypeOK'
  <2>1. at \in DOMAIN Providers
    BY <1>a DEF Place, WithProvider, InPhase
  <2> DEFINE v == Evaluate(Providers[at], r)
  <2>2. v \in ProviderVerdict
    BY EvaluateFacts
  <2>3. CASE v = "SetupPassed" /\ Providers[at].fingerprint
    BY <1>a, <2>3, RecordStays DEF Assess, Places, tallyVars, cleanupVars
  <2>4. CASE ~(v = "SetupPassed" /\ Providers[at].fingerprint)
    <3>1. Conclude(v, r) /\ cmd' = NoCommand
      BY <1>a, <2>4 DEF Assess
    <3> HIDE DEF v
    <3> QED BY <1>a, <2>1, <2>2, <3>1, ConcludeTypes DEF Places, cleanupVars
  <2> QED BY <2>3, <2>4
<1>12. ASSUME ProviderDone PROVE TypeOK'
  <2>1. cmd.result \in ResultType
    OBVIOUS
  <2> QED BY <1>12, <1>a, <2>1 DEF ProviderDone, WithProvider
<1>13. ASSUME DebugDone PROVE TypeOK'
  <2>1. task.result \in ResultType
    OBVIOUS
  <2> QED BY <1>13, <1>a, <2>1 DEF DebugDone, WithProvider
<1>14. ASSUME ProbeDone PROVE TypeOK'
  <2>1. at \in DOMAIN Providers
    BY <1>14 DEF ProbeDone, Place, WithProvider, InPhase
  <2>2. PICK v \in {"SetupPassed", "InfrastructureFailed"} : Conclude(v, NoCommand.result)
    BY <1>14 DEF ProbeDone
  <2>3. verified' \subseteq DOMAIN Providers
    BY <1>14, <2>1 DEF ProbeDone
  <2>4. v \in ProviderVerdict
    BY DEF ProviderVerdict
  <2> QED BY <1>14, <2>1, <2>2, <2>3, <2>4, ConcludeTypes
          DEF ProbeDone, Places, WithProvider, cleanupVars
<1>15. ASSUME StartCleanup PROVE TypeOK'
  BY <1>15, BeginTypes DEF StartCleanup, Places, tallyVars
<1>16. ASSUME CleanProvider PROVE TypeOK'
  BY <1>16, RecordStays DEF CleanProvider, Places, tallyVars, cleanupVars
<1>17. ASSUME CleanupError PROVE TypeOK'
  <2>1. at \in DOMAIN Providers
    BY <1>17 DEF CleanupError, Place
  <2> QED BY <1>17, <2>1, RecordStays DEF CleanupError, tallyVars, worldVars
<1>18. ASSUME CleanupDone PROVE TypeOK'
  <2>1. at \in DOMAIN Providers
    BY <1>18 DEF CleanupDone, Place
  <2> QED BY <1>18, <2>1, RecordStays DEF CleanupDone, Places, tallyVars
<1>19. ASSUME CleanupsTried PROVE TypeOK'
  BY <1>19, RecordStays DEF CleanupsTried, Places, tallyVars, worldVars, cleanupVars
<1>20. ASSUME TearDown PROVE TypeOK'
  BY <1>20, RecordStays DEF TearDown, Places, tallyVars
<1>21. ASSUME FinishRun PROVE TypeOK'
  <2>1. RecordTypes'
    BY <1>21, FinishTypes DEF FinishRun, Place, Releasing
  <2>2. verdict' \in Verdict
    BY <1>21 DEF FinishRun, Fold, Verdict
  <2> QED BY <1>21, <2>1, <2>2 DEF FinishRun, Places, ProviderVerdict, worldVars, cleanupVars
<1>22. ASSUME CommandEnds PROVE TypeOK'
  <2>1. left' \subseteq DOMAIN Providers
    <3>1. CASE pc = "command"
      <4>1. at \in DOMAIN Providers
        BY <3>1 DEF Place, WithProvider, InPhase
      <4> QED BY <1>22, <3>1, <4>1, LeaveTypes DEF CommandEnds
    <3>2. CASE pc # "command"
      BY <1>22, <3>2 DEF CommandEnds
    <3> QED BY <3>1, <3>2
  <2>2. cmd' \in [state : CommandState, result : ResultType, held : BOOLEAN]
    BY ONLY <1>22, EndedTypes DEF CommandEnds
  <2> QED BY <1>22, <2>1, <2>2, RecordStays DEF CommandEnds, tallyVars, cleanupVars
<1>23. ASSUME DebugCommandEnds PROVE TypeOK'
  <2>1. DebugProvider \in DOMAIN Providers
    BY <1>23, OneDebugger DEF DebugCommandEnds
  <2>2. left' \subseteq DOMAIN Providers
    BY <1>23, <2>1, LeaveTypes DEF DebugCommandEnds
  <2>3. task' \in [state : CommandState, result : ResultType, held : BOOLEAN]
    BY ONLY <1>23, EndedTypes DEF DebugCommandEnds
  <2> QED BY <1>23, <2>2, <2>3, RecordStays DEF DebugCommandEnds, tallyVars, cleanupVars
<1>24. ASSUME DebugCommandCollected PROVE TypeOK'
  <2>1. task' \in [state : CommandState, result : ResultType, held : BOOLEAN]
    <3>1. task \in [state : CommandState, result : ResultType, held : BOOLEAN]
      OBVIOUS
    <3> QED BY ONLY <1>24, <3>1 DEF DebugCommandCollected, CommandState
  <2> QED BY <1>24, <2>1, RecordStays DEF DebugCommandCollected, tallyVars, cleanupVars
<1>25. ASSUME ReleaseTrigger PROVE TypeOK'
  BY <1>25, EnterTypes DEF ReleaseTrigger, Place, InPhase, tallyVars, worldVars, cleanupVars
<1>26. ASSUME StopSession PROVE TypeOK'
  BY <1>26, AbandonTypes DEF StopSession, worldVars, cleanupVars
<1>27. ASSUME PipesClose PROVE TypeOK'
  <2>1. {cmd, task} \subseteq [state : CommandState, result : ResultType, held : BOOLEAN]
    OBVIOUS
  <2>2. {cmd', task'} \subseteq [state : CommandState, result : ResultType, held : BOOLEAN]
    BY ONLY <1>27, <2>1 DEF PipesClose
  <2> QED BY <1>27, <2>2, RecordStays DEF PipesClose, tallyVars, cleanupVars
<1> QED
  BY <1>1, <1>2, <1>3, <1>4, <1>5, <1>6, <1>7, <1>8, <1>9, <1>10, <1>11, <1>12, <1>13, <1>14,
     <1>15, <1>16, <1>17, <1>18, <1>19, <1>20, <1>21, <1>22, <1>23, <1>24, <1>25, <1>26, <1>27
  DEF Next, Runner, Children, Person

-----------------------------------------------------------------------------
(* Where the run is. *)

\* A run keeps its plan.
LEMMA PlanStays ==
  ASSUME plan' = plan
  PROVE  /\ Providers' = Providers /\ HasCell' = HasCell /\ Diagnostic' = Diagnostic
         /\ \A i : Owned(i)' = Owned(i)
BY DEF Providers, HasCell, Diagnostic, Owned

\* No step of a run changes its plan.
LEMMA NextKeepsPlan == Next => plan' = plan
BY DEF Next, Runner, Children, Person, Validate, Refuse, StartPhase, SkipPhase, ComposeUp,
       ComposeUpFails, StartDebugger, EndpointReady, EndpointFails, RunProvider, ProviderError,
       ProviderDone, DebugDone, ProbeDone, StartCleanup, CleanProvider, CleanupError,
       CleanupDone, CleanupsTried, TearDown, FinishRun, CommandEnds, DebugCommandEnds,
       DebugCommandCollected, ReleaseTrigger, StopSession, PipesClose

\* Place in the next state, in a step that keeps the plan.
LEMMA PlaceThen ==
  ASSUME plan' = plan
  PROVE  Place' <=>
    /\ pc' = "validate" => next' = 1
    /\ pc' = "phase" => next' \in 2 .. 12
    /\ pc' \in InPhase => next' \in 2 .. 11
    /\ pc' \in {"validate", "phase"} \cup InPhase => at' >= 1
    /\ pc' \in WithProvider => at' <= Len(Providers) /\ Providers[at'].phase = next'
    /\ pc' \in Releasing => next' = 12
    /\ pc' \in {"cleanup", "cleaning"} => at' <= Len(Providers)
    /\ pc' = "cleaning" => at' >= 1 /\ Providers[at'].cleanup
    /\ pc' \in {"down", "finish"} => at' = 0
    /\ pc' \in {"attach", "endpoint", "pause"} => Diagnostic
    /\ pc' \in {"compose", "down"} => HasCell
    /\ IF pc' = "done" THEN verdict' \in Verdict ELSE verdict' = "none"
    /\ pc' = "done" => next' = 13 \/ (next' = 1 /\ verdict' = "Error")
    /\ next' # 1 => plan \in PlanType
BY PlanStays DEF Place

\* After a provider is judged, entered or abandoned the run is at a place.
LEMMA ConcludePlace ==
  ASSUME TypeOK, Place, plan \in PlanShape, pc \in WithProvider,
         NEW v, NEW r, Conclude(v, r), UNCHANGED <<plan, verdict>>
  PROVE  Place'
<1>1. at \in 1 .. Len(Providers) /\ Len(Providers) \in Nat /\ next \in 2 .. 11
      /\ verdict = "none" /\ plan \in PlanType
  BY ProviderFacts, TypesMean DEF Place, WithProvider, InPhase
<1>2. CASE at < Len(Providers) /\ Providers[at + 1].phase = next
  BY <1>1, <1>2, PlaceThen DEF Conclude, recordVars, WithProvider, InPhase, Releasing
<1>3. CASE ~(at < Len(Providers) /\ Providers[at + 1].phase = next)
  BY <1>1, <1>3, PlaceThen, PhaseFacts
  DEF Conclude, FailAndAdvance, Finish, WithProvider, InPhase, Releasing
<1> QED BY <1>2, <1>3

\* Whoever enters a phase is at a place of it.
LEMMA EnterPlace ==
  ASSUME TypeOK, Place, pc \in InPhase, EnterProviders, UNCHANGED <<plan, at, verdict>>
  PROVE  Place'
<1>1. next \in 2 .. 11 /\ at >= 1 /\ verdict = "none" /\ plan \in PlanType
  BY DEF Place, InPhase, WithProvider
<1> QED
  BY <1>1, PlaceThen
  DEF EnterProviders, MoreProviders, Finish, recordVars, WithProvider, InPhase, Releasing

\* Whoever abandons one is between phases, at the cleanup.
LEMMA AbandonPlace ==
  ASSUME TypeOK, Place, pc \in InPhase, Abandon, at' \in {at, at + 1}, UNCHANGED <<plan, verdict>>
  PROVE  Place'
<1>1. next \in 2 .. 11 /\ at >= 1 /\ at \in Nat /\ verdict = "none" /\ plan \in PlanType
      /\ Phase("Cleanup") = 12
  BY PhaseFacts, TypesMean DEF Place, InPhase, WithProvider
<1> QED
  BY <1>1, PlaceThen DEF Abandon, FailAndAdvance, WithProvider, InPhase, Releasing

\* Every step of a run leads to a place.
LEMMA StepPlace ==
  ASSUME TypeOK, Place, plan \in PlanShape, Next
  PROVE  Place'
<1>0. /\ Len(Providers) \in Nat /\ DOMAIN Providers = 1 .. Len(Providers)
      /\ plan' = plan /\ at \in 0 .. Len(Providers) + 1 /\ next \in 1 .. 13
  BY ProviderFacts, NextKeepsPlan, TypesMean DEF RecordTypes
<1> USE <1>0, PhaseFacts, PlaceThen DEF Place, WithProvider, InPhase, Releasing
<1>1. ASSUME Validate PROVE Place'
  BY <1>1 DEF Validate, Finish
<1>2. ASSUME Refuse PROVE Place'
  BY <1>2 DEF Refuse, Verdict, recordVars
<1>3. ASSUME StartPhase PROVE Place'
  <2>1. next \in 2 .. 11 /\ at >= 1 /\ UNCHANGED <<next, at, verdict>> /\ verdict = "none"
        /\ plan \in PlanType
    BY <1>3 DEF StartPhase
  <2>2. CASE StartedIn(next) # {}
    <3>1. HasCell /\ ~PausesIn(next)
      BY ONLY <2>2, PhaseFacts DEF StartedIn, HasCell, PausesIn
    <3>2. pc' = "compose"
      BY ONLY <1>3, <2>2, <3>1 DEF StartPhase
    <3> QED BY ONLY <1>0, <2>1, <3>1, <3>2, PlaceThen DEF WithProvider, InPhase, Releasing
  <2>3. CASE StartedIn(next) = {} /\ PausesIn(next)
    <3>1. pc' = "attach" /\ Diagnostic
      BY <1>3, <2>3 DEF StartPhase, PausesIn
    <3> QED BY ONLY <1>0, <2>1, <3>1, PlaceThen DEF WithProvider, InPhase, Releasing
  <2>4. CASE StartedIn(next) = {} /\ ~PausesIn(next)
    <3>1. pc' = "provider" /\ at <= Len(Providers) /\ Providers[at].phase = next
      BY <1>3, <2>4 DEF StartPhase, PhaseHasWork, MoreProviders
    <3> QED BY ONLY <1>0, <2>1, <3>1, PlaceThen DEF WithProvider, InPhase, Releasing
  <2> QED BY <2>2, <2>3, <2>4
<1>4. ASSUME SkipPhase PROVE Place'
  BY <1>4 DEF SkipPhase, Finish
<1>5. ASSUME ComposeUp PROVE Place'
  BY <1>5, EnterPlace DEF ComposeUp
<1>6. ASSUME ComposeUpFails PROVE Place'
  BY <1>6, AbandonPlace DEF ComposeUpFails
<1>7. ASSUME StartDebugger PROVE Place'
  BY <1>7 DEF StartDebugger, recordVars
<1>8. ASSUME EndpointReady PROVE Place'
  BY <1>8 DEF EndpointReady, recordVars
<1>9. ASSUME EndpointFails PROVE Place'
  BY <1>9, AbandonPlace DEF EndpointFails
<1>10. ASSUME RunProvider PROVE Place'
  BY <1>10 DEF RunProvider, recordVars
<1>11. ASSUME ProviderError PROVE Place'
  BY <1>11, AbandonPlace DEF ProviderError
<1>a. ASSUME NEW r, pc \in WithProvider, Assess(r), UNCHANGED verdict PROVE Place'
  BY <1>a, ConcludePlace DEF Assess, recordVars
<1>12. ASSUME ProviderDone PROVE Place'
  BY <1>12, <1>a DEF ProviderDone
<1>13. ASSUME DebugDone PROVE Place'
  BY <1>13, <1>a DEF DebugDone
<1>14. ASSUME ProbeDone PROVE Place'
  BY <1>14, ConcludePlace DEF ProbeDone
<1>15. ASSUME StartCleanup PROVE Place'
  BY <1>15 DEF StartCleanup
<1>16. ASSUME CleanProvider PROVE Place'
  BY <1>16 DEF CleanProvider, recordVars
<1>17. ASSUME CleanupError PROVE Place'
  BY <1>17 DEF CleanupError, recordVars
<1>18. ASSUME CleanupDone PROVE Place'
  BY <1>18 DEF CleanupDone, recordVars
<1>19. ASSUME CleanupsTried PROVE Place'
  BY <1>19 DEF CleanupsTried, recordVars
<1>20. ASSUME TearDown PROVE Place'
  BY <1>20 DEF TearDown, recordVars
<1>21. ASSUME FinishRun PROVE Place'
  BY <1>21 DEF FinishRun, Finish, Fold, Verdict
<1>22. ASSUME \/ CommandEnds \/ DebugCommandEnds \/ DebugCommandCollected \/ PipesClose
       PROVE  Place'
  BY <1>22 DEF CommandEnds, DebugCommandEnds, DebugCommandCollected, PipesClose, recordVars
<1>25. ASSUME ReleaseTrigger PROVE Place'
  BY <1>25, EnterPlace DEF ReleaseTrigger
<1>26. ASSUME StopSession PROVE Place'
  BY <1>26, AbandonPlace DEF StopSession
<1> QED
  BY <1>1, <1>2, <1>3, <1>4, <1>5, <1>6, <1>7, <1>8, <1>9, <1>10, <1>11, <1>12, <1>13, <1>14,
     <1>15, <1>16, <1>17, <1>18, <1>19, <1>20, <1>21, <1>22, <1>25, <1>26
  DEF Next, Runner, Children, Person

\* A command runs only while the run waits for it, the debug command beside it.
LEMMA StepCommands ==
  ASSUME TypeOK, Place, Commands, plan \in PlanShape, Next
  PROVE  Commands'
<1>0. plan' = plan /\ (Diagnostic' = Diagnostic) /\ (HasCell' = HasCell)
      /\ next \in 1 .. 13
  BY PlanStays, NextKeepsPlan, TypesMean DEF RecordTypes
<1> USE <1>0, PhaseFacts, CommandFacts DEF Commands, WithProvider, InPhase
<1>1. ASSUME \/ Validate \/ Refuse \/ SkipPhase \/ EndpointReady \/ CleanupError
             \/ CleanupsTried \/ FinishRun
      PROVE  Commands'
  BY <1>1 DEF Validate, Refuse, SkipPhase, EndpointReady, CleanupError, CleanupsTried,
              FinishRun, worldVars
<1>2. ASSUME StartPhase PROVE Commands'
  BY <1>2 DEF StartPhase, worldVars
<1>3. ASSUME \/ ComposeUp \/ ReleaseTrigger PROVE Commands'
  BY <1>3 DEF ComposeUp, ReleaseTrigger, EnterProviders, worldVars
<1>4. ASSUME \/ ComposeUpFails \/ EndpointFails \/ StopSession \/ ProviderError
      PROVE  Commands'
  BY <1>4
  DEF ComposeUpFails, EndpointFails, StopSession, ProviderError, Abandon, worldVars, InPhase,
      WithProvider
<1>5. ASSUME StartDebugger PROVE Commands'
  BY <1>5 DEF StartDebugger, Place
<1>6. ASSUME RunProvider PROVE Commands'
  BY <1>6 DEF RunProvider
<1>a. ASSUME NEW r, pc \in {"command", "join"}, Assess(r), task' \in {task, NoCommand}
      PROVE  Commands'
  BY <1>a DEF Assess, Conclude
<1>7. ASSUME \/ ProviderDone \/ DebugDone PROVE Commands'
  BY <1>7, <1>a DEF ProviderDone, DebugDone
<1>8. ASSUME ProbeDone PROVE Commands'
  BY <1>8 DEF ProbeDone, Conclude
<1>9. ASSUME StartCleanup PROVE Commands'
  BY <1>9 DEF StartCleanup
<1>10. ASSUME CleanProvider PROVE Commands'
  BY <1>10 DEF CleanProvider
<1>11. ASSUME CleanupDone PROVE Commands'
  BY <1>11 DEF CleanupDone
<1>12. ASSUME TearDown PROVE Commands'
  BY <1>12 DEF TearDown
<1>13. ASSUME CommandEnds \/ DebugCommandEnds PROVE Commands'
  BY <1>13 DEF CommandEnds, DebugCommandEnds
<1>14. ASSUME DebugCommandCollected \/ PipesClose PROVE Commands'
  BY <1>14 DEF DebugCommandCollected, PipesClose, Collected
<1> QED
  BY <1>1, <1>2, <1>3, <1>4, <1>5, <1>6, <1>7, <1>8, <1>9, <1>10, <1>11, <1>12, <1>13, <1>14
  DEF Next, Runner, Children, Person

-----------------------------------------------------------------------------
(* The record of the phases. *)

\* The phases before the one in hand are over, those after it have not begun.
RecordRows ==
  \A i \in 1 .. 12 :
    IF i < next THEN status[i] \in {"Passed", "Failed", "Skipped"}
    ELSE status[i] = IF i = next /\ pc # "phase" THEN "Running" ELSE "Pending"

\* The flags say what the record says, once the phase in hand is over.
FlagsAgree ==
  /\ failed <=> \E i \in 1 .. 12 : status[i] = "Failed"
  /\ failed => next >= 12 /\ pc \notin InPhase
  /\ phaseFailed => pc \in WithProvider
  /\ (infra \/ different) = (failed \/ phaseFailed)

PhaseOf(k) == Providers[ran[k].provider].phase

\* Nothing ran in the phases between a failed one and Cleanup.
FailureEnds ==
  /\ \A i \in 1 .. 11 : status[i] = "Failed" =>
       /\ \A j \in 1 .. 11 : i < j => status[j] = "Skipped"
       /\ \A k \in DOMAIN ran : PhaseOf(k) \in 1 .. i
  /\ \A k \in DOMAIN ran : PhaseOf(k) \in 1 .. next

Record == RecordRows /\ FlagsAgree /\ FailureEnds

\* The kinds of steps, by what they do to the record.
Quiet ==
  /\ UNCHANGED <<plan, recordVars, phaseFailed, tallyVars, ran, verified>>
  /\ pc' = "phase" <=> pc = "phase"
  /\ pc' \in InPhase => pc \in InPhase
  /\ pc \in WithProvider => pc' \in WithProvider
  /\ pc' = "validate" => pc = "validate"
  /\ pc' \in {"validate", "phase"} \cup InPhase => at' = at
  /\ verdict' \in {verdict, "Error"}
  /\ pc' \in Releasing \cup {"done"} /\ next >= 12 => pc \in Releasing \cup {"done"}

Opens ==
  /\ pc = "phase" /\ next <= 12
  /\ Begin
  /\ UNCHANGED <<plan, next, failed, phaseFailed, tallyVars, ran, verified, verdict>>
  /\ IF next < 12 THEN pc' \in InPhase /\ at' = at ELSE pc' = "cleanup"

Closes ==
  /\ pc \in {"validate", "phase"} \cup (InPhase \ WithProvider) /\ next <= 11
  /\ Finish("Passed") \/ Finish("Skipped")
  /\ UNCHANGED <<plan, at, phaseFailed, tallyVars, ran, verified, verdict>>
  /\ ~MoreProviders
  /\ pc' = "phase"

Gives ==
  /\ pc \in InPhase
  /\ Abandon
  /\ \/ UNCHANGED ran
     \/ /\ pc \in {"provider", "join"}
        /\ ran' = Append(ran, Run("InfrastructureFailed", NoCommand.result))
  /\ UNCHANGED <<plan, verdict>>

Concludes ==
  /\ pc \in WithProvider \ {"provider"}
  /\ UNCHANGED <<plan, verdict>>
  /\ \E v \in ProviderVerdict, r \in ResultType :
       /\ Conclude(v, r)
       /\ \/ /\ UNCHANGED verified
             /\ \/ ~Providers[at].fingerprint
                \/ v \notin {"SetupPassed", "Reproduced", "NotReproduced"}
          \/ verified' = verified \cup {at}

\* What the place says of the phase number.
LEMMA PlaceMeans ==
  ASSUME TypeOK, Place
  PROVE  /\ next \in 1 .. 13 /\ status \in [1 .. 12 -> Status] /\ at \in Nat
         /\ pc \in InPhase => next \in 2 .. 11
         /\ pc = "phase" => next \in 2 .. 12
         /\ pc \in Releasing => next = 12
         /\ pc = "validate" => next = 1
         /\ pc \in InPhase => verdict = "none"
BY TypesMean DEF Place, RecordTypes, InPhase, WithProvider

\* What a debug command stands for is a trigger, which has no fingerprint.
ResultsBelong ==
  /\ pc = "command" /\ Providers[at].observes = "none" => ~cmd.result.matched
  /\ pc = "join" => Owned(at)

\* A step of a run is quiet, opens or closes a phase, gives something back, concludes a
\* provider, or ends the run.
LEMMA StepKinds ==
  ASSUME TypeOK, Place, Commands, ResultsBelong, plan \in PlanShape, Next
  PROVE  Quiet \/ Opens \/ Closes \/ Gives \/ Concludes \/ FinishRun
<1>1. ASSUME Validate PROVE Closes
  <2>1. at = at /\ next = 1 /\ plan \in PlanType
    BY <1>1 DEF Validate, Place
  <2>2. ~MoreProviders
    BY <1>1, <2>1, ProviderFacts, TypeFacts, TypesMean DEF MoreProviders, Validate, Place
  <2> QED BY <1>1, <2>1, <2>2 DEF Validate, Closes
<1>2. ASSUME Refuse PROVE Quiet
  BY <1>2 DEF Refuse, Quiet, InPhase, WithProvider, Releasing, Place
<1>3. ASSUME StartPhase PROVE Opens
  <2>1. pc' \in InPhase
    BY <1>3 DEF StartPhase, InPhase, WithProvider
  <2> QED BY <1>3, <2>1, PhaseFacts, PlaceMeans DEF StartPhase, Opens
<1>4. ASSUME SkipPhase PROVE Closes
  BY <1>4, PhaseFacts, PlaceMeans DEF SkipPhase, Closes, PhaseHasWork
<1>5. ASSUME ComposeUp \/ ReleaseTrigger PROVE Quiet \/ Closes
  BY <1>5, PlaceMeans
  DEF ComposeUp, ReleaseTrigger, EnterProviders, Quiet, Closes, InPhase, WithProvider, Releasing
<1>6. ASSUME ComposeUpFails \/ EndpointFails \/ ProviderError \/ StopSession PROVE Gives
  BY <1>6
  DEF ComposeUpFails, EndpointFails, ProviderError, StopSession, Gives, InPhase, WithProvider
<1>7. ASSUME \/ StartDebugger \/ EndpointReady \/ RunProvider \/ CleanProvider \/ CleanupError
             \/ CleanupDone \/ CleanupsTried \/ TearDown
      PROVE  Quiet
  BY <1>7 DEF StartDebugger, EndpointReady, RunProvider, CleanProvider, CleanupError,
              CleanupDone, CleanupsTried, TearDown, Quiet, InPhase, WithProvider, Releasing
<1>8. ASSUME CommandEnds \/ DebugCommandEnds \/ DebugCommandCollected \/ PipesClose
      PROVE  Quiet
  BY <1>8 DEF CommandEnds, DebugCommandEnds, DebugCommandCollected, PipesClose, Quiet
<1>9. ASSUME StartCleanup PROVE Opens
  BY <1>9, PhaseFacts, PlaceMeans DEF StartCleanup, Opens
<1>a. ASSUME NEW r \in ResultType, pc \in {"command", "join"}, Assess(r),
             UNCHANGED <<plan, verified, verdict>>,
             Providers[at].observes = "none" /\ r.matched => ~Providers[at].fingerprint
      PROVE  Quiet \/ Concludes
  <2>1. at \in DOMAIN Providers /\ Providers[at] \in ProviderType
    BY <1>a, TypesMean, ProviderFacts DEF Place, WithProvider, InPhase
  <2>2. Providers[at].fingerprint => Providers[at].observes = "none"
    BY <2>1 DEF ProviderType
  <2> DEFINE v == Evaluate(Providers[at], r)
  <2>3. v \in ProviderVerdict
    BY EvaluateFacts
  <2>4. Providers[at].fingerprint /\ v \in {"SetupPassed", "Reproduced", "NotReproduced"}
          => v = "SetupPassed"
    BY <1>a, <2>2 DEF Evaluate
  <2>5. CASE v = "SetupPassed" /\ Providers[at].fingerprint
    BY <1>a, <2>5 DEF Assess, Quiet, InPhase, WithProvider, Releasing
  <2>6. CASE ~(v = "SetupPassed" /\ Providers[at].fingerprint)
    <3>1. Conclude(v, r)
      BY <1>a, <2>6 DEF Assess
    <3>2. ~Providers[at].fingerprint \/ v \notin {"SetupPassed", "Reproduced", "NotReproduced"}
      BY <2>4, <2>6
    <3> HIDE DEF v
    <3> QED BY <1>a, <2>3, <3>1, <3>2 DEF Concludes, WithProvider
  <2> QED BY <2>5, <2>6
<1>10. ASSUME ProviderDone PROVE Quiet \/ Concludes
  <2>1. cmd.result \in ResultType
    BY TypesMean
  <2> QED BY <1>10, <2>1, <1>a DEF ProviderDone, ResultsBelong
<1>11. ASSUME DebugDone PROVE Quiet \/ Concludes
  <2>1. task.result \in ResultType
    BY TypesMean
  <2>2. at \in DOMAIN Providers /\ Providers[at] \in ProviderType /\ Providers[at].debug
    BY <1>11, TypesMean, ProviderFacts
    DEF DebugDone, ResultsBelong, Owned, Place, WithProvider, InPhase
  <2>3. ~Providers[at].fingerprint
    BY <2>2 DEF ProviderType
  <2> QED BY <1>11, <2>1, <2>3, <1>a DEF DebugDone
<1>12. ASSUME ProbeDone PROVE Concludes
  <2>1. PICK matches \in {FALSE, cmd.result.clean} :
       /\ verified' = IF matches THEN verified \cup {at} ELSE verified
       /\ Conclude(IF matches THEN "SetupPassed" ELSE "InfrastructureFailed",
                   NoCommand.result)
    BY <1>12 DEF ProbeDone
  <2>2. UNCHANGED <<plan, verdict>> /\ pc \in WithProvider \ {"provider"}
        /\ NoCommand.result \in ResultType
    BY <1>12, CommandFacts DEF ProbeDone, WithProvider
  <2>3. CASE matches
    <3>1. Conclude("SetupPassed", NoCommand.result) /\ verified' = verified \cup {at}
      BY <2>1, <2>3
    <3> QED BY <2>2, <3>1 DEF Concludes, ProviderVerdict
  <2>4. CASE ~matches
    <3>1. Conclude("InfrastructureFailed", NoCommand.result) /\ verified' = verified
      BY <2>1, <2>4
    <3> QED BY <2>2, <3>1 DEF Concludes, ProviderVerdict
  <2> QED BY <2>3, <2>4
<1> QED
  BY <1>1, <1>2, <1>3, <1>4, <1>5, <1>6, <1>7, <1>8, <1>9, <1>10, <1>11, <1>12
  DEF Next, Runner, Children, Person

\* Another run in the list.
LEMMA RanGrows ==
  ASSUME TypeOK, NEW v \in ProviderVerdict, NEW r \in ResultType, at \in DOMAIN Providers,
         ran' = Append(ran, Run(v, r))
  PROVE  /\ Len(ran) \in Nat /\ DOMAIN ran = 1 .. Len(ran)
         /\ Len(ran') = Len(ran) + 1 /\ DOMAIN ran' = 1 .. Len(ran) + 1
         /\ \A k \in 1 .. Len(ran) : ran'[k] = ran[k]
         /\ ran'[Len(ran) + 1].provider = at /\ ran'[Len(ran) + 1].verdict = v
<1>1. ran \in Seq(Runs1)
  BY TypesMean
<1>2. Run(v, r) \in Runs1 /\ Run(v, r).provider = at /\ Run(v, r).verdict = v
  BY DEF Run, Runs1, ResultType
<1> QED BY <1>1, <1>2

\* The record through each kind of step.
LEMMA RecordQuiet ==
  ASSUME TypeOK, Place, Record, Quiet
  PROVE  Record'
<1>1. Providers' = Providers
  BY PlanStays DEF Quiet
<1>2. RecordRows'
  BY DEF Record, RecordRows, Quiet, recordVars
<1>3. FlagsAgree'
  BY DEF Record, FlagsAgree, Quiet, recordVars, tallyVars
<1>4. FailureEnds'
  BY <1>1 DEF Record, FailureEnds, PhaseOf, Quiet, recordVars
<1> QED BY <1>2, <1>3, <1>4 DEF Record

\* The invariant of the record is kept by a step that opens a phase,
LEMMA RecordOpens ==
  ASSUME TypeOK, Place, Place', Record, Opens
  PROVE  Record'
<1>1. Providers' = Providers /\ status' = [status EXCEPT ![next] = "Running"]
      /\ next' = next /\ pc = "phase" /\ pc' # "phase" /\ ran' = ran
      /\ next \in 2 .. 12 /\ status \in [1 .. 12 -> Status]
  BY PlanStays, PlaceMeans DEF Opens, Begin, InPhase, WithProvider
<1>2. RecordRows'
  BY <1>1 DEF Record, RecordRows
<1>3. \A i \in 1 .. 12 : (status'[i] = "Failed") <=> (status[i] = "Failed")
  BY <1>1 DEF Record, RecordRows
<1>4. FlagsAgree'
  BY <1>1, <1>3 DEF Record, FlagsAgree, Opens, tallyVars, InPhase, WithProvider
<1>5. \A j \in 1 .. 12 : status[j] = "Skipped" => status'[j] = "Skipped"
  BY <1>1 DEF Record, RecordRows
<1>6. FailureEnds'
  BY <1>1, <1>3, <1>5 DEF Record, FailureEnds, PhaseOf
<1> QED BY <1>2, <1>4, <1>6 DEF Record

\* A phase that ends well.
LEMMA RowsFinish ==
  ASSUME next \in 1 .. 12, status \in [1 .. 12 -> Status], RecordRows,
         NEW s \in {"Passed", "Failed", "Skipped"}, Finish(s), next = 12 \/ pc' = "phase"
  PROVE  RecordRows' /\ \A i \in 1 .. 12 : i # next => status'[i] = status[i] /\ status'[next] = s
<1>1. /\ status' = [status EXCEPT ![next] = s] /\ next' = next + 1
  BY DEF Finish
<1> QED BY <1>1 DEF RecordRows

\* by one that closes a phase,
LEMMA RecordCloses ==
  ASSUME TypeOK, Place, Record, Closes
  PROVE  Record'
<1>1. /\ Providers' = Providers /\ next \in 1 .. 11 /\ status \in [1 .. 12 -> Status]
      /\ pc' = "phase" /\ ran' = ran /\ failed \in BOOLEAN
  <2>1. plan' = plan /\ pc' = "phase" /\ ran' = ran /\ next <= 11
    BY DEF Closes
  <2>3. Providers' = Providers
    BY ONLY <2>1, PlanStays
  <2>4. failed \in BOOLEAN /\ phaseFailed \in BOOLEAN /\ infra \in BOOLEAN /\ different \in BOOLEAN
        /\ failures \in Nat
    BY ONLY TypeOK, TypesMean DEF RecordTypes
  <2> QED BY ONLY TypeOK, Place, <2>1, <2>3, <2>4, PlaceMeans
<1>2. PICK s \in {"Passed", "Skipped"} : Finish(s)
  <2>1. Finish("Passed") \/ Finish("Skipped")
    BY DEF Closes
  <2> QED BY <2>1
<1>3. RecordRows' /\ \A i \in 1 .. 12 : i # next => status'[i] = status[i] /\ status'[next] = s
  BY <1>1, <1>2, RowsFinish DEF Record
<1>4. next' = next + 1 /\ failed' = failed /\ status' = [status EXCEPT ![next] = s]
  BY <1>1, <1>2 DEF Finish
<1>5. ~failed /\ \A i \in 1 .. 12 : status[i] # "Failed"
  BY <1>1 DEF Record, FlagsAgree, Closes
<1>6. \A i \in 1 .. 12 : status'[i] # "Failed"
  BY <1>1, <1>4, <1>5
<1>7. FlagsAgree'
  BY <1>1, <1>4, <1>5, <1>6 DEF Record, FlagsAgree, Closes, tallyVars, WithProvider, InPhase
<1>8. FailureEnds'
  BY <1>1, <1>4, <1>6 DEF Record, FailureEnds, PhaseOf
<1> QED BY <1>3, <1>7, <1>8 DEF Record

\* A phase that ends badly: the record of it, and of those it skips.
LEMMA RowsFail ==
  ASSUME next \in 2 .. 11, status \in [1 .. 12 -> Status], RecordRows, FailAndAdvance,
         pc' = "phase", \A i \in 1 .. 12 : status[i] # "Failed"
  PROVE  /\ RecordRows' /\ failed' /\ next' = 12
         /\ \A i \in 1 .. 12 : (status'[i] = "Failed") <=> i = next
         /\ \A j \in 1 .. 11 : next < j => status'[j] = "Skipped"
<1>1. /\ status' = [i \in 1 .. 12 |->
                  IF i = next THEN "Failed"
                  ELSE IF i > next /\ i < 12 THEN "Skipped"
                  ELSE status[i]]
      /\ next' = 12 /\ failed' = TRUE
  BY PhaseFacts DEF FailAndAdvance
<1> QED BY <1>1 DEF RecordRows

\* by one in which a provider gives something back,
LEMMA RecordGives ==
  ASSUME TypeOK, Place, plan \in PlanShape, Record, Gives
  PROVE  Record'
<1>1. /\ Providers' = Providers /\ next \in 2 .. 11 /\ status \in [1 .. 12 -> Status]
      /\ pc' = "phase" /\ infra' = TRUE /\ phaseFailed' = FALSE /\ FailAndAdvance
  BY PlanStays, PlaceMeans DEF Gives, Abandon
<1>2. \A i \in 1 .. 12 : status[i] # "Failed"
  BY <1>1 DEF Record, FlagsAgree, Gives
<1>3. /\ RecordRows' /\ failed' /\ next' = 12
      /\ \A i \in 1 .. 12 : (status'[i] = "Failed") <=> i = next
      /\ \A j \in 1 .. 11 : next < j => status'[j] = "Skipped"
  BY <1>1, <1>2, RowsFail DEF Record
<1>4. FlagsAgree'
  BY <1>1, <1>3 DEF FlagsAgree, InPhase, WithProvider
<1>5. \A k \in DOMAIN ran' : PhaseOf(k)' \in 1 .. next
  <2>1. CASE UNCHANGED ran
    BY <1>1, <2>1 DEF Record, FailureEnds, PhaseOf
  <2>2. CASE /\ pc \in {"provider", "join"}
             /\ ran' = Append(ran, Run("InfrastructureFailed", NoCommand.result))
    <3>1. at \in DOMAIN Providers /\ Providers[at].phase = next
      BY <2>2, ProviderFacts, TypesMean DEF Place, WithProvider, InPhase
    <3>2. "InfrastructureFailed" \in ProviderVerdict
      BY DEF ProviderVerdict
    <3>3. \A k \in DOMAIN ran : Providers[ran[k].provider].phase \in 1 .. next
      BY DEF Record, FailureEnds, PhaseOf
    <3> QED BY <1>1, <2>2, <3>1, <3>2, <3>3, RanGrows, CommandFacts DEF PhaseOf
  <2> QED BY <2>1, <2>2 DEF Gives
<1>6. FailureEnds'
  BY <1>1, <1>3, <1>5 DEF FailureEnds
<1> QED BY <1>3, <1>4, <1>6 DEF Record

\* by one that concludes a provider,
LEMMA RecordConcludes ==
  ASSUME TypeOK, Place, plan \in PlanShape, Record, Concludes
  PROVE  Record'
<1>1. /\ Providers' = Providers /\ next \in 2 .. 11 /\ status \in [1 .. 12 -> Status]
      /\ pc # "phase" /\ pc \in InPhase /\ failed \in BOOLEAN /\ phaseFailed \in BOOLEAN
      /\ infra \in BOOLEAN /\ different \in BOOLEAN
  <2>1. plan' = plan /\ pc \in WithProvider
    BY DEF Concludes
  <2>2. pc # "phase" /\ pc \in InPhase
    BY <2>1 DEF InPhase, WithProvider
  <2>3. Providers' = Providers
    BY ONLY <2>1, PlanStays
  <2>4. failed \in BOOLEAN /\ phaseFailed \in BOOLEAN /\ infra \in BOOLEAN /\ different \in BOOLEAN
        /\ failures \in Nat
    BY ONLY TypeOK, TypesMean DEF RecordTypes
  <2> QED BY ONLY TypeOK, Place, <2>1, <2>2, <2>3, <2>4, PlaceMeans
<1>2. ~failed /\ \A i \in 1 .. 12 : status[i] # "Failed"
  BY <1>1 DEF Record, FlagsAgree
<1>3. PICK v \in ProviderVerdict, r \in ResultType : Conclude(v, r)
  BY DEF Concludes
<1>4. at \in DOMAIN Providers /\ Providers[at].phase = next
  <2>1. pc \in WithProvider
    BY DEF Concludes
  <2>2. at >= 1 /\ at <= Len(Providers) /\ Providers[at].phase = next /\ at \in Nat
    BY <2>1, PlaceMeans DEF Place, InPhase
  <2> QED BY <2>2, ProviderFacts
<1>5. \A k \in DOMAIN ran' : PhaseOf(k)' \in 1 .. next
  <2>1. \A k \in DOMAIN ran : Providers[ran[k].provider].phase \in 1 .. next
    BY DEF Record, FailureEnds, PhaseOf
  <2>2. ran' = Append(ran, Run(v, r))
    BY <1>3 DEF Conclude
  <2>3. /\ Len(ran) \in Nat /\ DOMAIN ran = 1 .. Len(ran)
        /\ DOMAIN ran' = 1 .. Len(ran) + 1
        /\ \A k \in 1 .. Len(ran) : ran'[k] = ran[k]
        /\ ran'[Len(ran) + 1].provider = at
    BY <1>4, <2>2, RanGrows
  <2> QED BY <1>1, <1>4, <2>1, <2>3 DEF PhaseOf
<1> DEFINE bad == v \in {"DifferentFailure", "InfrastructureFailed"}
           more == at < Len(Providers) /\ Providers[at + 1].phase = next
<1>6. /\ (infra' \/ different') = (phaseFailed \/ bad)
      /\ phaseFailed' = (more /\ (phaseFailed \/ bad))
      /\ pc' = IF more THEN "provider" ELSE "phase"
      /\ IF more THEN UNCHANGED recordVars
         ELSE IF phaseFailed \/ bad THEN FailAndAdvance
         ELSE Finish("Passed")
  BY <1>1, <1>2, <1>3 DEF Conclude, Record, FlagsAgree
<1> HIDE DEF bad, more
<1>7. CASE more
  <2>1. UNCHANGED recordVars /\ pc' = "provider" /\ (infra' \/ different') = phaseFailed'
    BY <1>6, <1>7
  <2>2. RecordRows'
    BY <1>1, <2>1 DEF Record, RecordRows, recordVars
  <2>3. FlagsAgree'
    BY <1>1, <1>2, <2>1 DEF FlagsAgree, recordVars, WithProvider
  <2>4. FailureEnds'
    BY <1>1, <1>2, <1>5, <2>1 DEF FailureEnds, recordVars
  <2> QED BY <2>2, <2>3, <2>4 DEF Record
<1>8. CASE ~more /\ (phaseFailed \/ bad)
  <2>1. FailAndAdvance /\ pc' = "phase" /\ (infra' \/ different') /\ ~phaseFailed'
    BY <1>6, <1>8
  <2>2. /\ RecordRows' /\ failed' /\ next' = 12
        /\ \A i \in 1 .. 12 : (status'[i] = "Failed") <=> i = next
        /\ \A j \in 1 .. 11 : next < j => status'[j] = "Skipped"
    BY <1>1, <1>2, <2>1, RowsFail DEF Record
  <2>3. FlagsAgree'
    BY <1>1, <2>1, <2>2 DEF FlagsAgree, InPhase, WithProvider
  <2>4. FailureEnds'
    BY <1>1, <1>5, <2>2 DEF FailureEnds
  <2> QED BY <2>2, <2>3, <2>4 DEF Record
<1>9. CASE ~more /\ ~(phaseFailed \/ bad)
  <2>1. Finish("Passed") /\ pc' = "phase" /\ ~(infra' \/ different') /\ ~phaseFailed'
    BY <1>6, <1>9
  <2>2. RecordRows' /\ \A i \in 1 .. 12 : i # next => status'[i] = status[i]
        /\ status'[next] = "Passed"
    BY <1>1, <2>1, RowsFinish DEF Record
  <2>3. next' = next + 1 /\ failed' = failed /\ status' = [status EXCEPT ![next] = "Passed"]
    BY <1>1, <2>1 DEF Finish
  <2>4. \A i \in 1 .. 12 : status'[i] # "Failed"
    BY <1>1, <1>2, <2>3
  <2>5. FlagsAgree'
    BY <1>2, <2>1, <2>3, <2>4 DEF FlagsAgree
  <2>6. FailureEnds'
    BY <1>1, <1>5, <2>3, <2>4 DEF FailureEnds
  <2> QED BY <2>2, <2>5, <2>6 DEF Record
<1> QED BY <1>7, <1>8, <1>9

\* and by the end of the run.
LEMMA RecordFinishes ==
  ASSUME TypeOK, Place, plan \in PlanShape, Record, FinishRun
  PROVE  Record'
<1>1. /\ Providers' = Providers /\ next = 12 /\ status \in [1 .. 12 -> Status]
      /\ pc' = "done" /\ failures \in Nat /\ ran' = ran /\ phaseFailed' = phaseFailed
      /\ failed \in BOOLEAN /\ infra \in BOOLEAN /\ different' = different
      /\ infra' = (infra \/ failures > 0) /\ ~phaseFailed
  <2>1. /\ plan' = plan /\ pc = "finish" /\ pc' = "done" /\ ran' = ran
        /\ phaseFailed' = phaseFailed /\ different' = different
        /\ infra' = (infra \/ failures > 0)
    BY DEF FinishRun
  <2>2. ~phaseFailed /\ pc \in Releasing
    BY <2>1 DEF Record, FlagsAgree, WithProvider, Releasing
  <2>3. Providers' = Providers
    BY ONLY <2>1, PlanStays
  <2>4. failed \in BOOLEAN /\ phaseFailed \in BOOLEAN /\ infra \in BOOLEAN /\ different \in BOOLEAN
        /\ failures \in Nat
    BY ONLY TypeOK, TypesMean DEF RecordTypes
  <2> QED BY ONLY TypeOK, Place, <2>1, <2>2, <2>3, <2>4, PlaceMeans
<1> DEFINE s == IF failures = 0 THEN "Passed" ELSE "Failed"
<1>2. Finish(s)
  BY DEF FinishRun
<1>3. s \in {"Passed", "Failed"} /\ (s = "Failed" <=> failures > 0)
  BY <1>1
<1> HIDE DEF s
<1>4. RecordRows' /\ \A i \in 1 .. 12 : i # next => status'[i] = status[i] /\ status'[next] = s
  BY <1>1, <1>2, <1>3, RowsFinish DEF Record
<1>5. next' = 13 /\ failed' = (failed \/ s = "Failed") /\ status' = [status EXCEPT ![12] = s]
  BY <1>1, <1>2 DEF Finish
<1>6. \A i \in 1 .. 11 : status'[i] = status[i]
  BY <1>1, <1>5
<1>7. status[12] # "Failed" /\ status'[12] = s
  BY <1>1, <1>5 DEF Record, RecordRows
<1>8. failed' <=> \E i \in 1 .. 12 : status'[i] = "Failed"
  <2>1. failed <=> \E i \in 1 .. 12 : status[i] = "Failed"
    BY DEF Record, FlagsAgree
  <2>2. failed <=> \E i \in 1 .. 11 : status[i] = "Failed"
    BY <1>7, <2>1
  <2>3. (\E i \in 1 .. 12 : status'[i] = "Failed")
          <=> (\E i \in 1 .. 11 : status'[i] = "Failed") \/ s = "Failed"
    BY <1>7
  <2>4. (\E i \in 1 .. 11 : status'[i] = "Failed") <=> \E i \in 1 .. 11 : status[i] = "Failed"
    BY <1>6
  <2> QED BY <1>5, <2>2, <2>3, <2>4
<1>9. FlagsAgree'
  <2>1. (infra' \/ different') = failed'
    BY <1>1, <1>3, <1>5 DEF Record, FlagsAgree
  <2> QED BY <1>1, <1>5, <1>8, <2>1 DEF FlagsAgree, InPhase, WithProvider
<1>10. FailureEnds'
  BY <1>1, <1>5, <1>6 DEF Record, FailureEnds, PhaseOf
<1> QED BY <1>4, <1>9, <1>10 DEF Record

\* The record through every step.
LEMMA StepRecord ==
  ASSUME TypeOK, Place, Commands, ResultsBelong, plan \in PlanShape, Record, Next
  PROVE  Record'
BY StepKinds, StepPlace, RecordQuiet, RecordOpens, RecordCloses, RecordGives, RecordConcludes,
   RecordFinishes

\* The result in hand is one its provider can have.
LEMMA StepResults ==
  ASSUME TypeOK, Place, Commands, ResultsBelong, plan \in PlanShape, Next
  PROVE  ResultsBelong'
<1>1. plan' = plan /\ Providers' = Providers /\ \A i : Owned(i)' = Owned(i)
  BY NextKeepsPlan, PlanStays
<1>2. ASSUME RunProvider PROVE ResultsBelong'
  BY <1>1, <1>2 DEF RunProvider, ResultsBelong, Started, NoCommand
<1>3. ASSUME CommandEnds PROVE ResultsBelong'
  <2>1. PICK r \in Possible(IF pc = "command" THEN Providers[at].observes ELSE "none"),
             held \in {FALSE, Descendants} : cmd' = Ended(r, held)
    BY <1>3 DEF CommandEnds
  <2>2. pc' = pc /\ at' = at /\ cmd'.result = r
    BY <1>3, <2>1 DEF CommandEnds, Ended
  <2> QED BY <1>1, <2>1, <2>2 DEF ResultsBelong, Possible
<1>4. ASSUME DebugCommandEnds \/ DebugCommandCollected PROVE ResultsBelong'
  BY <1>1, <1>4 DEF DebugCommandEnds, DebugCommandCollected, ResultsBelong
<1>5. ASSUME PipesClose PROVE ResultsBelong'
  <2>1. pc' = pc /\ at' = at
    BY <1>5 DEF PipesClose
  <2>2. cmd'.result = cmd.result
    BY <1>5, TypesMean DEF PipesClose
  <2> QED BY <1>1, <2>1, <2>2 DEF ResultsBelong
<1>6. ASSUME Next, ~RunProvider, ~Children, ~PipesClose PROVE pc' \notin {"command", "join"}
  BY <1>6
  DEF Next, Runner, Person, Validate, Refuse, StartPhase, SkipPhase, ComposeUp, ComposeUpFails,
      StartDebugger, EndpointReady, EndpointFails, ProviderError, ProviderDone, DebugDone,
      ProbeDone, StartCleanup, CleanProvider, CleanupError, CleanupDone, CleanupsTried, TearDown,
      FinishRun, ReleaseTrigger, StopSession, EnterProviders, Abandon, Assess, Conclude
<1>7. ASSUME pc' \notin {"command", "join"} PROVE ResultsBelong'
  BY <1>7 DEF ResultsBelong
<1> QED BY <1>2, <1>3, <1>4, <1>5, <1>6, <1>7 DEF Children

-----------------------------------------------------------------------------
(* What is left behind. *)

Declared == {i \in DOMAIN Providers : Providers[i].cleanup}

\* Only what declares a cleanup leaves something, and only cells have services.
LeavingsAreDeclared ==
  /\ left \subseteq Declared
  /\ containers # {} => HasCell

\* As long as no cleanup failed, what the cleanup has passed is clean.
CleanBehind ==
  /\ failures = 0 /\ pc \in {"cleanup", "cleaning"} => \A i \in left : i <= at
  /\ failures = 0 /\ pc \in {"down", "finish"} => left = {}
  /\ failures = 0 /\ pc = "finish" => containers = {}
  /\ pc = "done" /\ (Conclusive \/ status[12] = "Passed") => left = {} /\ containers = {}

World == LeavingsAreDeclared /\ CleanBehind

\* What is declared depends on the plan only.
LEMMA DeclaredStays ==
  ASSUME plan' = plan
  PROVE  (Declared' = Declared) /\ (HasCell' = HasCell)
BY PlanStays DEF Declared

\* What a provider leaves is declared.
LEMMA LeaveDeclared ==
  ASSUME LeavingsAreDeclared, NEW i \in DOMAIN Providers, NEW l \in MayLeave(i)
  PROVE  l \subseteq Declared
BY DEF LeavingsAreDeclared, MayLeave, Declared

\* Only a provider with a cleanup leaves something.
LEMMA StepDeclared ==
  ASSUME TypeOK, Place, Commands, plan \in PlanShape, LeavingsAreDeclared, Next
  PROVE  LeavingsAreDeclared'
<1>0. plan' = plan /\ (Declared' = Declared) /\ (HasCell' = HasCell)
  BY NextKeepsPlan, DeclaredStays
<1> USE <1>0 DEF LeavingsAreDeclared
<1>1. ASSUME ComposeUp \/ ComposeUpFails PROVE LeavingsAreDeclared'
  <2>1. HasCell /\ left' = left
    BY <1>1 DEF ComposeUp, ComposeUpFails, Place
  <2> QED BY <2>1
<1>2. ASSUME CommandEnds PROVE LeavingsAreDeclared'
  <2>1. left' \subseteq Declared
    <3>1. CASE pc = "command"
      <4>1. at \in DOMAIN Providers
        BY <3>1, TypesMean, ProviderFacts DEF Place, WithProvider, InPhase
      <4> QED BY <1>2, <3>1, <4>1, LeaveDeclared DEF CommandEnds
    <3>2. CASE pc # "command"
      BY <1>2, <3>2 DEF CommandEnds
    <3> QED BY <3>1, <3>2
  <2> QED BY <1>2, <2>1 DEF CommandEnds
<1>3. ASSUME DebugCommandEnds PROVE LeavingsAreDeclared'
  <2>1. DebugProvider \in DOMAIN Providers
    BY <1>3, OneDebugger DEF DebugCommandEnds
  <2> QED BY <1>3, <2>1, LeaveDeclared DEF DebugCommandEnds
<1>4. ASSUME CleanupDone \/ TearDown PROVE LeavingsAreDeclared'
  BY <1>4 DEF CleanupDone, TearDown
<1>5. ASSUME ProviderError PROVE LeavingsAreDeclared'
  <2>1. at \in DOMAIN Providers
    BY <1>5, TypesMean, ProviderFacts DEF ProviderError, Place, WithProvider, InPhase
  <2> QED BY <1>5, <2>1, LeaveDeclared DEF ProviderError
<1>6. ASSUME Next, ~ComposeUp, ~ComposeUpFails, ~CommandEnds, ~DebugCommandEnds,
             ~CleanupDone, ~TearDown, ~ProviderError
      PROVE  UNCHANGED <<left, containers>>
  BY <1>6
  DEF Next, Runner, Children, Person, Validate, Refuse, StartPhase, SkipPhase, StartDebugger,
      EndpointReady, EndpointFails, RunProvider, ProviderDone, DebugDone,
      ProbeDone, StartCleanup, CleanProvider, CleanupError, CleanupsTried, FinishRun,
      DebugCommandCollected, ReleaseTrigger, StopSession, PipesClose, worldVars
<1> QED BY <1>1, <1>2, <1>3, <1>4, <1>5, <1>6

\* After a conclusive end nothing is left.
LEMMA StepClean ==
  ASSUME TypeOK, Place, Commands, Record, plan \in PlanShape, World, Next
  PROVE  CleanBehind'
<1>0. /\ Len(Providers) \in Nat /\ DOMAIN Providers = 1 .. Len(Providers)
      /\ at \in Nat /\ left \subseteq Declared /\ Declared \subseteq 1 .. Len(Providers)
      /\ failures \in Nat /\ containers # {} => HasCell
  BY ProviderFacts, TypesMean DEF World, LeavingsAreDeclared, Declared
<1>f. failures \in Nat
  BY TypesMean
<1>1. ASSUME StartCleanup PROVE CleanBehind'
  BY <1>0, <1>1 DEF StartCleanup, CleanBehind
<1>2. ASSUME CleanProvider PROVE CleanBehind'
  <2>1. /\ pc = "cleanup" /\ at > 0 /\ UNCHANGED <<left, containers, failures>>
        /\ IF Providers[at].cleanup THEN pc' = "cleaning" /\ at' = at
           ELSE at' = at - 1 /\ pc' = pc
    BY <1>2 DEF CleanProvider, cleanupVars
  <2>2. failures = 0 => \A i \in left : i <= at
    BY <2>1 DEF World, CleanBehind
  <2>3. ~Providers[at].cleanup => at \notin left
    BY <1>0 DEF Declared
  <2> QED BY <1>0, <2>1, <2>2, <2>3 DEF CleanBehind
<1>3. ASSUME CleanupError PROVE CleanBehind'
  <2>1. pc = "cleanup" /\ pc' = pc /\ failures' = failures + 1
    BY <1>3 DEF CleanupError
  <2>2. failures' # 0
    BY <1>f, <2>1
  <2> QED BY <2>1, <2>2 DEF CleanBehind
<1>4. ASSUME CleanupDone PROVE CleanBehind'
  <2>1. /\ pc = "cleaning" /\ pc' = "cleanup" /\ at' = at - 1
        /\ failures' = failures + IF cmd.result.clean THEN 0 ELSE 1
        /\ left' \in IF cmd.result.clean THEN {left \ {at}} ELSE {left, left \ {at}}
    BY <1>4 DEF CleanupDone
  <2>2. failures = 0 => \A i \in left : i <= at
    BY <2>1 DEF World, CleanBehind
  <2>3. failures' = 0 => failures = 0 /\ left' = left \ {at}
    BY <1>f, <2>1
  <2>4. failures' = 0 => \A i \in left' : i <= at'
    BY <1>0, <2>1, <2>2, <2>3
  <2> QED BY <2>1, <2>4 DEF CleanBehind
<1>5. ASSUME CleanupsTried PROVE CleanBehind'
  <2>1. /\ pc = "cleanup" /\ at = 0 /\ UNCHANGED <<left, containers, failures>>
        /\ pc' = IF HasCell THEN "down" ELSE "finish"
    BY <1>5 DEF CleanupsTried, worldVars, cleanupVars
  <2>2. failures = 0 => \A i \in left : i <= at
    BY <2>1 DEF World, CleanBehind
  <2>3. failures = 0 => left = {}
    BY <1>0, <2>1, <2>2
  <2> QED BY <1>0, <2>1, <2>3 DEF CleanBehind
<1>6. ASSUME TearDown PROVE CleanBehind'
  <2>1. /\ pc = "down" /\ pc' = "finish" /\ left' = left
        /\ failures' = failures + IF receipt' = "Verified" THEN 0 ELSE 1
        /\ receipt' = "Verified" => containers' = {}
    BY <1>6 DEF TearDown
  <2>2. failures = 0 => left = {}
    BY <2>1 DEF World, CleanBehind
  <2>3. failures' = 0 => failures = 0 /\ receipt' = "Verified"
    BY <1>f, <2>1
  <2> QED BY <2>1, <2>2, <2>3 DEF CleanBehind
<1>7. ASSUME FinishRun PROVE CleanBehind'
  <2>1. /\ pc = "finish" /\ pc' = "done" /\ UNCHANGED <<left, containers>>
        /\ Finish(IF failures = 0 THEN "Passed" ELSE "Failed")
        /\ seen' = IF failures = 0 THEN seen ELSE seen \cup {"InfrastructureFailed"}
        /\ verdict' \in {IF Diagnostic THEN "Incomplete" ELSE Fold(seen')}
                          \cup (IF attached THEN {"Error"} ELSE {})
    BY <1>7 DEF FinishRun, worldVars
  <2>2. failures = 0 => left = {} /\ containers = {}
    BY <2>1 DEF World, CleanBehind
  <2>3. Conclusive' => failures = 0
    <3>1. "InfrastructureFailed" \in seen' => Fold(seen') = "InfrastructureFailed"
      BY DEF Fold
    <3>2. failures # 0 => "InfrastructureFailed" \in seen'
      BY <2>1
    <3> QED BY <2>1, <3>1, <3>2 DEF Conclusive
  <2>4. status'[12] = "Passed" => failures = 0
    <3>1. next = 12 /\ status \in [1 .. 12 -> Status]
      BY <2>1, PlaceMeans DEF Releasing
    <3> QED BY <2>1, <3>1 DEF Finish
  <2> QED BY <2>1, <2>2, <2>3, <2>4 DEF CleanBehind
<1>8. ASSUME Refuse PROVE CleanBehind'
  <2>1. pc = "validate" /\ verdict' = "Error" /\ pc' = "done" /\ status' = status
    BY <1>8 DEF Refuse, recordVars
  <2>2. next = 1
    BY <2>1, PlaceMeans
  <2>3. status[12] = "Pending"
    BY <2>2 DEF Record, RecordRows
  <2> QED BY <2>1, <2>3 DEF CleanBehind, Conclusive
<1>9. ASSUME CommandEnds \/ PipesClose PROVE CleanBehind'
  <2>1. cmd # NoCommand \/ task # NoCommand
    BY <1>9, CommandFacts DEF CommandEnds, PipesClose
  <2>2. pc \in InPhase \cup {"phase", "cleaning"}
    BY <2>1 DEF Commands, InPhase, WithProvider
  <2>3. pc' = pc /\ failures' = failures /\ at' = at /\ (pc = "cleaning" => left' = left)
    BY <1>9 DEF CommandEnds, PipesClose, cleanupVars
  <2> QED BY <2>2, <2>3 DEF World, CleanBehind, InPhase, WithProvider
<1>10. ASSUME DebugCommandEnds \/ DebugCommandCollected PROVE CleanBehind'
  <2>1. task # NoCommand
    BY <1>10, CommandFacts DEF DebugCommandEnds, DebugCommandCollected, Collected
  <2>2. pc \in InPhase \cup {"phase"} /\ pc' = pc
    BY <1>10, <2>1 DEF Commands, DebugCommandEnds, DebugCommandCollected
  <2> QED BY <2>2 DEF CleanBehind, InPhase, WithProvider
<1>11. ASSUME Next, ~StartCleanup, ~CleanProvider, ~CleanupError, ~CleanupDone, ~CleanupsTried,
              ~TearDown, ~FinishRun, ~Refuse, ~Children, ~PipesClose
       PROVE  pc' \notin {"cleanup", "cleaning", "down", "finish", "done"}
  BY <1>11
  DEF Next, Runner, Person, Validate, StartPhase, SkipPhase, ComposeUp, ComposeUpFails,
      StartDebugger, EndpointReady, EndpointFails, RunProvider, ProviderError, ProviderDone,
      DebugDone, ProbeDone, ReleaseTrigger, StopSession, EnterProviders, Abandon, Assess, Conclude
<1>12. ASSUME pc' \notin {"cleanup", "cleaning", "down", "finish", "done"} PROVE CleanBehind'
  BY <1>12 DEF CleanBehind
<1> QED
  BY <1>1, <1>2, <1>3, <1>4, <1>5, <1>6, <1>7, <1>8, <1>9, <1>10, <1>11, <1>12 DEF Children

-----------------------------------------------------------------------------
(* The order of the cleanups. *)

Above(a) == {i \in Declared : i > a}

\* The cleanups that were tried are those of the providers it has passed.
TriedBackwards(a) ==
  /\ \A i, j \in DOMAIN cleaned : i < j => cleaned[i] > cleaned[j]
  /\ {cleaned[i] : i \in DOMAIN cleaned} = Above(a)
  /\ Len(cleaned) = Cardinality(Above(a))

CleanupInTurn ==
  /\ pc \in {"validate", "phase"} \cup InPhase => cleaned = <<>>
  /\ pc \in Releasing => TriedBackwards(at)
  /\ pc = "done" /\ next = 13 => TriedBackwards(0)

\* The cleanups above a position grow one at a time.
LEMMA AboveFacts ==
  ASSUME plan \in PlanShape
  PROVE  /\ \A a \in Nat : IsFiniteSet(Above(a)) /\ Above(a) \subseteq 1 .. Len(Providers)
         /\ Above(Len(Providers)) = {}
         /\ \A a \in Nat : a > 0 /\ a \in Declared =>
              Above(a - 1) = Above(a) \cup {a} /\ a \notin Above(a)
         /\ \A a \in Nat : a > 0 /\ a \notin Declared => Above(a - 1) = Above(a)
<1>1. Len(Providers) \in Nat /\ Declared \subseteq 1 .. Len(Providers)
  BY ProviderFacts DEF Declared
<1>a. \A i \in Declared : i \in Nat /\ i >= 1 /\ i <= Len(Providers)
  BY <1>1
<1>b. \A a, i : i \in Above(a) <=> i \in Declared /\ i > a
  BY DEF Above
<1>2. ASSUME NEW a \in Nat PROVE IsFiniteSet(Above(a)) /\ Above(a) \subseteq 1 .. Len(Providers)
  <2>1. Above(a) \subseteq 1 .. Len(Providers)
    BY <1>1 DEF Above
  <2>2. IsFiniteSet(1 .. Len(Providers))
    BY <1>1, FS_Interval
  <2> QED BY <2>1, <2>2, FS_Subset
<1>3. Above(Len(Providers)) = {}
  <2>1. \A i : i \notin Above(Len(Providers))
    <3>1. \A i \in Declared : ~(i > Len(Providers))
      BY <1>1, <1>a
    <3> QED BY <1>b, <3>1
  <2> QED BY <2>1
<1>4. ASSUME NEW a \in Nat, a > 0
      PROVE  /\ a \in Declared => Above(a - 1) = Above(a) \cup {a} /\ a \notin Above(a)
             /\ a \notin Declared => Above(a - 1) = Above(a)
  <2>1. \A i : i \in Above(a - 1) <=> i \in Above(a) \/ (i = a /\ a \in Declared)
    <3>1. \A i \in Declared : i > a - 1 <=> i > a \/ i = a
      BY <1>a
    <3> QED BY <1>b, <3>1
  <2>2. a \notin Above(a)
    BY <1>b
  <2> QED BY <2>1, <2>2
<1> QED BY <1>2, <1>3, <1>4

\* One cleanup more, the next one downwards.
LEMMA TriedNext ==
  ASSUME TypeOK, plan \in PlanShape, TriedBackwards(at), at > 0, at \in Declared,
         cleaned' = Append(cleaned, at), plan' = plan, at' = at - 1
  PROVE  TriedBackwards(at)'
<1>1. /\ cleaned \in Seq(DOMAIN Providers) /\ at \in Nat
      /\ DOMAIN Providers = 1 .. Len(Providers) /\ Len(Providers) \in Nat
  BY TypesMean, ProviderFacts
<1> DEFINE n == Len(cleaned)
<1>2. /\ n \in Nat /\ DOMAIN cleaned = 1 .. n /\ DOMAIN cleaned' = 1 .. n + 1
      /\ Len(cleaned') = n + 1
      /\ \A i \in 1 .. n : cleaned'[i] = cleaned[i] /\ cleaned[i] \in Nat
      /\ cleaned'[n + 1] = at
  BY <1>1
<1>3. \A i \in 1 .. n : cleaned[i] > at
  <2>1. {cleaned[i] : i \in DOMAIN cleaned} = Above(at)
    BY DEF TriedBackwards
  <2> QED BY <1>2, <2>1 DEF Above
<1>4. /\ Above(at - 1) = Above(at) \cup {at} /\ at \notin Above(at)
      /\ IsFiniteSet(Above(at))
  BY <1>1, AboveFacts
<1>5. \A a : Above(a)' = {i \in Declared : i > a'}
  BY DeclaredStays DEF Above
<1>6. Above(at)' = Above(at - 1)
  BY DeclaredStays DEF Above
<1>7. \A i, j \in DOMAIN cleaned' : i < j => cleaned'[i] > cleaned'[j]
  <2>1. \A i, j \in 1 .. n : i < j => cleaned[i] > cleaned[j]
    BY <1>2 DEF TriedBackwards
  <2> QED BY <1>2, <1>3, <2>1
<1>8. {cleaned'[i] : i \in DOMAIN cleaned'} = Above(at - 1)
  <2>1. {cleaned[i] : i \in 1 .. n} = Above(at)
    BY <1>2 DEF TriedBackwards
  <2>2. {cleaned'[i] : i \in 1 .. n + 1} = {cleaned[i] : i \in 1 .. n} \cup {at}
    BY <1>2
  <2> QED BY <1>2, <1>4, <2>1, <2>2
<1>9. Len(cleaned') = Cardinality(Above(at - 1))
  <2>1. n = Cardinality(Above(at))
    BY DEF TriedBackwards
  <2>2. Cardinality(Above(at) \cup {at}) = Cardinality(Above(at)) + 1
    BY <1>4, FS_AddElement
  <2> QED BY <1>2, <1>4, <2>1, <2>2
<1> QED BY <1>6, <1>7, <1>8, <1>9 DEF TriedBackwards

\* The cleanups that were tried are those above the position, backwards.
LEMMA StepCleanups ==
  ASSUME TypeOK, Place, Commands, Record, plan \in PlanShape, CleanupInTurn, Next
  PROVE  CleanupInTurn'
<1>0. /\ plan' = plan /\ (Declared' = Declared) /\ Providers' = Providers
      /\ \A a : Above(a)' = {i \in Declared : i > a'}
  BY NextKeepsPlan, DeclaredStays, PlanStays DEF Above
<1>1. ASSUME StartCleanup PROVE CleanupInTurn'
  <2>1. cleaned = <<>> /\ cleaned' = cleaned /\ pc' = "cleanup" /\ at' = Len(Providers)
    BY <1>1 DEF StartCleanup, CleanupInTurn
  <2>2. Above(at)' = {}
    BY <1>0, <2>1, AboveFacts DEF Above
  <2>3. TriedBackwards(at)'
    BY <2>1, <2>2, FS_EmptySet DEF TriedBackwards
  <2> QED BY <2>1, <2>3 DEF CleanupInTurn, InPhase, WithProvider
<1>2. ASSUME CleanProvider PROVE CleanupInTurn'
  <2>1. /\ pc = "cleanup" /\ at > 0 /\ cleaned' = cleaned
        /\ IF Providers[at].cleanup THEN pc' = "cleaning" /\ at' = at
           ELSE at' = at - 1 /\ pc' = pc
    BY <1>2 DEF CleanProvider, cleanupVars
  <2>2. TriedBackwards(at) /\ at \in Nat /\ at <= Len(Providers)
    BY <2>1, TypesMean DEF CleanupInTurn, Releasing, Place
  <2>3. Above(at)' = Above(at)
    <3>1. CASE Providers[at].cleanup
      BY <1>0, <2>1, <3>1 DEF Above
    <3>2. CASE ~Providers[at].cleanup
      <4>1. at \notin Declared
        BY <3>2 DEF Declared
      <4>2. Above(at - 1) = Above(at)
        BY <2>1, <2>2, <4>1, AboveFacts
      <4> QED BY <1>0, <2>1, <3>2, <4>2 DEF Above
    <3> QED BY <3>1, <3>2
  <2>4. TriedBackwards(at)'
    BY <2>1, <2>2, <2>3 DEF TriedBackwards
  <2> QED BY <2>1, <2>4 DEF CleanupInTurn, InPhase, WithProvider
<1>3. ASSUME CleanupError \/ CleanupDone PROVE CleanupInTurn'
  <2>1. /\ pc \in {"cleanup", "cleaning"} /\ pc' = "cleanup" /\ at > 0 /\ Providers[at].cleanup
        /\ at' = at - 1 /\ cleaned' = Append(cleaned, at)
    BY <1>3, TypesMean DEF CleanupError, CleanupDone, Place
  <2>2. TriedBackwards(at) /\ at \in Declared
    BY <2>1, TypesMean, ProviderFacts DEF CleanupInTurn, Releasing, Place, Declared
  <2>3. TriedBackwards(at)'
    BY <1>0, <2>1, <2>2, TriedNext
  <2> QED BY <2>1, <2>3 DEF CleanupInTurn, InPhase, WithProvider
<1>4. ASSUME CleanupsTried \/ TearDown \/ FinishRun PROVE CleanupInTurn'
  <2>1. /\ pc \in Releasing /\ pc' \in {"down", "finish", "done"} /\ at' = at /\ at = 0
        /\ cleaned' = cleaned
    BY <1>4 DEF CleanupsTried, TearDown, FinishRun, worldVars, cleanupVars, Releasing, Place
  <2>2. TriedBackwards(at)
    BY <2>1 DEF CleanupInTurn
  <2>3. TriedBackwards(at)' /\ TriedBackwards(0)'
    BY <1>0, <2>1, <2>2 DEF TriedBackwards, Above
  <2> QED BY <2>1, <2>3 DEF CleanupInTurn, InPhase, WithProvider
<1>5. ASSUME Refuse PROVE CleanupInTurn'
  <2>1. pc' = "done" /\ next' = 1
    BY <1>5 DEF Refuse, recordVars, Place
  <2> QED BY <2>1 DEF CleanupInTurn, InPhase, WithProvider, Releasing
<1>6. ASSUME Children \/ PipesClose PROVE CleanupInTurn'
  <2>1. UNCHANGED <<pc, next, at, cleaned>>
    BY <1>6 DEF Children, CommandEnds, DebugCommandEnds, DebugCommandCollected, PipesClose,
                cleanupVars, recordVars
  <2> QED BY <1>0, <2>1 DEF CleanupInTurn, TriedBackwards, Above
<1>7. ASSUME Next, ~StartCleanup, ~CleanProvider, ~CleanupError, ~CleanupDone, ~CleanupsTried,
              ~TearDown, ~FinishRun, ~Refuse, ~Children, ~PipesClose
       PROVE  /\ pc \in {"validate", "phase"} \cup InPhase /\ cleaned' = cleaned
              /\ pc' \in {"phase"} \cup InPhase
  BY <1>7
  DEF Next, Runner, Person, Validate, StartPhase, SkipPhase, ComposeUp, ComposeUpFails,
      StartDebugger, EndpointReady, EndpointFails, RunProvider, ProviderError, ProviderDone,
      DebugDone, ProbeDone, ReleaseTrigger, StopSession, EnterProviders, Abandon, Assess,
      Conclude, InPhase, WithProvider, cleanupVars
<1>8. ASSUME /\ pc \in {"validate", "phase"} \cup InPhase /\ cleaned' = cleaned
             /\ pc' \in {"phase"} \cup InPhase
      PROVE  CleanupInTurn'
  BY <1>8 DEF CleanupInTurn, InPhase, WithProvider, Releasing
<1> QED BY <1>1, <1>2, <1>3, <1>4, <1>5, <1>6, <1>7, <1>8

-----------------------------------------------------------------------------
(* What a verdict rests on. *)

Good == {"SetupPassed", "Reproduced", "NotReproduced"}

\* The first n providers have run, in turn and well, and their states are verified.
RanThrough(n) ==
  /\ Len(ran) = n
  /\ \A i \in 1 .. n :
       /\ ran[i].provider = i /\ ran[i].verdict \in Good
       /\ Providers[i].fingerprint => i \in verified

Bad == "InfrastructureFailed" \in seen \/ "DifferentFailure" \in seen

\* Unless something went wrong, the providers before the one in hand have run.
InTurn ==
  pc \in {"validate", "phase"} \cup InPhase /\ ~Bad =>
    /\ RanThrough(at - 1)
    /\ \A i \in 1 .. Len(Providers) :
         /\ i < at => Providers[i].phase <= next
         /\ i < at /\ pc \notin InPhase => Providers[i].phase < next
         /\ i >= at => Providers[i].phase >= next

\* And once it cleans up, all of them.
InFull ==
  next >= 12 /\ pc # "phase" /\ ~Bad =>
    \E n \in 0 .. Len(Providers) :
      /\ RanThrough(n)
      /\ \A i \in 1 .. Len(Providers) : i <= n <=> Providers[i].phase < 12

Evidence ==
  /\ infra <=> "InfrastructureFailed" \in seen
  /\ different <=> "DifferentFailure" \in seen
  /\ InTurn
  /\ InFull
  /\ Conclusive => ~Bad

\* The providers of a plan are in the order of their phases.
LEMMA SortedFacts ==
  ASSUME plan \in PlanShape
  PROVE  /\ \A i \in 1 .. Len(Providers) : Providers[i].phase \in 3 .. 12
         /\ plan \in PlanType => \A i, j \in 1 .. Len(Providers) :
              i < j => Providers[i].phase <= Providers[j].phase
<1>1. \A i \in 1 .. Len(Providers) : Providers[i].phase \in 3 .. 12
  <2>1. ASSUME NEW i \in 1 .. Len(Providers) PROVE Providers[i].phase \in 3 .. 12
    <3>1. Providers[i] \in ProviderType
      BY ProviderFacts
    <3> QED BY <3>1, TypeFacts
  <2> QED BY <2>1
<1>2. plan \in PlanType => \A i, j \in 1 .. Len(Providers) :
              i < j => Providers[i].phase <= Providers[j].phase
  BY ProviderFacts DEF PlanType, Providers
<1> QED BY <1>1, <1>2

\* Arithmetic on phase numbers.
LEMMA PhasesCompare ==
  \A x, y \in 3 .. 12, n \in 1 .. 11 : x <= y /\ x >= n + 1 => y >= n + 1
OBVIOUS

\* The evidence through each kind of step.
LEMMA EvidenceQuiet ==
  ASSUME TypeOK, Place, Evidence, Quiet
  PROVE  Evidence'
<1>1. /\ Providers' = Providers
      /\ UNCHANGED <<seen, infra, different, ran, verified, next>>
      /\ verdict' \in {verdict, "Error"}
  BY PlanStays DEF Quiet, tallyVars, recordVars
<1>2. (Bad' <=> Bad) /\ \A n : RanThrough(n)' <=> (Len(ran) = n' /\
                \A i \in 1 .. n' : /\ ran[i].provider = i /\ ran[i].verdict \in Good
                                   /\ Providers[i].fingerprint => i \in verified)
  BY <1>1 DEF Bad, RanThrough
<1>3. InTurn'
  <2>1. ASSUME pc' \in {"validate", "phase"} \cup InPhase
        PROVE  /\ pc \in {"validate", "phase"} \cup InPhase /\ at' = at
               /\ pc' \notin InPhase => pc \notin InPhase
    BY <2>1 DEF Quiet, InPhase, WithProvider
  <2> QED BY <1>1, <2>1 DEF Evidence, InTurn, RanThrough, Bad
<1>4. InFull'
  BY <1>1 DEF Evidence, InFull, RanThrough, Bad, Quiet
<1>5. Conclusive' => ~Bad'
  BY <1>1, <1>2 DEF Evidence, Conclusive
<1> QED BY <1>1, <1>3, <1>4, <1>5 DEF Evidence

\* The invariant of the evidence is kept by a step that opens a phase,
LEMMA EvidenceOpens ==
  ASSUME TypeOK, Place, plan \in PlanShape, Evidence, Opens
  PROVE  Evidence'
<1>1. /\ Providers' = Providers /\ pc = "phase"
      /\ UNCHANGED <<seen, infra, different, ran, verified, next, verdict>>
      /\ IF next < 12 THEN pc' \in InPhase /\ at' = at ELSE pc' = "cleanup"
      /\ next \in 2 .. 12
  BY PlanStays, PlaceMeans DEF Opens, tallyVars
<1>2. Len(Providers) \in Nat /\ at \in 1 .. Len(Providers) + 1
  BY <1>1, ProviderFacts, TypesMean DEF Place
<1>3. (Conclusive' <=> Conclusive) /\ (Bad' <=> Bad)
  BY <1>1 DEF Conclusive, Bad
<1>4. ~Bad =>
        /\ RanThrough(at - 1)
        /\ \A i \in 1 .. Len(Providers) :
             /\ i < at => Providers[i].phase < next
             /\ i >= at => Providers[i].phase >= next
  BY <1>1 DEF Evidence, InTurn, InPhase, WithProvider
<1>5. \A i \in 1 .. Len(Providers) : Providers[i].phase \in 3 .. 12
  BY SortedFacts
<1>6. CASE next < 12
  <2>1. InTurn'
    <3>1. at' = at /\ pc' \in InPhase
      BY <1>1, <1>6
    <3>2. ~Bad => RanThrough(at - 1)'
      BY <1>1, <1>4, <3>1 DEF RanThrough
    <3>3. ~Bad => \A i \in 1 .. Len(Providers) :
             /\ i < at => Providers[i].phase <= next
             /\ i >= at => Providers[i].phase >= next
      BY <1>1, <1>4, <1>5
    <3> QED BY <1>1, <1>3, <3>1, <3>2, <3>3 DEF InTurn
  <2>2. InFull'
    BY <1>1, <1>6 DEF InFull
  <2> QED BY <1>1, <1>3, <2>1, <2>2 DEF Evidence
<1>7. CASE next = 12
  <2>1. InTurn'
    BY <1>1, <1>7 DEF InTurn, InPhase, WithProvider
  <2>2. InFull'
    <3>1. SUFFICES ASSUME ~Bad
          PROVE  \E n \in 0 .. Len(Providers) :
                   /\ RanThrough(n)'
                   /\ \A i \in 1 .. Len(Providers) : i <= n <=> Providers[i].phase < 12
      BY <1>1, <1>3 DEF InFull, RanThrough
    <3>2. RanThrough(at - 1) /\ at - 1 \in 0 .. Len(Providers)
      BY <1>2, <1>4, <3>1
    <3>3. \A i \in 1 .. Len(Providers) : i <= at - 1 <=> Providers[i].phase < 12
      BY <1>2, <1>4, <1>5, <1>7, <3>1
    <3> DEFINE n == at - 1
    <3>4. (Len(ran) = n) /\ \A i \in 1 .. n :
       /\ ran[i].provider = i /\ ran[i].verdict \in Good
       /\ Providers[i].fingerprint => i \in verified
      BY <3>2 DEF RanThrough
    <3> HIDE DEF n
    <3>5. n \in 0 .. Len(Providers)
      BY <3>2 DEF n
    <3>6. \E m \in 0 .. Len(Providers) :
             /\ m = n
             /\ \A i \in 1 .. Len(Providers) : i <= m <=> Providers[i].phase < 12
      BY <3>3, <3>5 DEF n
    <3> QED BY <1>1, <3>4, <3>6 DEF RanThrough
  <2> QED BY <1>1, <1>3, <2>1, <2>2 DEF Evidence
<1> QED BY <1>1, <1>6, <1>7

\* by one that closes a phase,
LEMMA EvidenceCloses ==
  ASSUME TypeOK, Place, Place', plan \in PlanShape, Evidence, Closes
  PROVE  Evidence'
<1>1. /\ Providers' = Providers /\ pc' = "phase" /\ next' = next + 1 /\ next \in 1 .. 11
      /\ UNCHANGED <<seen, infra, different, ran, verified, at, verdict>>
      /\ pc \in {"validate", "phase"} \cup InPhase
      /\ ~MoreProviders
  <2>1. /\ plan' = plan /\ pc' = "phase" /\ next' = next + 1 /\ next <= 11
        /\ UNCHANGED <<seen, infra, different, ran, verified, at, verdict>>
        /\ pc \in {"validate", "phase"} \cup InPhase
        /\ ~MoreProviders
    BY DEF Closes, Finish, tallyVars
  <2>2. next \in 1 .. 13
    BY PlaceMeans
  <2> QED BY <2>1, <2>2, PlanStays
<1>2. /\ Len(Providers) \in Nat /\ at \in 1 .. Len(Providers) + 1
      /\ plan \in PlanType
  <2>1. at >= 1 /\ next' # 1 /\ plan' = plan
    BY <1>1 DEF Place, Closes
  <2>2. plan \in PlanType
    BY <2>1 DEF Place
  <2> QED BY <2>1, <2>2, ProviderFacts, TypesMean
<1>3. (Conclusive' <=> Conclusive) /\ (Bad' <=> Bad)
  BY <1>1 DEF Conclusive, Bad
<1>4. ASSUME ~Bad
      PROVE  \A i \in 1 .. Len(Providers) :
             /\ i < at => Providers[i].phase < next + 1
             /\ i >= at => Providers[i].phase >= next + 1
  <2>1. \A i \in 1 .. Len(Providers) :
             /\ i < at => Providers[i].phase <= next
             /\ i >= at => Providers[i].phase >= next
    BY <1>1, <1>4 DEF Evidence, InTurn
  <2>2. \A i \in 1 .. Len(Providers) : Providers[i].phase \in 3 .. 12
    BY SortedFacts
  <2>3. at <= Len(Providers) => Providers[at].phase >= next + 1
    <3>1. SUFFICES ASSUME at <= Len(Providers) PROVE Providers[at].phase >= next + 1
      OBVIOUS
    <3>2. at \in 1 .. Len(Providers)
      BY <1>2, <3>1
    <3>3. Providers[at].phase >= next /\ Providers[at].phase \in 3 .. 12
      BY <1>2, <2>1, <2>2, <3>2
    <3>4. Providers[at].phase # next /\ next \in 1 .. 11
      BY <1>1, <3>1 DEF MoreProviders
    <3> QED BY ONLY <3>3, <3>4
  <2>4. \A i \in 1 .. Len(Providers) : i >= at => Providers[i].phase >= next + 1
    <3>1. ASSUME NEW i \in 1 .. Len(Providers), i >= at PROVE Providers[i].phase >= next + 1
      <4>1. CASE i = at
        BY <1>2, <2>3, <4>1
      <4>2. CASE i > at
        <5>1. at \in 1 .. Len(Providers)
          BY <1>2, <4>2
        <5>2. Providers[at].phase <= Providers[i].phase
          BY <1>2, <4>2, <5>1, SortedFacts
        <5>3. Providers[at].phase >= next + 1
          BY <2>3, <5>1
        <5>4. Providers[at].phase \in 3 .. 12 /\ Providers[i].phase \in 3 .. 12
          BY <2>2, <5>1
        <5>5. next \in 1 .. 11
          BY <1>1
        <5> QED BY ONLY <5>2, <5>3, <5>4, <5>5, PhasesCompare
      <4> QED BY <1>2, <3>1, <4>1, <4>2
    <3> QED BY <3>1
  <2> QED BY <1>1, <2>1, <2>2, <2>4
<1>5. InTurn'
  <2>1. ~Bad => RanThrough(at - 1)
    BY <1>1 DEF Evidence, InTurn
  <2>2. ~Bad => RanThrough(at - 1)'
    BY <1>1, <2>1 DEF RanThrough
  <2>3. \A i \in 1 .. Len(Providers) : Providers[i].phase \in 3 .. 12
    BY SortedFacts
  <2> QED BY <1>1, <1>3, <1>4, <2>2, <2>3 DEF InTurn
<1>6. InFull'
  BY <1>1 DEF InFull
<1> QED BY <1>1, <1>3, <1>5, <1>6 DEF Evidence

\* by one in which a provider gives something back,
LEMMA EvidenceGives ==
  ASSUME TypeOK, Place, Evidence, Gives
  PROVE  Evidence'
<1>1. /\ seen' = seen \cup {"InfrastructureFailed"} /\ infra' = TRUE /\ different' = different
      /\ verdict' = "none"
  BY PlaceMeans DEF Gives, Abandon
<1>2. Bad'
  BY <1>1 DEF Bad
<1> QED BY <1>1, <1>2 DEF Evidence, InTurn, InFull, Conclusive

\* by one that concludes a provider,
LEMMA EvidenceConcludes ==
  ASSUME TypeOK, Place, Place', plan \in PlanShape, Record, Evidence, Concludes
  PROVE  Evidence'
<1>1. /\ Providers' = Providers /\ pc \in InPhase /\ next \in 2 .. 11
      /\ pc # "validate" /\ plan \in PlanType
      /\ Len(Providers) \in Nat /\ at \in 1 .. Len(Providers) /\ Providers[at].phase = next
      /\ infra \in BOOLEAN /\ different \in BOOLEAN
      /\ verdict' = "none"
  <2>1. plan' = plan /\ pc \in WithProvider /\ verdict' = verdict
    BY DEF Concludes
  <2>2. pc \in InPhase /\ pc # "validate"
    BY <2>1 DEF InPhase, WithProvider
  <2>3. next \in 2 .. 11 /\ verdict = "none" /\ at \in Nat
    BY <2>2, PlaceMeans
  <2>4. plan \in PlanType /\ at >= 1 /\ at <= Len(Providers) /\ Providers[at].phase = next
    BY <2>1, <2>2, <2>3 DEF Place
  <2>5. infra \in BOOLEAN /\ different \in BOOLEAN
    BY TypesMean
  <2> QED BY <2>1, <2>2, <2>3, <2>4, <2>5, PlanStays, ProviderFacts
<1>2. PICK v \in ProviderVerdict, r \in ResultType :
       /\ Conclude(v, r)
       /\ \/ /\ UNCHANGED verified
             /\ ~Providers[at].fingerprint \/ v \notin Good
          \/ verified' = verified \cup {at}
  BY DEF Concludes, Good
<1> DEFINE more == at < Len(Providers) /\ Providers[at + 1].phase = next
<1>3. /\ ran' = Append(ran, Run(v, r))
      /\ seen' = seen \cup {v}
      /\ infra' = (infra \/ v = "InfrastructureFailed")
      /\ different' = (different \/ v = "DifferentFailure")
      /\ at' = at + 1
      /\ pc' = IF more THEN "provider" ELSE "phase"
      /\ more => next' = next
  BY <1>2 DEF Conclude, recordVars
<1>4. /\ infra' <=> "InfrastructureFailed" \in seen'
      /\ different' <=> "DifferentFailure" \in seen'
  <2>1. /\ infra <=> "InfrastructureFailed" \in seen
        /\ different <=> "DifferentFailure" \in seen
    BY DEF Evidence
  <2> QED BY <1>1, <1>3, <2>1
<1>5. ASSUME ~Bad'
      PROVE  /\ v \in Good /\ ~Bad /\ RanThrough(at - 1)'
             /\ ~more => Finish("Passed")
  <2>1. v \in Good /\ ~Bad
    BY <1>3, <1>5 DEF Bad, Good, ProviderVerdict
  <2>2. RanThrough(at - 1)
    BY <1>1, <2>1 DEF Evidence, InTurn
  <2>3. ~more => Finish("Passed")
    <3>1. ~phaseFailed
      <4>1. ~infra /\ ~different
        BY <2>1 DEF Evidence, Bad
      <4> QED BY <4>1 DEF Record, FlagsAgree
    <3>2. v \notin {"DifferentFailure", "InfrastructureFailed"}
      BY <2>1 DEF Good
    <3> QED BY <1>2, <3>1, <3>2 DEF Conclude
  <2>4. /\ Len(ran) = at - 1 /\ Len(ran') = at
        /\ \A i \in 1 .. at - 1 : ran'[i] = ran[i]
        /\ ran'[at].provider = at /\ ran'[at].verdict = v
    <3>1. Len(ran) = at - 1
      BY <2>2 DEF RanThrough
    <3>2. at \in DOMAIN Providers
      BY <1>1, ProviderFacts
    <3>3. /\ Len(ran') = Len(ran) + 1
          /\ \A k \in 1 .. Len(ran) : ran'[k] = ran[k]
          /\ ran'[Len(ran) + 1].provider = at /\ ran'[Len(ran) + 1].verdict = v
      BY <1>3, <3>2, RanGrows
    <3>4. Len(ran) + 1 = at
      BY <1>1, <3>1
    <3> QED BY <3>1, <3>3, <3>4
  <2>5. ASSUME NEW i \in 1 .. at
        PROVE  /\ ran'[i].provider = i /\ ran'[i].verdict \in Good
               /\ Providers[i].fingerprint => i \in verified'
    <3>1. CASE i = at
      <4>1. Providers[at].fingerprint => at \in verified'
        BY <1>2, <2>1
      <4> QED BY <2>1, <2>4, <3>1, <4>1
    <3>2. CASE i # at
      <4>1. i \in 1 .. at - 1
        BY <1>1, <2>5, <3>2
      <4>2. /\ ran[i].provider = i /\ ran[i].verdict \in Good
            /\ Providers[i].fingerprint => i \in verified
        BY <2>2, <4>1 DEF RanThrough
      <4>3. verified \subseteq verified'
        BY <1>2
      <4> QED BY <2>4, <4>1, <4>2, <4>3
    <3> QED BY <3>1, <3>2
  <2>6. at' - 1 = at
    BY <1>1, <1>3
  <2>7. RanThrough(at - 1)'
    BY <1>1, <2>4, <2>5, <2>6 DEF RanThrough
  <2> QED BY <2>1, <2>3, <2>7
<1>6. \A i \in 1 .. Len(Providers) : Providers[i].phase \in 3 .. 12
  BY SortedFacts
<1>7. ~Bad => \A i \in 1 .. Len(Providers) :
             /\ i < at => Providers[i].phase <= next
             /\ i >= at => Providers[i].phase >= next
  BY <1>1 DEF Evidence, InTurn
<1>8. ASSUME ~Bad', more PROVE InTurn' /\ InFull'
  <2>1. next' = next /\ pc' = "provider" /\ pc' \in InPhase
    BY <1>3, <1>8 DEF InPhase, WithProvider
  <2>2. \A i \in 1 .. Len(Providers) :
             /\ i < at + 1 => Providers[i].phase <= next
             /\ i >= at + 1 => Providers[i].phase >= next
    BY <1>1, <1>5, <1>6, <1>7, <1>8
  <2>3. InTurn'
    BY <1>1, <1>3, <1>5, <1>8, <2>1, <2>2 DEF InTurn
  <2>4. InFull'
    BY <1>1, <2>1 DEF InFull
  <2> QED BY <2>3, <2>4
<1>9. ASSUME ~Bad', ~more PROVE InTurn' /\ InFull'
  <2>1. next' = next + 1 /\ pc' = "phase" /\ pc' \notin InPhase
    BY <1>3, <1>5, <1>9 DEF InPhase, WithProvider, Finish
  <2>2. ASSUME NEW i \in 1 .. Len(Providers), i < at + 1
        PROVE  Providers[i].phase < next + 1
    <3>1. Providers[i].phase <= next
      <4>1. CASE i < at
        BY <1>5, <1>7, <1>9, <4>1
      <4>2. CASE i = at
        BY <1>1, <4>2
      <4> QED BY <1>1, <2>2, <4>1, <4>2
    <3>2. Providers[i].phase \in 3 .. 12 /\ next \in Nat
      BY <1>1, <1>6
    <3> QED BY <3>1, <3>2
  <2>3. at + 1 <= Len(Providers) => Providers[at + 1].phase >= next + 1
    <3>1. at + 1 <= Len(Providers) =>
            /\ Providers[at + 1].phase >= next /\ Providers[at + 1].phase # next
            /\ Providers[at + 1].phase \in 3 .. 12
      BY <1>1, <1>5, <1>6, <1>7, <1>9
    <3> QED BY <1>1, <3>1
  <2>4. ASSUME NEW i \in 1 .. Len(Providers), i >= at + 1 PROVE Providers[i].phase >= next + 1
    <3>1. at + 1 \in 1 .. Len(Providers)
      BY <1>1, <2>4
    <3>2. CASE i = at + 1
      BY <2>3, <3>1, <3>2
    <3>3. CASE i > at + 1
      <4>1. Providers[at + 1].phase <= Providers[i].phase
        BY <1>1, <3>1, <3>3, SortedFacts
      <4>2. Providers[at + 1].phase >= next + 1
        BY <2>3, <3>1
      <4>3. Providers[at + 1].phase \in 3 .. 12 /\ Providers[i].phase \in 3 .. 12
        BY <1>6, <3>1
      <4>4. next \in 1 .. 11
        BY <1>1
      <4> QED BY ONLY <4>1, <4>2, <4>3, <4>4, PhasesCompare
    <3> QED BY <1>1, <2>4, <3>2, <3>3
  <2>5. InTurn'
    <3>1. ASSUME NEW i \in 1 .. Len(Providers), i < at + 1
          PROVE  Providers[i].phase <= next + 1
      <4>1. Providers[i].phase < next + 1 /\ Providers[i].phase \in 3 .. 12 /\ next \in 1 .. 11
        BY <1>1, <1>6, <2>2, <3>1
      <4> QED BY ONLY <4>1
    <3> QED BY <1>1, <1>3, <1>5, <1>9, <2>1, <2>2, <2>4, <3>1 DEF InTurn
  <2>6. InFull'
    BY <1>1, <2>1 DEF InFull
  <2> QED BY <2>5, <2>6
<1>10. CASE Bad'
  BY <1>1, <1>4, <1>10 DEF Evidence, InTurn, InFull, Conclusive
<1>11. CASE ~Bad'
  BY <1>1, <1>4, <1>8, <1>9, <1>11 DEF Evidence, Conclusive
<1> QED BY <1>10, <1>11

\* A verdict about the bug was folded from no failure and no other bug.
LEMMA FoldFacts ==
  ASSUME NEW verdicts
  PROVE  Fold(verdicts) \in {"Reproduced", "NotReproduced"} =>
           /\ "InfrastructureFailed" \notin verdicts /\ "DifferentFailure" \notin verdicts
BY DEF Fold

\* and by the end of the run.
LEMMA EvidenceFinishes ==
  ASSUME TypeOK, Place, plan \in PlanShape, Evidence, FinishRun
  PROVE  Evidence'
<1>1. /\ Providers' = Providers /\ pc = "finish" /\ pc' = "done"
      /\ UNCHANGED <<different, ran, verified>>
      /\ seen' = IF failures = 0 THEN seen ELSE seen \cup {"InfrastructureFailed"}
      /\ infra' = (infra \/ failures > 0) /\ failures \in Nat
      /\ infra \in BOOLEAN
      /\ verdict' \in {IF Diagnostic THEN "Incomplete" ELSE Fold(seen')}
                       \cup (IF attached THEN {"Error"} ELSE {})
  <2>1. plan' = plan
    BY DEF FinishRun
  <2>2. failures \in Nat /\ infra \in BOOLEAN
    BY TypesMean
  <2>3. Providers' = Providers
    BY <2>1, PlanStays
  <2> QED BY <2>2, <2>3 DEF FinishRun
<1>2. next >= 12
  BY <1>1, PlaceMeans DEF Releasing
<1>3. Bad => Bad'
  BY <1>1 DEF Bad
<1>4. /\ infra' <=> "InfrastructureFailed" \in seen'
      /\ different' <=> "DifferentFailure" \in seen'
  <2>1. /\ infra <=> "InfrastructureFailed" \in seen
        /\ different <=> "DifferentFailure" \in seen
    BY DEF Evidence
  <2>2. CASE failures = 0
    BY <1>1, <2>1, <2>2
  <2>3. CASE failures > 0
    <3>1. failures # 0
      BY <1>1, <2>3
    <3>2. infra' = TRUE /\ seen' = seen \cup {"InfrastructureFailed"}
      BY <1>1, <2>3, <3>1
    <3> QED BY <1>1, <2>1, <3>2
  <2> QED BY <1>1, <2>2, <2>3
<1>5. InTurn'
  BY <1>1 DEF InTurn, InPhase, WithProvider
<1>6. InFull'
  <2>1. ~Bad => \E n \in 0 .. Len(Providers) :
                  /\ RanThrough(n)
                  /\ \A i \in 1 .. Len(Providers) : i <= n <=> Providers[i].phase < 12
    BY <1>1, <1>2 DEF Evidence, InFull
  <2> QED BY <1>1, <1>3, <2>1 DEF InFull, RanThrough
<1>7. Conclusive' => ~Bad'
  BY <1>1, FoldFacts DEF Conclusive, Bad
<1> QED BY <1>4, <1>5, <1>6, <1>7 DEF Evidence

\* The evidence through every step.
LEMMA StepEvidence ==
  ASSUME TypeOK, Place, Commands, ResultsBelong, plan \in PlanShape, Record, Evidence, Next
  PROVE  Evidence'
BY StepKinds, StepPlace, EvidenceQuiet, EvidenceOpens, EvidenceCloses, EvidenceGives,
   EvidenceConcludes, EvidenceFinishes

-----------------------------------------------------------------------------
(* A check: execution after execution. *)

\* The invariant of an execution.
Sound ==
  /\ TypeOK /\ Place /\ Commands /\ ResultsBelong
  /\ Record /\ World /\ CleanupInTurn /\ Evidence

\* A run that began beside leftovers comes after one without a verdict.
TaintIsSeen ==
  tainted => \E i \in DOMAIN results : results[i] \notin {"Reproduced", "NotReproduced"}

IInv ==
  /\ Sound /\ CheckTypeOK /\ TaintIsSeen
  /\ outcome = "none" => Len(results) < Runs
  /\ ClaimsStartClean

\* Every plan has the shape the catalog compiles.
LEMMA ShapeFacts == TypeOK => plan \in PlanShape
BY ExecutionAssumption DEF TypeOK

\* Every step of one execution is sound.
LEMMA StepSound ==
  ASSUME Sound, Next
  PROVE  Sound'
<1>1. plan \in PlanShape
  BY ShapeFacts DEF Sound
<1> QED
  BY <1>1, StepTypes, StepPlace, StepCommands, StepResults, StepRecord, StepDeclared, StepClean,
     StepCleanups, StepEvidence DEF Sound, World

\* An execution begins with nothing of its own.
Fresh ==
  /\ pc = "validate" /\ next = 1
  /\ status = [i \in Phases |-> IF i = 1 THEN "Running" ELSE "Pending"]
  /\ failed = FALSE /\ at = 1 /\ phaseFailed = FALSE
  /\ seen = {} /\ infra = FALSE /\ different = FALSE
  /\ ran = <<>> /\ verified = {} /\ attached = FALSE
  /\ cmd = NoCommand /\ task = NoCommand /\ containers = {}
  /\ cleaned = <<>> /\ failures = 0 /\ receipt = "none" /\ verdict = "none"

\* A fresh execution is sound, whatever an earlier one left.
LEMMA FreshSound ==
  plan \in Plans /\ left \subseteq Declared /\ Fresh => Sound
<1> SUFFICES ASSUME plan \in Plans, left \subseteq Declared, Fresh
             PROVE  Sound
  OBVIOUS
<1>1. plan \in PlanShape
  BY ExecutionAssumption
<1>2. Len(Providers) \in Nat /\ DOMAIN Providers = 1 .. Len(Providers)
  BY <1>1, ProviderFacts
<1>3. status = [i \in 1 .. 12 |-> IF i = 1 THEN "Running" ELSE "Pending"]
  BY PhaseFacts DEF Fresh
<1>4. TypeOK
  <2>1. RecordTypes
    <3>1. status \in [1 .. 12 -> Status]
      BY <1>3 DEF Status
    <3>2. failed \in BOOLEAN
      BY DEF Fresh
    <3>3. next \in 1 .. 13
      BY DEF Fresh
    <3> QED BY <3>1, <3>2, <3>3 DEF RecordTypes
  <2>2. ran \in Seq(Runs1) /\ cleaned \in Seq(DOMAIN Providers)
    BY DEF Fresh
  <2>3. left \subseteq DOMAIN Providers
    BY DEF Declared
  <2>4. /\ phaseFailed \in BOOLEAN /\ attached \in BOOLEAN
        /\ seen \subseteq ProviderVerdict /\ infra \in BOOLEAN /\ different \in BOOLEAN
        /\ verified \subseteq DOMAIN Providers
    BY Zenon DEF Fresh
  <2>6. pc \in Places /\ at \in 0 .. Len(Providers) + 1
    BY <1>2 DEF Fresh, Places
  <2>5. /\ {cmd, task} \subseteq [state : CommandState, result : ResultType, held : BOOLEAN]
        /\ containers \subseteq Service /\ failures \in Nat
        /\ receipt \in {"none", "Verified", "Failed"} /\ verdict \in Verdict \cup {"none"}
    BY CommandFacts DEF Fresh
  <2> QED BY <2>1, <2>2, <2>3, <2>4, <2>5, <2>6, TypesMean
<1>5. Place
  BY <1>2 DEF Fresh, Place, InPhase, WithProvider, Releasing
<1>6. Commands /\ ResultsBelong
  BY DEF Fresh, Commands, ResultsBelong
<1>7. Record
  <2>1. RecordRows
    BY <1>3 DEF Fresh, RecordRows
  <2>2. FlagsAgree
    BY <1>3 DEF Fresh, FlagsAgree
  <2>3. FailureEnds
    BY <1>3 DEF Fresh, FailureEnds
  <2> QED BY <2>1, <2>2, <2>3 DEF Record
<1>8. World
  BY <1>3 DEF Fresh, World, LeavingsAreDeclared, CleanBehind
<1>9. CleanupInTurn
  BY DEF Fresh, CleanupInTurn, InPhase, WithProvider, Releasing
<1>10. Evidence
  <2>1. \A i \in 1 .. Len(Providers) : Providers[i].phase \in 3 .. 12
    BY <1>1, SortedFacts
  <2>2. RanThrough(at - 1)
    BY DEF Fresh, RanThrough
  <2>3. InTurn
    BY <1>2, <2>1, <2>2 DEF Fresh, InTurn, InPhase, WithProvider
  <2> QED BY <2>3 DEF Fresh, Evidence, InFull, Conclusive
<1> QED BY <1>4, <1>5, <1>6, <1>7, <1>8, <1>9, <1>10 DEF Sound

\* The next execution starts as the first did.
LEMMA FreshAgain ==
  (plan \in Plans /\ left \subseteq Declared /\ Fresh)' => Sound'
BY FreshSound, PTL

\* So is beginning the next one.
LEMMA AgainSound ==
  ASSUME Sound, Again
  PROVE  Sound'
<1>1. plan \in PlanShape /\ plan \in Plans /\ left \subseteq Declared
  BY ShapeFacts DEF Sound, World, LeavingsAreDeclared, TypeOK
<1>2. Fresh' /\ plan' = plan /\ left' = left
  BY DEF Again, Fresh
<1>3. Declared' = Declared
  BY <1>2, DeclaredStays
<1> QED BY <1>1, <1>2, <1>3, FreshAgain

\* One verdict more.
LEMMA ResultsGrow ==
  ASSUME IInv, verdict \in Verdict \ {"Error"}, results' = Append(results, verdict)
  PROVE  /\ results' \in Seq(Verdict \ {"Error"}) /\ Len(results') = Len(results) + 1
         /\ Len(results) \in Nat /\ DOMAIN results = 1 .. Len(results)
         /\ DOMAIN results' = 1 .. Len(results')
         /\ \A i \in DOMAIN results : results'[i] = results[i]
         /\ results'[Len(results')] = verdict
BY DEF IInv, CheckTypeOK

\* What the check may use of a run that is over.
LEMMA VerdictThen ==
  ASSUME IInv, RunIsOver, verdict # "Error"
  PROVE  /\ verdict \in Verdict \ {"Error"} /\ Len(results) < Runs
         /\ left # {} => verdict \notin {"Reproduced", "NotReproduced"}
BY DEF IInv, Sound, Place, World, CleanBehind, Conclusive, RunIsOver

\* A count is the length only if everything is counted.
LEMMA CountFacts ==
  ASSUME NEW S, NEW vs \in Seq(S), NEW w
  PROVE  /\ Len(vs) \in Nat
         /\ Count(vs, w) = Len(vs) => \A i \in 1 .. Len(vs) : vs[i] = w
<1> DEFINE T == {i \in DOMAIN vs : vs[i] = w}
<1>1. Len(vs) \in Nat /\ DOMAIN vs = 1 .. Len(vs) /\ T \in SUBSET DOMAIN vs
  OBVIOUS
<1>2. IsFiniteSet(1 .. Len(vs)) /\ Cardinality(1 .. Len(vs)) = Len(vs)
  <2>1. \A n \in Nat : IsFiniteSet(1 .. n) /\ Cardinality(1 .. n) = n
    BY FS_Interval
  <2> QED BY <1>1, <2>1
<1>3. Count(vs, w) = Cardinality(T)
  BY DEF Count
<1> HIDE DEF T
<1>4. Cardinality(1 .. Len(vs)) = Cardinality(T) => 1 .. Len(vs) = T
  BY <1>1, <1>2, FS_Subset
<1> QED BY <1>1, <1>2, <1>3, <1>4 DEF T

\* What the aggregate says of the verdicts under it.
LEMMA AggregateFacts ==
  ASSUME NEW vs \in Seq(Verdict \ {"Error"})
  PROVE  /\ Aggregate(vs) \in Outcome
         /\ Aggregate(vs) = "Pass" => \A i \in 1 .. Len(vs) : vs[i] = "NotReproduced"
         /\ Aggregate(vs) = "Fail" => \A i \in 1 .. Len(vs) : vs[i] = "Reproduced"
<1>1. /\ Aggregate(vs) \in Outcome
      /\ Aggregate(vs) = "Pass" => Count(vs, "NotReproduced") = Len(vs)
      /\ Aggregate(vs) = "Fail" => Count(vs, "Reproduced") = Len(vs)
  BY DEF Aggregate, Outcome
<1> QED BY <1>1, CountFacts

\* Nothing changes in a step that changes nothing.
LEMMA StutterSound ==
  ASSUME Sound, UNCHANGED vars
  PROVE  Sound'
<1>1. /\ (Providers' = Providers) /\ (HasCell' = HasCell) /\ (Diagnostic' = Diagnostic)
      /\ (Declared' = Declared) /\ \A i : Owned(i)' = Owned(i)
  BY PlanStays, DeclaredStays DEF vars
<1> USE <1>1 DEF Sound, vars, recordVars, tallyVars, worldVars, cleanupVars
<1>2. TypeOK'
  BY DEF TypeOK
<1>3. Place'
  BY DEF Place
<1>4. Commands' /\ ResultsBelong'
  BY DEF Commands, ResultsBelong
<1>5. Record'
  BY DEF Record, RecordRows, FlagsAgree, FailureEnds, PhaseOf
<1>6. World'
  BY DEF World, LeavingsAreDeclared, CleanBehind, Conclusive
<1>7. CleanupInTurn'
  BY DEF CleanupInTurn, TriedBackwards, Above
<1>8. Evidence'
  BY DEF Evidence, InTurn, InFull, RanThrough, Bad, Conclusive
<1> QED BY <1>2, <1>3, <1>4, <1>5, <1>6, <1>7, <1>8

\* A check begins in the invariant.
LEMMA CheckStarts == CheckInit => IInv
<1> SUFFICES ASSUME CheckInit PROVE IInv
  OBVIOUS
<1>1. plan \in Plans /\ left \subseteq Declared /\ Fresh
  BY DEF CheckInit, Init, Fresh
<1>2. CheckTypeOK /\ Len(results) < Runs
  <2>1. results = <<>> /\ Len(results) = 0 /\ results \in Seq(Verdict \ {"Error"})
    BY DEF CheckInit
  <2>2. 0 < Runs /\ 0 <= Runs
    BY PlanCheckAssumption
  <2> QED BY <2>1, <2>2 DEF CheckInit, CheckTypeOK
<1> QED BY <1>1, <1>2, FreshSound DEF IInv, CheckInit, TaintIsSeen, ClaimsStartClean

\* Every step of a check keeps it.
LEMMA CheckStep == IInv /\ [CheckNext]_allVars => IInv'
<1> SUFFICES ASSUME IInv, [CheckNext]_allVars PROVE IInv'
  OBVIOUS
<1>1. CASE Execute
  BY <1>1, StepSound DEF Execute, IInv, CheckTypeOK, TaintIsSeen, ClaimsStartClean, checkVars
<1>2. ASSUME UNCHANGED vars PROVE Sound'
  BY <1>2, StutterSound DEF IInv
<1>3. CASE Abort
  BY <1>2, <1>3 DEF Abort, IInv, CheckTypeOK, TaintIsSeen, ClaimsStartClean
<1>4. CASE Again
  <2>1. /\ verdict \in Verdict \ {"Error"} /\ results' = Append(results, verdict)
        /\ left # {} => verdict \notin {"Reproduced", "NotReproduced"}
    BY <1>4, VerdictThen DEF Again
  <2>2. /\ results' \in Seq(Verdict \ {"Error"}) /\ Len(results') = Len(results) + 1
        /\ Len(results) \in Nat /\ DOMAIN results = 1 .. Len(results)
        /\ DOMAIN results' = 1 .. Len(results')
        /\ \A i \in DOMAIN results : results'[i] = results[i]
        /\ results'[Len(results')] = verdict
    BY <2>1, ResultsGrow
  <2>3. Sound'
    BY <1>4, AgainSound DEF IInv
  <2>4. CheckTypeOK' /\ Len(results') < Runs
    BY <1>4, <2>1, <2>2, PlanCheckAssumption DEF Again, IInv, CheckTypeOK
  <2>5. TaintIsSeen'
    <3>1. SUFFICES ASSUME tainted'
                   PROVE  \E i \in DOMAIN results' :
                            results'[i] \notin {"Reproduced", "NotReproduced"}
      BY DEF TaintIsSeen
    <3>2. CASE tainted
      <4>1. PICK i \in DOMAIN results : results[i] \notin {"Reproduced", "NotReproduced"}
        BY <3>2 DEF IInv, TaintIsSeen
      <4>2. i \in DOMAIN results' /\ results'[i] = results[i]
        BY <2>2, <4>1
      <4> QED BY <4>1, <4>2
    <3>3. CASE left # {}
      <4>1. Len(results') \in DOMAIN results'
        BY <2>2
      <4> QED BY <2>1, <2>2, <3>3, <4>1
    <3> QED BY <1>4, <3>1, <3>2, <3>3 DEF Again
  <2>6. outcome' = "none"
    BY <1>4 DEF Again, RunIsOver
  <2> QED BY <2>3, <2>4, <2>5, <2>6 DEF IInv, ClaimsStartClean
<1>5. CASE Settle
  <2>1. verdict \in Verdict \ {"Error"} /\ results' = Append(results, verdict)
        /\ outcome' = Aggregate(results') /\ tainted' = tainted
    BY <1>5, VerdictThen DEF Settle
  <2>2. /\ results' \in Seq(Verdict \ {"Error"}) /\ Len(results') = Len(results) + 1
        /\ Len(results) \in Nat /\ DOMAIN results = 1 .. Len(results)
        /\ DOMAIN results' = 1 .. Len(results')
        /\ \A i \in DOMAIN results : results'[i] = results[i]
    BY <2>1, ResultsGrow
  <2>3. Sound'
    BY <1>2, <1>5 DEF Settle
  <2>4. outcome' \in Outcome
    BY <2>1, <2>2, AggregateFacts
  <2>5. CheckTypeOK'
    BY <1>5, <2>2, <2>4 DEF Settle, IInv, CheckTypeOK
  <2>6. TaintIsSeen' /\ ClaimsStartClean'
    <3>1. CASE ~tainted
      BY <2>1, <3>1 DEF TaintIsSeen, ClaimsStartClean
    <3>2. CASE tainted
      <4>1. PICK i \in DOMAIN results : results[i] \notin {"Reproduced", "NotReproduced"}
        BY <3>2 DEF IInv, TaintIsSeen
      <4>2. i \in DOMAIN results' /\ results'[i] = results[i] /\ i \in 1 .. Len(results')
        BY <2>2, <4>1
      <4>3. outcome' \notin {"Pass", "Fail"}
        BY <2>1, <2>2, <4>1, <4>2, AggregateFacts
      <4> QED BY <4>1, <4>2, <4>3 DEF TaintIsSeen, ClaimsStartClean
    <3> QED BY <3>1, <3>2 DEF IInv, CheckTypeOK
  <2>7. outcome' # "none"
    BY <2>4 DEF Outcome
  <2> QED BY <2>3, <2>5, <2>6, <2>7 DEF IInv
<1>6. CASE UNCHANGED allVars
  <2>1. UNCHANGED vars /\ UNCHANGED checkVars
    BY <1>6 DEF allVars
  <2> QED
    BY <1>2, <2>1 DEF IInv, CheckTypeOK, TaintIsSeen, ClaimsStartClean, checkVars
<1> QED BY <1>1, <1>3, <1>4, <1>5, <1>6 DEF CheckNext

-----------------------------------------------------------------------------
(* The theorems. *)

\* The invariant holds of every check, whatever the plan and the number of runs.
THEOREM CheckSound == CheckSpec => []IInv
BY CheckStarts, CheckStep, PTL DEF CheckSpec

\* Type correctness of the execution and of the check around it.
THEOREM CheckTypes == CheckSpec => [](TypeOK /\ CheckTypeOK)
<1>1. IInv => TypeOK /\ CheckTypeOK
  BY DEF IInv, Sound
<1> QED BY <1>1, CheckSound, PTL

\* A verdict about the bug leaves neither a provider's doing nor a service behind.
THEOREM VerdictsLeaveNothing == CheckSpec => []EvidenceLeavesNothing
<1>1. IInv => EvidenceLeavesNothing
  BY DEF IInv, Sound, World, CleanBehind, Place, EvidenceLeavesNothing, Conclusive
<1> QED BY <1>1, CheckSound, PTL

\* Once the cleanup phase is over, each declared cleanup was tried, once, backwards.
THEOREM CleanupsAreWhole == CheckSpec => []CleanupIsWhole
<1>1. ASSUME IInv PROVE CleanupIsWhole
  <2>1. SUFFICES ASSUME pc = "done", status[12] # "Pending"
                 PROVE  TriedBackwards(0)
    <3>1. ASSUME TriedBackwards(0)
          PROVE  LET declared == {i \in DOMAIN Providers : Providers[i].cleanup}
                 IN  /\ Len(cleaned) = Cardinality(declared)
                     /\ {cleaned[i] : i \in DOMAIN cleaned} = declared
                     /\ \A i, j \in DOMAIN cleaned : i < j => cleaned[i] > cleaned[j]
      <4>1. plan \in PlanShape
        BY <1>1, ShapeFacts DEF IInv, Sound
      <4>2. \A i \in Declared : i > 0
        BY <4>1, ProviderFacts DEF Declared
      <4>3. Above(0) = Declared
        BY <4>2 DEF Above
      <4> QED BY <3>1, <4>3 DEF TriedBackwards, Declared
    <3> QED BY <3>1, PhaseFacts DEF CleanupIsWhole
  <2>2. next = 13 \/ next = 1
    BY <1>1, <2>1 DEF IInv, Sound, Place
  <2>3. next # 1
    BY <1>1, <2>1 DEF IInv, Sound, Record, RecordRows
  <2> QED BY <1>1, <2>1, <2>2, <2>3 DEF IInv, Sound, CleanupInTurn
<1> QED BY <1>1, CheckSound, PTL

\* When a run is over its record has no open phase, and says what the flags say.
THEOREM RecordsAgree == CheckSpec => []RecordAgrees
<1>1. ASSUME IInv PROVE RecordAgrees
  <2>1. SUFFICES ASSUME pc = "done", status[1] = "Passed"
                 PROVE  /\ failed = (infra \/ different)
                        /\ failed <=> \E i \in 1 .. 12 : status[i] = "Failed"
                        /\ \A i \in 1 .. 12 : status[i] \notin {"Pending", "Running"}
                        /\ \A i, j \in 1 .. 12 :
                             status[i] = "Failed" /\ i < j /\ j < 12 =>
                               /\ status[j] = "Skipped"
                               /\ \A k \in DOMAIN ran : Providers[ran[k].provider].phase # j
    BY PhaseFacts DEF RecordAgrees
  <2>2. next = 13
    BY <1>1, <2>1 DEF IInv, Sound, Place, Record, RecordRows
  <2>3. \A i \in 1 .. 12 : status[i] \in {"Passed", "Failed", "Skipped"}
    BY <1>1, <2>2 DEF IInv, Sound, Record, RecordRows
  <2>4. /\ failed <=> \E i \in 1 .. 12 : status[i] = "Failed"
        /\ (infra \/ different) = (failed \/ phaseFailed) /\ ~phaseFailed
        /\ failed \in BOOLEAN
    BY <1>1, <2>1, TypesMean DEF IInv, Sound, Record, FlagsAgree, WithProvider, RecordTypes
  <2>5. ASSUME NEW i \in 1 .. 12, NEW j \in 1 .. 12, status[i] = "Failed", i < j, j < 12
        PROVE  /\ status[j] = "Skipped"
               /\ \A k \in DOMAIN ran : Providers[ran[k].provider].phase # j
    <3>1. i \in 1 .. 11 /\ j \in 1 .. 11
      BY <2>5
    <3>2. status[j] = "Skipped" /\ \A k \in DOMAIN ran : PhaseOf(k) \in 1 .. i
      BY <1>1, <2>5, <3>1 DEF IInv, Sound, Record, FailureEnds
    <3> QED BY <2>5, <3>2 DEF PhaseOf
  <2> QED BY <2>3, <2>4, <2>5
<1> QED BY <1>1, CheckSound, PTL

\* A verdict about the bug rests on a run of every provider, in turn and without a
\* failure, with every state fingerprint verified.
THEOREM VerdictsRestOnWholeRuns == CheckSpec => []EvidenceIsWhole
<1>1. ASSUME IInv PROVE EvidenceIsWhole
  <2>1. SUFFICES ASSUME Conclusive
                 PROVE  /\ RanOnceInTurn(Visited)
                        /\ {i \in DOMAIN Providers : Providers[i].fingerprint} \subseteq verified
    BY DEF EvidenceIsWhole
  <2>2. pc = "done" /\ next = 13 /\ ~Bad
    BY <1>1, <2>1 DEF IInv, Sound, Evidence, Place, Conclusive
  <2>3. PICK n \in 0 .. Len(Providers) :
          /\ RanThrough(n)
          /\ \A i \in 1 .. Len(Providers) : i <= n <=> Providers[i].phase < 12
    BY <1>1, <2>2 DEF IInv, Sound, Evidence, InFull
  <2>4. /\ plan \in PlanShape /\ Len(Providers) \in Nat
        /\ DOMAIN Providers = 1 .. Len(Providers) /\ n \in Nat
        /\ \A i \in 1 .. Len(Providers) : Providers[i] \in ProviderType
    BY <1>1, ShapeFacts, ProviderFacts DEF IInv, Sound
  <2>5. ran \in Seq(Runs1)
    BY <1>1, TypesMean DEF IInv, Sound
  <2>6. DOMAIN ran = 1 .. n
    BY <2>3, <2>5 DEF RanThrough
  <2>7. \A i \in 1 .. Len(Providers) : Order[Providers[i].phase] # "Cleanup" <=> i <= n
    <3>1. \A i \in 1 .. 12 : Order[i] = "Cleanup" <=> i = 12
      BY DEF Order
    <3>2. \A i \in 1 .. Len(Providers) : Providers[i].phase \in 3 .. 12
      BY <2>4, SortedFacts
    <3>3. \A p \in 3 .. 12 : Order[p] # "Cleanup" <=> p < 12
      BY <3>1
    <3> QED BY <2>3, <3>2, <3>3
  <2>8. {j \in DOMAIN Providers : Order[Providers[j].phase] # "Cleanup"} = 1 .. n
    BY <2>3, <2>4, <2>7
  <2>9. Cardinality(1 .. n) = n
    BY <2>4, FS_Interval
  <2>10. Visited = [i \in 1 .. n |-> i]
    BY <2>8, <2>9 DEF Visited
  <2>11. RanOnceInTurn(Visited)
    <3>1. \A i \in 1 .. n : ran[i].provider = i /\ ran[i].verdict \in Good
      BY <2>3 DEF RanThrough
    <3>2. [i \in DOMAIN ran |-> ran[i].provider] = [i \in 1 .. n |-> i]
      BY <2>6, <3>1
    <3> QED BY <2>6, <2>10, <3>1, <3>2 DEF RanOnceInTurn, Good
  <2>12. ASSUME NEW i \in DOMAIN Providers, Providers[i].fingerprint PROVE i \in verified
    <3>1. Order[Providers[i].phase] \in {"Reset", "Seed"}
      BY <2>4, <2>12 DEF ProviderType
    <3>2. i \in 1 .. n
      BY <2>4, <2>7, <3>1
    <3> QED BY <2>3, <2>12, <3>2 DEF RanThrough
  <2> QED BY <2>11, <2>12
<1> QED BY <1>1, CheckSound, PTL

\* "Pass" and "Fail" rest on runs none of which began beside what an earlier one left.
THEOREM ClaimsAreClean == CheckSpec => []ClaimsStartClean
<1>1. IInv => ClaimsStartClean
  BY DEF IInv
<1> QED BY <1>1, CheckSound, PTL

\* A repro becomes required only by a check all of whose runs were clean.
THEOREM PromotionsAreEarned == CheckSpec => PromotionIsEarned
<1> DEFINE Earned ==
      level' # level =>
        /\ outcome' = "Pass"
        /\ \A i \in 1 .. Runs : results'[i] = "NotReproduced"
<1>1. ASSUME IInv, CheckNext PROVE Earned
  <2>1. SUFFICES ASSUME level' # level
                 PROVE  outcome' = "Pass" /\ \A i \in 1 .. Runs : results'[i] = "NotReproduced"
    OBVIOUS
  <2>2. Settle
    BY <1>1, <2>1 DEF CheckNext, Execute, Abort, Again, checkVars
  <2>3. /\ outcome' = Aggregate(results') /\ outcome' = "Pass"
        /\ Len(results) + 1 = Runs /\ results' = Append(results, verdict)
    BY <2>1, <2>2 DEF Settle
  <2>4. verdict \in Verdict \ {"Error"}
    BY <1>1, <2>2, VerdictThen DEF Settle
  <2>5. results' \in Seq(Verdict \ {"Error"}) /\ Len(results') = Runs
    BY <1>1, <2>3, <2>4, ResultsGrow
  <2>6. \A i \in 1 .. Len(results') : results'[i] = "NotReproduced"
    BY <2>3, <2>5, AggregateFacts
  <2> QED BY <2>3, <2>5, <2>6
<1>2. IInv /\ [CheckNext]_allVars => [Earned]_allVars
  BY <1>1
<1>3. CheckSpec => [][Earned]_allVars
  BY <1>2, CheckSound, PTL DEF CheckSpec
<1> QED BY <1>3 DEF PromotionIsEarned

-----------------------------------------------------------------------------
(* The bracket. *)

Over == Releasing \cup {"done"}

\* What Bracket sees of a run that is sound.
LEMMA StageFacts ==
  ASSUME Sound
  PROVE  /\ pc \notin {"done"} => status[12] \in {"Pending", "Running"}
         /\ pc = "done" => status[12] \in {"Pending", "Passed", "Failed", "Skipped"}
         /\ pc = "done" /\ status[12] = "Passed" => left = {} /\ containers = {}
         /\ left \subseteq Nat /\ containers \subseteq Service
         /\ Phase("Cleanup") = 12
<1>1. plan \in PlanShape
  BY ShapeFacts DEF Sound
<1>2. pc # "done" => status[12] \in {"Pending", "Running"}
  <2>1. pc # "done" => next \in 1 .. 12
    <3>1. TypeOK /\ Place
      BY DEF Sound
    <3>2. pc \in Places
      BY <3>1, TypesMean
    <3> QED BY <3>1, <3>2, PlaceMeans DEF Places, InPhase, WithProvider, Releasing
  <2> QED BY <2>1 DEF Sound, Record, RecordRows
<1>3. pc = "done" => status[12] \in {"Pending", "Passed", "Failed", "Skipped"}
  BY DEF Sound, Record, RecordRows, Place
<1>4. pc = "done" /\ status[12] = "Passed" => left = {} /\ containers = {}
  BY DEF Sound, World, CleanBehind
<1>5. left \subseteq Nat
  BY <1>1, ProviderFacts DEF Sound, World, LeavingsAreDeclared, Declared
<1> QED BY <1>2, <1>3, <1>4, <1>5, TypesMean, PhaseFacts DEF Sound

HoldsRight ==
  /\ pc = "done" /\ status[12] = "Passed" => left = {} /\ containers = {}
  /\ left \subseteq Nat /\ containers \subseteq Service

\* What is taken is what is left and the containers, now and next.
LEMMA HoldingFacts == Sound => HoldsRight
BY StageFacts DEF HoldsRight

\* What the bracket says is held is right after a sound step.
LEMMA HoldingThen == Sound' => HoldsRight'
BY HoldingFacts, PTL

\* How the places of a run follow each other, and what they may do to its holdings.
LEMMA HoldingSteps ==
  ASSUME Sound, Next
  PROVE  \/ pc \notin Over /\ pc' \notin Over
         \/ /\ pc = "validate" /\ pc' = "done"
            /\ UNCHANGED <<left, containers, status>>
         \/ /\ pc = "phase" /\ pc' = "cleanup" /\ UNCHANGED <<left, containers>>
         \/ /\ pc \in Releasing /\ pc' \in Releasing
            /\ left' \subseteq left /\ containers' \subseteq containers
         \/ /\ pc = "finish" /\ pc' = "done" /\ UNCHANGED <<left, containers>>
            /\ status'[12] \in {"Passed", "Failed"}
<1>0. TypeOK /\ Place /\ Commands /\ pc \in Places
  BY TypesMean DEF Sound
<1>1. ASSUME Refuse PROVE pc = "validate" /\ pc' = "done" /\ UNCHANGED <<left, containers, status>>
  BY <1>1 DEF Refuse, worldVars, recordVars
<1>2. ASSUME StartCleanup
      PROVE  pc = "phase" /\ pc' = "cleanup" /\ UNCHANGED <<left, containers>>
  BY <1>2 DEF StartCleanup
<1>3. ASSUME CleanProvider \/ CleanupError \/ CleanupsTried
      PROVE  pc \in Releasing /\ pc' \in Releasing /\ UNCHANGED <<left, containers>>
  BY <1>3 DEF CleanProvider, CleanupError, CleanupsTried, Releasing, worldVars
<1>4. ASSUME CleanupDone
      PROVE  /\ pc \in Releasing /\ pc' \in Releasing
             /\ left' \subseteq left /\ containers' = containers
  BY <1>4 DEF CleanupDone, Releasing
<1>5. ASSUME TearDown
      PROVE  /\ pc \in Releasing /\ pc' \in Releasing
             /\ left' = left /\ containers' \subseteq containers
  BY <1>5 DEF TearDown, Releasing
<1>6. ASSUME FinishRun
      PROVE  /\ pc = "finish" /\ pc' = "done" /\ UNCHANGED <<left, containers>>
             /\ status'[12] \in {"Passed", "Failed"}
  <2>1. next = 12 /\ status \in [1 .. 12 -> Status]
    BY <1>0, <1>6, PlaceMeans DEF FinishRun, Releasing
  <2> QED BY <1>6, <2>1 DEF FinishRun, Finish, worldVars
<1>7. ASSUME Children \/ PipesClose
      PROVE  \/ pc \notin Over /\ pc' \notin Over
             \/ pc \in Releasing /\ pc' \in Releasing /\ UNCHANGED <<left, containers>>
  <2>1. ASSUME CommandEnds \/ PipesClose \/ DebugCommandEnds \/ DebugCommandCollected
        PROVE  /\ cmd # NoCommand \/ task # NoCommand
               /\ pc' = pc /\ containers' = containers
               /\ pc = "cleaning" => left' = left \/ task # NoCommand
    BY <2>1, CommandFacts
    DEF CommandEnds, PipesClose, DebugCommandEnds, DebugCommandCollected, Collected
  <2>2. pc \in InPhase \cup {"phase", "cleaning"} /\ (task # NoCommand => pc # "cleaning")
    BY <1>0, <1>7, <2>1 DEF Children, Commands, InPhase, WithProvider
  <2> QED BY <1>7, <2>1, <2>2 DEF Children, Over, Releasing, InPhase, WithProvider
<1>8. ASSUME Next, ~Refuse, ~StartCleanup, ~CleanProvider, ~CleanupError, ~CleanupsTried,
             ~CleanupDone, ~TearDown, ~FinishRun, ~Children, ~PipesClose
      PROVE  pc \notin Over /\ pc' \notin Over
  BY <1>8
  DEF Next, Runner, Person, Validate, StartPhase, SkipPhase, ComposeUp, ComposeUpFails,
      StartDebugger, EndpointReady, EndpointFails, RunProvider, ProviderError, ProviderDone,
      DebugDone, ProbeDone, ReleaseTrigger, StopSession, EnterProviders, Abandon, Assess,
      Conclude, Over, Releasing
<1> QED BY <1>1, <1>2, <1>3, <1>4, <1>5, <1>6, <1>7, <1>8

\* What a smaller holding is, in the terms of the bracket.
LEMMA TakenFacts ==
  /\ left \subseteq Nat /\ containers \subseteq Service =>
       Taken \subseteq ({"provider"} \X Nat) \cup ({"service"} \X Service)
  /\ left' \subseteq Nat /\ containers' \subseteq Service =>
       Taken' \subseteq ({"provider"} \X Nat) \cup ({"service"} \X Service)
  /\ left' \subseteq left /\ containers' \subseteq containers => Taken' \subseteq Taken
  /\ UNCHANGED <<left, containers>> => Taken' = Taken
  /\ left = {} /\ containers = {} => Taken = {}
BY DEF Taken

Stage ==
  CASE pc = "done" -> "ended"
    [] pc \in {"cleanup", "cleaning", "down", "finish"} -> "releasing"
    [] OTHER -> "working"

Report ==
  IF pc # "done" THEN "none"
  ELSE CASE status[Phase("Cleanup")] = "Passed" -> "clean"
         [] status[Phase("Cleanup")] = "Failed" -> "dirty"
         [] OTHER -> "none"

Resources == ({"provider"} \X Nat) \cup ({"service"} \X Service)

\* The abstract specification, with its variables written out.
LEMMA OwedMeans ==
  /\ Owed!Init <=> Taken = {} /\ Stage = "working" /\ Report = "none"
  /\ Owed!Next <=>
       \/ Stage = "working" /\ Taken' \in SUBSET Resources /\ Stage' = Stage /\ Report' = Report
       \/ Stage = "working" /\ Stage' = "ended" /\ Taken' = Taken /\ Report' = Report
       \/ Stage = "working" /\ Stage' = "releasing" /\ Taken' = Taken /\ Report' = Report
       \/ Stage = "releasing" /\ Taken' \in SUBSET Taken /\ Stage' = Stage /\ Report' = Report
       \/ /\ Stage = "releasing" /\ Stage' = "ended" /\ Taken' = Taken
          /\ Report' \in IF Taken = {} THEN {"clean", "dirty"} ELSE {"dirty"}
       \/ /\ Stage = "ended" /\ Taken' \in SUBSET Taken /\ Stage' = "working"
          /\ Report' = "none"
  /\ UNCHANGED Owed!vars <=> UNCHANGED <<Taken, Stage, Report>>
BY DEF Owed!Init, Owed!Next, Owed!Work, Owed!Refuse, Owed!Turn, Owed!Release, Owed!End,
       Owed!Again, Owed!vars, Stage, Report, Resources

\* The stage and the report, by the place of the run, now and next.
LEMMA StageMeans ==
  /\ pc = "done" => Stage = "ended"
  /\ pc \in Releasing => Stage = "releasing"
  /\ pc \notin Over => Stage = "working"
  /\ pc # "done" => Report = "none"
  /\ pc = "done" /\ status[12] = "Passed" => Report = "clean"
  /\ pc = "done" /\ status[12] = "Failed" => Report = "dirty"
  /\ pc = "done" /\ status[12] \notin {"Passed", "Failed"} => Report = "none"
<1>1. pc = "done" => Stage = "ended"
  BY DEF Stage
<1>2. pc \in Releasing => Stage = "releasing"
  BY DEF Stage, Releasing
<1>3. pc \notin Over => Stage = "working"
  BY DEF Stage, Over, Releasing
<1>4. pc # "done" => Report = "none"
  BY DEF Report
<1>5. ASSUME pc = "done"
      PROVE  /\ status[12] = "Passed" => Report = "clean"
             /\ status[12] = "Failed" => Report = "dirty"
             /\ status[12] \notin {"Passed", "Failed"} => Report = "none"
  BY <1>5, PhaseFacts DEF Report
<1> QED BY <1>1, <1>2, <1>3, <1>4, <1>5

\* The stage and the report of the bracket, read off where a step ends.
LEMMA StageThen ==
  /\ pc' = "done" => Stage' = "ended"
  /\ pc' \in Releasing => Stage' = "releasing"
  /\ pc' \notin Over => Stage' = "working"
  /\ pc' # "done" => Report' = "none"
  /\ pc' = "done" /\ status'[12] = "Passed" => Report' = "clean"
  /\ pc' = "done" /\ status'[12] = "Failed" => Report' = "dirty"
  /\ pc' = "done" /\ status'[12] \notin {"Passed", "Failed"} => Report' = "none"
<1>1. pc' = "done" => Stage' = "ended"
  BY DEF Stage
<1>2. pc' \in Releasing => Stage' = "releasing"
  BY DEF Stage, Releasing
<1>3. pc' \notin Over => Stage' = "working"
  BY DEF Stage, Over, Releasing
<1>4. pc' # "done" => Report' = "none"
  BY DEF Report
<1>5. ASSUME pc' = "done"
      PROVE  /\ status'[12] = "Passed" => Report' = "clean"
             /\ status'[12] = "Failed" => Report' = "dirty"
             /\ status'[12] \notin {"Passed", "Failed"} => Report' = "none"
  BY <1>5, PhaseFacts DEF Report
<1> QED BY <1>1, <1>2, <1>3, <1>4, <1>5

\* A check begins as Bracket does.
LEMMA BracketStarts == CheckInit => Owed!Init
<1> SUFFICES ASSUME CheckInit PROVE Owed!Init
  OBVIOUS
<1>1. Taken = {} /\ pc = "validate"
  BY TakenFacts DEF CheckInit, Init
<1>2. Stage = "working" /\ Report = "none"
  BY <1>1, StageMeans DEF Over, Releasing
<1> QED BY <1>1, <1>2, OwedMeans

\* Every step of a check is one of Bracket or a stutter.
LEMMA BracketStep ==
  ASSUME IInv, IInv', [CheckNext]_allVars
  PROVE  [Owed!Next]_(Owed!vars)
<1>1. Sound /\ Sound'
  BY DEF IInv
<1>2. /\ left' \subseteq Nat /\ containers' \subseteq Service
      /\ pc' = "done" /\ status'[12] = "Passed" => left' = {} /\ containers' = {}
  BY <1>1, HoldingThen DEF HoldsRight
<1>3. ASSUME Next PROVE Owed!Next
  <2>1. CASE pc \notin Over /\ pc' \notin Over
    <3>1. Stage = "working" /\ Stage' = "working" /\ Report = "none" /\ Report' = "none"
      BY <2>1, StageMeans, StageThen DEF Over
    <3>2. Taken' \subseteq Resources
      BY <1>2, TakenFacts DEF Resources
    <3> QED BY <3>1, <3>2, OwedMeans
  <2>2. CASE pc = "validate" /\ pc' = "done" /\ UNCHANGED <<left, containers, status>>
    <3>1. status[12] \in {"Pending", "Running"}
      BY <1>1, <2>2, StageFacts
    <3>2. /\ Stage = "working" /\ Stage' = "ended" /\ Report = "none" /\ Report' = "none"
          /\ Taken' = Taken
      BY <2>2, <3>1, StageMeans, StageThen, TakenFacts DEF Over, Releasing
    <3> QED BY <3>2, OwedMeans
  <2>3. CASE pc = "phase" /\ pc' = "cleanup" /\ UNCHANGED <<left, containers>>
    <3>1. /\ Stage = "working" /\ Stage' = "releasing" /\ Report = "none" /\ Report' = "none"
          /\ Taken' = Taken
      BY <2>3, StageMeans, StageThen, TakenFacts DEF Over, Releasing
    <3> QED BY <3>1, OwedMeans
  <2>4. CASE /\ pc \in Releasing /\ pc' \in Releasing
             /\ left' \subseteq left /\ containers' \subseteq containers
    <3>1. /\ Stage = "releasing" /\ Stage' = "releasing" /\ Report = "none" /\ Report' = "none"
          /\ Taken' \subseteq Taken
      BY <2>4, StageMeans, StageThen, TakenFacts DEF Releasing
    <3> QED BY <3>1, OwedMeans
  <2>5. CASE /\ pc = "finish" /\ pc' = "done" /\ UNCHANGED <<left, containers>>
             /\ status'[12] \in {"Passed", "Failed"}
    <3>1. /\ Stage = "releasing" /\ Stage' = "ended" /\ Taken' = Taken
          /\ Report' = IF status'[12] = "Passed" THEN "clean" ELSE "dirty"
      BY <2>5, StageMeans, StageThen, TakenFacts DEF Releasing
    <3>2. status'[12] = "Passed" => Taken = {}
      BY <1>2, <2>5, TakenFacts
    <3> QED BY <3>1, <3>2, OwedMeans
  <2> QED BY <1>1, <1>3, <2>1, <2>2, <2>3, <2>4, <2>5, HoldingSteps
<1>4. ASSUME Again PROVE Owed!Next
  <2>1. pc = "done" /\ pc' = "validate" /\ left' = left /\ containers' = {}
    BY <1>4 DEF Again, RunIsOver
  <2>2. /\ Stage = "ended" /\ Stage' = "working" /\ Report' = "none" /\ Taken' \subseteq Taken
    BY <2>1, StageMeans, StageThen, TakenFacts DEF Over, Releasing
  <2> QED BY <2>2, OwedMeans
<1>5. ASSUME UNCHANGED vars PROVE UNCHANGED Owed!vars
  <2>1. UNCHANGED <<pc, status, left, containers>>
    BY <1>5 DEF vars, recordVars, worldVars
  <2>2. UNCHANGED <<Taken, Stage, Report>>
    BY <2>1 DEF Taken, Stage, Report
  <2> QED BY <2>2, OwedMeans
<1> QED BY <1>3, <1>4, <1>5 DEF CheckNext, Execute, Abort, Settle, allVars

\* Nothing is taken once a run gives back, and its cleanup phase passes only if it
\* holds nothing.
THEOREM CheckImplementsBracket == CheckSpec => ImplementsBracket
<1>1. CheckSpec => Owed!Spec
  BY BracketStarts, BracketStep, CheckSound, PTL DEF CheckSpec, Owed!Spec
<1> QED BY <1>1 DEF ImplementsBracket
=============================================================================
