----------------------------- MODULE JourneyRun -----------------------------
(***************************************************************************)
(* One run of a multi-actor scenario: run_journey of                       *)
(* adapters/orchestrator.rs, the drives and log readers of                 *)
(* adapters/drive.rs, and the judgement of run_scenario in                 *)
(* workflows/journey/execution.rs.                                         *)
(*                                                                         *)
(* A drive is a runner process, the pipe it prints on and the task that    *)
(* reads the pipe; the three run on their own, and the host sees only what *)
(* the reader has handled.  The conductor is here what Conductor shows it  *)
(* to be, a position in the script: a runner performs and acknowledges the *)
(* step at the position when it owns it and every actor has joined.        *)
(* Time is the choice of when a deadline passes.                           *)
(***************************************************************************)
EXTENDS Naturals, Sequences

CONSTANTS
  Actors,     \* how many actors the journey names
  MaxDevices, \* the number of device letters: more are not launched
  Owners,     \* Owners[i] is the actor of the i-th step
  Holders,    \* devices whose runner leaves a process that keeps its pipe open
  Noise       \* lines a step may print beside its result

Actor == 0 .. Actors - 1

Launched == IF Actors < MaxDevices THEN Actors ELSE MaxDevices

Device == 0 .. Launched - 1

Steps == Len(Owners)

Shot == "shot"

Garbled == "garbled"

ASSUME JourneyAssumption ==
  /\ Actors \in Nat \ {0}
  /\ MaxDevices \in Nat \ {0}
  /\ Owners \in Seq(Actor) /\ Owners # <<>>
  /\ Holders \subseteq Device
  /\ Noise \subseteq {Shot, Garbled}

VARIABLES
  config,   \* which markers the configuration names
  host,     \* where in run_journey, then run_scenario, the host is
  late,     \* the deadline of the run has passed
  reaping,  \* the drive that is being killed and drained
  runner,   \* where each runner process is
  failed,   \* runners that will report a failure
  open,     \* pipes some process still holds for writing
  pipe,     \* lines printed and not read yet
  reader,   \* the reader task of each drive
  printed,  \* history: every line a runner printed
  log,      \* drive-<label>.log, as a set
  drive,    \* DriveState: ready, done, passed
  joined,   \* conductor: the actors that have polled
  pos,      \* conductor: how many steps are complete
  cut,      \* drives whose readers had not ended when kill returned
  outcome,  \* RunOutcome.passed as a mark, "none" until the run is judged
  verdicts, \* passed() of each drive when the run is judged
  manifest, \* passed() of each drive as manifest.json has it
  result    \* the verdict of the run, "none" until there is one

reportVars == <<outcome, verdicts, manifest, result>>
hostVars   == <<config, host, late, reaping, cut, reportVars>>
runnerVars == <<runner, failed, open, printed, joined, pos>>
readerVars == <<reader, log, drive>>
vars == <<hostVars, runnerVars, readerVars, pipe>>

Mark == {"none", "pass", "fail"}

Line == {"ready", "miss", "breach", "exception", "declared", "pass", "fail", Shot, Garbled}

Init ==
  /\ config \in [ready : BOOLEAN, declares : BOOLEAN]
  /\ host = IF Launched > 1 THEN "first" ELSE "ready"
  /\ late = FALSE
  /\ reaping = 0
  /\ runner = [d \in Device |-> IF d = 0 THEN "starting" ELSE "off"]
  /\ failed = {}
  /\ open = {0}
  /\ pipe = [d \in Device |-> <<>>]
  /\ reader = [d \in Device |-> "idle"]
  /\ printed = [d \in Device |-> {}]
  /\ log = [d \in Device |-> {}]
  /\ drive = [d \in Device |-> [ready |-> FALSE, done |-> FALSE, passed |-> "none"]]
  /\ joined = {}
  /\ pos = 0
  /\ cut = {}
  /\ outcome = "none"
  /\ verdicts = [d \in Device |-> "none"]
  /\ manifest = [d \in Device |-> "none"]
  /\ result = "none"

-----------------------------------------------------------------------------
(* The runner processes: run_scenario_actor and its launch. *)

At(d, where) == runner[d] = where

Alive(d) == runner[d] \notin {"off", "dead"}

GoTo(d, where) == runner' = [runner EXCEPT ![d] = where]

Emit(d, lines) ==
  /\ pipe' = [pipe EXCEPT ![d] = @ \o lines]
  /\ printed' = [printed EXCEPT ![d] = @ \cup {lines[i] : i \in DOMAIN lines}]

\* The runner names its role, which is the ready marker.
Claim(d) ==
  /\ At(d, "starting")
  /\ GoTo(d, "claimed")
  /\ Emit(d, <<"ready">>)
  /\ UNCHANGED <<hostVars, readerVars, failed, open, joined, pos>>

\* Its first poll tells the conductor that the actor is there.
Join(d) ==
  /\ At(d, "claimed")
  /\ GoTo(d, "playing")
  /\ joined' = joined \cup {d}
  /\ UNCHANGED <<hostVars, readerVars, pipe, failed, open, printed, pos>>

MayAct(d) ==
  /\ At(d, "playing")
  /\ joined = Actor
  /\ pos < Steps
  /\ Owners[pos + 1] = d

\* The app crashes, or quits, on the step: the step is not acknowledged.
BreakOff(d) ==
  /\ MayAct(d)
  /\ failed' = failed \cup {d}
  /\ GoTo(d, "ending")
  /\ \E lines \in {<<"exception">>, <<>>} : Emit(d, lines)
  /\ UNCHANGED <<hostVars, readerVars, open, joined, pos>>

\* A step performed: a miss, a failed assertion or an observation that breaches
\* a contract is printed, and the runner goes on.
Perform(d) ==
  /\ MayAct(d)
  /\ pos' = pos + 1
  /\ \E lines \in {<<>>, <<"miss">>, <<"breach">>} \cup {<<n>> : n \in Noise} : Emit(d, lines)
  /\ UNCHANGED <<hostVars, readerVars, runner, failed, open, joined>>

\* DONE ends the loop; so does the hundred-thousandth poll, with steps left.
StopPolling(d) ==
  /\ At(d, "playing")
  /\ GoTo(d, "ending")
  /\ UNCHANGED <<hostVars, readerVars, pipe, failed, open, printed, joined, pos>>

\* JOURNEY DONE is printed before the verdict, whatever the verdict is.
Declare(d) ==
  /\ At(d, "ending")
  /\ GoTo(d, "declared")
  /\ Emit(d, <<"declared">>)
  /\ UNCHANGED <<hostVars, readerVars, failed, open, joined, pos>>

Report(d) ==
  /\ At(d, "declared")
  /\ GoTo(d, "reported")
  /\ Emit(d, <<IF d \in failed THEN "fail" ELSE "pass">>)
  /\ UNCHANGED <<hostVars, readerVars, failed, open, joined, pos>>

\* The process ends: of itself when all is said, or before.  What it started
\* may live on and keep the pipe.
Ended(d) ==
  /\ GoTo(d, "dead")
  /\ open' = IF d \in Holders THEN open ELSE open \ {d}

Exit(d) ==
  /\ Alive(d)
  /\ Ended(d)
  /\ UNCHANGED <<hostVars, readerVars, pipe, failed, printed, joined, pos>>

Release(d) ==
  /\ At(d, "dead") /\ d \in open
  /\ open' = open \ {d}
  /\ UNCHANGED <<hostVars, readerVars, pipe, runner, failed, printed, joined, pos>>

-----------------------------------------------------------------------------
(* The readers: handle_line, one line at a time. *)

\* A declared completion passes only when no verdict has spoken.
Completed(state) ==
  [state EXCEPT !.done = TRUE, !.passed = IF @ = "none" THEN "pass" ELSE @]

\* Mutant: the first thing heard decides, a verdict or a declared completion.
MutantHeard(state, line) ==
  CASE line = "ready" -> [state EXCEPT !.ready = TRUE]
    [] line \in {"pass", "fail"} ->
         [state EXCEPT !.done = TRUE, !.passed = IF @ = "none" THEN line ELSE @]
    [] line = "declared" /\ config.declares -> Completed(state)
    [] OTHER -> state

\* What a line does to DriveState: a verdict overwrites.
Heard(state, line) ==
  CASE line = "ready" -> [state EXCEPT !.ready = TRUE]
    [] line \in {"pass", "fail"} -> [state EXCEPT !.done = TRUE, !.passed = line]
    [] line = "declared" /\ config.declares -> Completed(state)
    [] OTHER -> state

\* A screenshot is taken before the next line is read; a line that is no UTF-8
\* ends the reader.  A runner prints its marks and its verdict on one stream; the
\* second reader, of the other stream, has nothing to hear and is left out.
ReadLine(d) ==
  /\ reader[d] = "idle" /\ pipe[d] # <<>>
  /\ pipe' = [pipe EXCEPT ![d] = Tail(@)]
  /\ LET line == Head(pipe[d])
     IN  /\ reader' = [reader EXCEPT ![d] = CASE line = Shot -> "busy"
                                              [] line = Garbled -> "deaf"
                                              [] OTHER -> @]
         /\ log' = [log EXCEPT ![d] = IF line = Garbled THEN @ ELSE @ \cup {line}]
         /\ drive' = [drive EXCEPT ![d] = Heard(@, line)]
  /\ UNCHANGED <<hostVars, runnerVars>>

ShotTaken(d) ==
  /\ reader[d] = "busy"
  /\ reader' = [reader EXCEPT ![d] = "idle"]
  /\ UNCHANGED <<hostVars, runnerVars, log, drive, pipe>>

\* Both pipes of the drive have been read to their end.
Exited(d) ==
  /\ runner[d] # "off" /\ d \notin open
  /\ reader[d] = "deaf" \/ (reader[d] = "idle" /\ pipe[d] = <<>>)

-----------------------------------------------------------------------------
(* The host: run_journey. *)

Over(d) == drive[d].done \/ Exited(d)

Live(d) == drive[d].ready \/ Over(d)

DeadlinePasses ==
  /\ host \in {"first", "ready", "walk", "grace"} /\ ~late
  /\ late' = TRUE
  /\ UNCHANGED <<config, host, reaping, cut, reportVars, runnerVars, readerVars, pipe>>

HostGoes(where) ==
  /\ host' = where
  /\ UNCHANGED <<config, late, reaping, cut, reportVars, failed, printed, joined, pos,
                 readerVars, pipe>>

\* Without a ready marker the host sleeps instead of asking.
LaunchRest ==
  /\ host = "first"
  /\ ~config.ready \/ Live(0) \/ late
  /\ HostGoes("ready")
  /\ runner' = [d \in Device |-> IF d = 0 THEN runner[d] ELSE "starting"]
  /\ open' = open \cup (Device \ {0})

StartWalk ==
  /\ host = "ready"
  /\ ~config.ready \/ late \/ \A d \in Device : Live(d)
  /\ HostGoes("walk")
  /\ UNCHANGED <<runner, open>>

\* Mutant: the walk waits for every device to be over.
MutantEndWalk ==
  /\ host = "walk"
  /\ (\A d \in Device : Over(d)) \/ late
  /\ HostGoes(IF \E d \in Device : Over(d) THEN "grace" ELSE "reap")
  /\ UNCHANGED <<runner, open>>

\* The first device that is over ends the walk; at the deadline nothing is
\* waited for any more.
EndWalk ==
  /\ host = "walk"
  /\ (\E d \in Device : Over(d)) \/ late
  /\ HostGoes(IF \E d \in Device : Over(d) THEN "grace" ELSE "reap")
  /\ UNCHANGED <<runner, open>>

\* The grace window ends when every device is over, or at any time before.
EndGrace ==
  /\ host = "grace"
  /\ HostGoes("reap")
  /\ UNCHANGED <<runner, open>>

\* kill() of the next drive: the process first.
Kill ==
  /\ host = "reap" /\ reaping < Launched /\ Alive(reaping)
  /\ Ended(reaping)
  /\ UNCHANGED <<hostVars, readerVars, pipe, failed, printed, joined, pos>>

\* Mutant: the verdict is taken as soon as the process is dead.
MutantDrain ==
  /\ host = "reap" /\ reaping < Launched /\ At(reaping, "dead")
  /\ UNCHANGED cut
  /\ reaping' = reaping + 1
  /\ UNCHANGED <<config, host, late, reportVars, runnerVars, readerVars, pipe>>

\* Then its readers, until they end or two seconds have passed: enough to read
\* what is buffered, but not for a screenshot or a pipe that is kept open.
Drain ==
  /\ host = "reap" /\ reaping < Launched /\ At(reaping, "dead")
  /\ \/ Exited(reaping) /\ UNCHANGED cut
     \/ /\ reader[reaping] = "busy" \/ reaping \in open
        /\ cut' = cut \cup {reaping}
  /\ reaping' = reaping + 1
  /\ UNCHANGED <<config, host, late, reportVars, runnerVars, readerVars, pipe>>

\* A journey that declares its completion is incomplete without it.
Incomplete == config.declares /\ \E d \in Device : ~drive[d].done

\* Some drive passed, none failed and nothing is incomplete.
Judge ==
  /\ host = "reap" /\ reaping = Launched
  /\ host' = "judged"
  /\ verdicts' = [d \in Device |-> drive[d].passed]
  /\ outcome' = IF /\ \E d \in Device : drive[d].passed = "pass"
                   /\ \A d \in Device : drive[d].passed # "fail"
                   /\ ~Incomplete
                THEN "pass" ELSE "fail"
  /\ UNCHANGED <<config, late, reaping, cut, manifest, result, runnerVars, readerVars, pipe>>

\* The manifest asks every drive again.
WriteManifest ==
  /\ host = "judged"
  /\ host' = "written"
  /\ manifest' = [d \in Device |-> drive[d].passed]
  /\ UNCHANGED <<config, late, reaping, cut, outcome, verdicts, result,
                 runnerVars, readerVars, pipe>>

-----------------------------------------------------------------------------
(* The judgement of run_scenario, from the logs and the conductor. *)

Logged(line) == \E d \in Device : line \in log[d]

\* classify_run: a failed drive or an application exception breaks the run, a
\* miss or a failed assertion makes it unreplayable.
ClassifyRun ==
  IF outcome # "pass" \/ Logged("exception") THEN "Broke"
  ELSE IF Logged("miss") THEN "CouldNotReplay"
  ELSE "Green"

\* Mutant: the conductor is not asked whether the script was completed.
MutantScenarioVerdict ==
  IF Logged("breach") THEN "Broke" ELSE ClassifyRun

\* A breached contract breaks the run; a script with steps left is not green.
ScenarioVerdict ==
  IF Logged("breach") THEN "Broke"
  ELSE IF ClassifyRun = "Green" /\ pos < Steps THEN "CouldNotReplay"
  ELSE ClassifyRun

Conclude ==
  /\ host = "written"
  /\ host' = "ended"
  /\ result' = ScenarioVerdict
  /\ UNCHANGED <<config, late, reaping, cut, outcome, verdicts, manifest,
                 runnerVars, readerVars, pipe>>

Host ==
  LaunchRest \/ StartWalk \/ EndWalk \/ EndGrace \/ Kill \/ Drain \/ Judge
    \/ WriteManifest \/ Conclude

Next ==
  \/ \E d \in Device :
       \/ Claim(d) \/ Join(d) \/ Perform(d) \/ BreakOff(d) \/ StopPolling(d)
       \/ Declare(d) \/ Report(d) \/ Exit(d) \/ Release(d)
       \/ ReadLine(d) \/ ShotTaken(d)
  \/ DeadlinePasses
  \/ LaunchRest \/ StartWalk \/ EndWalk \/ EndGrace \/ Kill \/ Drain \/ Judge
  \/ WriteManifest \/ Conclude

Spec == Init /\ [][Next]_vars

\* The host and the readers run whenever they can.  Nothing is assumed of a
\* runner, of a screenshot, of a process that keeps a pipe, or of the deadline.
FairSpec == Spec /\ WF_vars(Host) /\ \A d \in Device : WF_vars(ReadLine(d))

-----------------------------------------------------------------------------
(* Properties. *)

RunnerStage ==
  {"off", "starting", "claimed", "playing", "ending", "declared", "reported", "dead"}

HostStage == {"first", "ready", "walk", "grace", "reap", "judged", "written", "ended"}

TypeOK ==
  /\ config \in [ready : BOOLEAN, declares : BOOLEAN]
  /\ host \in HostStage
  /\ late \in BOOLEAN
  /\ reaping \in 0 .. Launched
  /\ runner \in [Device -> RunnerStage]
  /\ failed \subseteq Device
  /\ open \subseteq Device
  /\ pipe \in [Device -> Seq(Line)]
  /\ reader \in [Device -> {"idle", "busy", "deaf"}]
  /\ printed \in [Device -> SUBSET Line]
  /\ log \in [Device -> SUBSET Line]
  /\ drive \in [Device -> [ready : BOOLEAN, done : BOOLEAN, passed : Mark]]
  /\ joined \subseteq Actor
  /\ pos \in 0 .. Steps
  /\ cut \subseteq Device
  /\ outcome \in Mark
  /\ verdicts \in [Device -> Mark]
  /\ manifest \in [Device -> Mark]
  /\ result \in {"none", "Green", "Broke", "CouldNotReplay"}

\* A drive is fully heard when its reader was neither left behind by kill()
\* nor ended by a line it could not decode.
FullyHeard(d) == d \notin cut /\ reader[d] # "deaf"

\* A green run played its whole script: every actor had joined, every step was
\* acknowledged and no runner broke off; no device that was fully heard printed
\* an exception, a miss or a breach; and when the journey declares completion,
\* every device declared it or passed.
GreenIsEarned ==
  result = "Green" =>
    /\ joined = Actor /\ pos = Steps /\ failed = {}
    /\ \A d \in Device :
         FullyHeard(d) => printed[d] \cap {"exception", "miss", "breach", "fail"} = {}
    /\ config.declares => \A d \in Device : log[d] \cap {"declared", "pass"} # {}

\* A failing verdict that was printed before its runner was killed fails the
\* run and is in the manifest, even when it was still in the pipe (the comment
\* before the kill: "a done marker can precede buffered verdict/evidence").
FailureIsHeard ==
  \A d \in Device : "fail" \in printed[d] /\ FullyHeard(d) =>
    /\ outcome # "pass"
    /\ host \in {"written", "ended"} => manifest[d] = "fail"

\* The manifest shows the verdicts the run was judged by.
ManifestAgrees ==
  host \in {"written", "ended"} =>
    \A d \in Device : FullyHeard(d) => manifest[d] = verdicts[d]

\* A run ends once its deadline has passed, and, in the walk, once any device
\* is over: a runner that lingers, a pipe that is kept and a screenshot that
\* never finishes do not hold it ("a finished run must not ride out the full
\* timeout because of it").
EndsOnceOver ==
  (late \/ (host = "walk" /\ \E d \in Device : Over(d))) ~> host = "ended"
=============================================================================
