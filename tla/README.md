# A TLA+ model of ReproIt

ReproIt finds, keeps and replays bugs. The Rust program `crates/reproit` crawls an app or a
backend, keeps a map of what it saw, turns failures into saved reproductions and replays them;
platform runners (terminal, web, native) drive the app, and SDKs in eleven languages capture
production failures. This directory models the parts of it whose correctness depends on the order
of events: several processes, threads or devices, crashes, lost answers and files that are written
one after the other.

## 1. Inventory

Paths are relative to `src/crates/reproit/src/` unless they start with `crates/`, `runners/` or `sdk/`.

| part | state it keeps | operations | what is hard about it |
|---|---|---|---|
| multi-actor conductor, `workflows/barrier.rs` | script cursor, served flag, joined set, behind one mutex | `/claim`, `/next`, `/done`, `diagnose` | n device processes interleave; answers are lost or late; devices die |
| scenario clients, `adapters/tui/scenario.rs` (same loop in the web, React Native, desktop and Flutter runners) | role, step in hand | claim, poll, execute, acknowledge | retries without request identity |
| app-map store, `domain/map/` | `appmap.json`, `visits.json`, `provenance.json`, a recovery journal, `map.lock` | load, commit, replace, label, recover, freshness | crash between files, power loss, concurrent commands, stale decisions |
| map commands, `workflows/map.rs`, `workflows/scan_command.rs` | freshness read, crawl result | scan, ensure, rebuild, label | the source changes while they crawl |
| execution runner, `adapters/execution/runner*`, `domain/execution.rs` | provider processes, phases, cell, verdict votes | prepare ... cleanup over several providers | partial failure, cleanup after every failure, timeouts |
| host debugging, `runner/debug_control.rs`, `runner/host_debug.rs` | descriptor file, debugger child, control socket | attach, trigger, stop | two ways to trigger, blocking connections |
| journey orchestrator, `adapters/orchestrator*`, `adapters/drive.rs`, `workflows/journey/` | one drive process and two log readers per device, run result | reset, launch, watch, finalize, classify | two pipes race for one verdict, timeouts, kills |
| fuzz campaign, `workflows/fuzz/` | seeds, findings, confirmations | walk, confirm, shrink, report | a finding is confirmed by replays that may flake |
| saved repros and checks, `workflows/check*`, `workflows/repro*`, `domain/repro*` | `.reproit/repros/` | keep, check, simplify, pull | several commands read, work for minutes and write back; nothing locks the store |
| verdict vocabularies, `workflows/verdict_lattice.rs` | none | merge, exit code | eight enums folded into one |
| process capsule and checkpoints, `workflows/process_capsule/`, `workflows/checkpoint.rs` | capsule files, anchors | record, anchor, replay | a checkpoint must be consistent with the capture around it |
| backend engine, `workflows/backend_headless/`, `domain/backend/` | schema, traffic history, receipts | generate, send, evaluate, replay, shrink | hermetic replay of recorded dependency answers |
| protocol, `crates/reproit-protocol`, and flight recorder, `crates/reproit-recorder` | bounded event ring, causal DAG | record, trigger, flush, compile | bounded buffers that must not lose the failure |
| SDK capture queues, `sdk/reproit-backend-*` | in-memory queue, counters, upload thread | record, flush, upload | the app's threads against the upload thread: lost wakeups, overflow, uncounted losses |
| triage and cloud, `workflows/triage/`, `workflows/cloud.rs` | cloud lifecycle state | fetch, reproduce, report | remote state changes between calls |
| credentials, updates, inspection, `adapters/{credentials,update,inspect_control}.rs` | vault file, cached notice, control socket | read, write, poll | file replacement |

The complete list, with what is left out and why, is `components` in `PROJECT.json`; everything the
list calls hard is under `hazards`, at its line.

## 2. Modules

| module | models | composes |
|---|---|---|
| `Scenario` | what the conductor promises | |
| `Conductor` | `workflows/barrier.rs` and n scenario clients, with unanswered requests, late requests and deaths | implements `Scenario` |
| `ConductorProofs` | theorems about `Conductor` for any number of actors and any script | `Conductor` |
| `SnapshotStore` | what the map store promises | |
| `MapStore` | the three map files, journal, lock, recovery, and the commands that check, crawl and commit | implements `SnapshotStore` |
| `MapProofs` | theorems about `MapStore` for any number of commands, deaths and outages | `MapStore`, `SnapshotStore` |
| `MapSourceProofs` | theorems about what the map says of the source | `MapProofs` |
| `Bracket` | what an execution owes the machine it runs on | |
| `ExecutionRun` | one execution of a reproduction plan: phases, providers, cell, host debug command, cleanup, verdict | implements `Bracket` |
| `PlanCheck` | `reproit check` of a plan: several executions, the outcome and the promotion | extends `ExecutionRun` |
| `PlanProofs` | theorems about `PlanCheck` and the executions in it, for any plans and number of executions | `PlanCheck`, `Bracket` |
| `JourneyRun` | one run of a multi-actor scenario: runner processes, their pipes, the log readers, the host that waits, kills, drains, judges and classifies | uses the conductor as the position in the script that `Scenario` promises |
| `JourneyProofs` | theorems about `JourneyRun` for any number of actors and devices and any script | `JourneyRun` |
| `DebugSession` | the control session of `reproit debug`: Enter and control connections, the descriptor, the end of the run | decides what `ExecutionRun` leaves to a choice (`ReleaseTrigger`, `StopSession`) |
| `DebugProofs` | theorems about `DebugSession` for any clients | `DebugSession` |
| `ReproStore` | the files of a saved repro under concurrent check, keep, simplify and pull | |
| `ReproProofs` | theorems about `ReproStore` for any number of commands and deaths | `ReproStore` |
| `Outbox` | what a capture queue promises | |
| `CaptureQueue` | the capture queue of a backend SDK: recording threads, flush, the upload thread | implements `Outbox` |
| `CaptureProofs` | theorems about `CaptureQueue` for any threads, queue size, retries and number of operations | `CaptureQueue`, `Outbox` |
| `MC...` | the instances TLC checks | |

Operators named `Mutant...` stand before the definition they are a variant of. They are plausible
bugs of that definition (a dropped guard, a missing reset, a swapped order); no specification uses
them. `PROJECT.json` pairs each with the property that catches it.

### Conductor

| model | code |
|---|---|
| `cursor`, `served`, `joined` | `State` behind the mutex of `barrier.rs`; one verb is one atomic step of it |
| `ClaimGrants`, `ClaimRefused` | `claim()` |
| `NextHandled`, `MayAct`, `AllJoined` | the `/next` arm of `route` |
| `DoneHandled` | the `/done` arm |
| `pc`, `role`, `step` | where each client is in `run_scenario_actor`, the actor it plays, the step in hand |
| `Claim`, `Poll` (`PollDone`, `PollWait`, `PollAct`), `Execute`, `Acknowledge` | the client loop; a verb that is answered is one step of client and server together, because the client does nothing while it waits |
| `Unanswered`, `stray`, `HandleStray` | a request whose client gave up: lost on the way, handled but its answer lost, or handled later |
| `Crash`, `alive` | a device process that dies, with or without an action in hand |
| `Diagnosis` | `diagnose()` |

`played` is a history variable: the steps whose action was executed, in order.

### MapStore

| model | code |
|---|---|
| `view`, `disk` | the files as processes see them, and as a power failure may leave them; `Sync` is the directory fsync after each rename |
| `lock`, `Acquire`, `Recover`, `Release` | `with_map_lock` and `recover_pending_unlocked` |
| `Save`, `Write`, `NextStage` | `save_snapshot`: journal, visits, map, provenance, removal of the journal |
| `Load`, `Mixed`, `Revision`, `Fail` | the loaders, and their refusal of visits of another revision, which drops the lock |
| `Commit`, `Base`, `Absorbed`, `Label` | `commit_observations`, `absorb_obs_inmem`, `apply_state_labels` |
| `ReadStamp`, `Compare`, `FreshnessOf` | `map_freshness`; the stamp and the source are read after the lock was released |
| `Crawl`, `MayCommit`, `MayLabelOnly`, `Replacing` | `scan_map_commit`, `commit_run`, `commit_map_run`, `ensure_app_map`, `rebuild_app_map`; a rebuild whose crawl was `EXPLORE:UNSCANNABLE` commits nothing and still labels the map it finds |
| `Edit`, `Die`, `PowerLoss` | the environment |

A file is the snapshot it was written from; which of that snapshot's fields the file really holds is
said in the module's header. A screen is tagged with the source version it was observed in, so that
"the map shows the current app" is a statement about the state.

### ExecutionRun and PlanCheck

| model | code |
|---|---|
| `next`, `status`, `failed` | `ExecutionState` of `domain/execution.rs` |
| `StartPhase`, `SkipPhase`, `RunProvider`, `ProviderDone`, ... | the loop of `execute_with_mode` |
| `cmd`, `CommandEnds`, `PipesClose` | `run_command`: the child, its timeout, and the output pipes the runner reads to the end |
| `ComposeUp`, `TearDown`, `containers`, `receipt` | `CellSession` |
| `task`, `ReleaseTrigger`, `StopSession`, `DebugDone` | the host debug command, which runs beside the phase loop until the Trigger phase joins it |
| `StartCleanup` ... `CleanupsTried`, `Fold`, `FinishRun` | `run_cleanup`, `fold_provider_verdicts`, the end of `execute_with_mode` |
| `Again`, `Settle`, `Abort`, `Aggregate` | `run_plan_runs`, `aggregate_plan_runs`, `mark_checked` |

The plan is chosen by the initial state from `Plans`; `PlanType` says which plans the catalog
compiles. What a command does is a choice of exit, match, timeout and of what it leaves running.

### JourneyRun

| model | code |
|---|---|
| `runner`, `failed`, `open`, `pipe` | a runner process, whether it will report a failure, and the pipe it prints on; `open` is who still holds a pipe for writing |
| `Claim`, `Join`, `Perform`, `BreakOff`, `StopPolling`, `Declare`, `Report`, `Exit`, `Release` | `run_scenario_actor` and what it prints, one line or lines of one step at a time; `Release` is a child that kept the pipe |
| `ReadLine`, `Heard`, `Completed`, `ShotTaken` | `handle_line` of `drive.rs`: `DriveState`, the log, the screenshot that blocks a reader, the undecodable line that ends it |
| `LaunchRest`, `StartWalk`, `EndWalk`, `EndGrace`, `DeadlinePasses` | the waits of `run_journey` |
| `Kill`, `Drain` | `Drive::kill`: the process, then its readers for two seconds |
| `Judge`, `WriteManifest` | `RunOutcome` and `manifest.json`; both ask `passed()`, one after the other |
| `ClassifyRun`, `ScenarioVerdict`, `Conclude` | `classify_run` and the end of `run_scenario` |

The conductor is the pair (`joined`, `pos`): what `Conductor` was shown to implement in `Scenario`.

### DebugSession

| model | code |
|---|---|
| `shown` | the state in `debug-session.json` |
| `OpenIde`, `TerminalRead`, `Accept`, `ReadRequest`, `Respond` | `wait_for_trigger` and `handle_connection`, with the writes that may fail |
| `Replay`, `CleanUp`, `Finish`, `Die` | the rest of the run, `finish`, an interruption |
| `Connect`, `Send`, `GiveUp` | `sendCommand` of the editor extension, and its five-second limit |
| `Type` | Enter, or the end of the input |

### ReproStore

| model | code |
|---|---|
| `meta`, `replay`, `pending` | `meta.json`, `replay.json`, and the finding the case came from; of a meta the status, and whether it has a creation stamp |
| `Referred`, `Resolve` | `resolve_metas`: `rep_<id>` and an alias are looked up among the saved repros, `fnd_<id>` among the findings, although a repro may be saved |
| `Check`, `Marked`, `Onwards` | a check's runs and `mark_checked`, once for each locale, always from the meta that was read first |
| `Keep`, `Kept`; `Verify`, `Retire`, `RemoveDir`; `Pull` | `keep`; `simplify` and the removal of what it supersedes, one file at a time; `persist_legacy_occurrence` |
| `EmptyReplay`, `WriteReplay`, `EmptyMeta`, `WriteMeta` | `std::fs::write`: truncated, then written; two writers may leave a file that does not parse |

### CaptureQueue

| model | code |
|---|---|
| `Capture`, `Push`, `Notify` | `record`: the counter, the hold of the lock, the notification |
| `Flush`, `FlushEnds` | `flush`: the first look, and any later one until its time is over |
| `Start`, `Sleep`, `Take`, `Accept`, `Reject`, `NoAnswer`, `CountSent`, `CountFailed`, `CountDropped`, `Finish` | the upload thread; the wait on the condition variable is `Sleep`, and `Woken` ends it |

A step is what one thread does between two points where another may come in, so each counter of
`stats` is a step of its own.

`Outbox` has one line and no threads: its `line` is `Unsettled`, the operation in hand and then the
queue, so that `Take` is a stutter. An attempt that reaches the service is `Reach`, and counting is
`Leave`. It says that a sent operation has reached the service, that each leaves the line once and at
its head, that a line with room loses nothing, and that a flush answers true on an empty line.

## 3. Properties and runs

Each run asks one question. "Passing" runs are exhaustive for their bounds; "violation" runs show a
place where the program does not do what its own documentation says.

| run | shows |
|---|---|
| `conductor_claim` | three claiming runners, one unanswered poll and one death at any moment: roles stay distinct, one actor acts at a time and only behind the barrier, the script is played in order and each step once, a dead holder is named, every live actor finishes unless a dead one is needed, and the whole implements `Scenario` |
| `conductor_faulty` | any two verbs unanswered: while roles are distinct, every fault costs at most one skipped and one repeated step |
| `map_crash` | three different commands, a process death and a power failure in any order and at any file operation: nobody is refused a snapshot, no job starts on files of different commits, what was reported is durable, and files, journal and lock implement one atomic snapshot |
| `map_settled` | the source edited only between commands: a screen of an old source gets into a map that counts as current only by a rebuild that saw nothing and labels the map it finds, an incomplete scan merges only into a current map, a death blocks nobody |
| `plan_check` | nine plans, each executed twice: a conclusive verdict rests on a whole run that left nothing behind, every cleanup was tried once in reverse order, the phase record agrees with what happened, Pass and Fail rest on runs that started clean, promotion is earned, and a run ends unless somebody keeps an output pipe |
| `journey` | two runners that may break off, lie silent, print before or after their done marker, or leave a process on their pipe: Green is earned, a failing verdict that was printed before the kill is heard, the manifest shows the verdicts the run was judged by, and the run ends once a device is over or its deadline has passed |
| `debug` | Enter and three clients, one of them with a stale token and one that may hang: what a client was told is what happens, the descriptor says only what is so and never goes back, and Enter ends the wait |
| `repro_store` | three commands in any overlap, one killed: a guard becomes required only when it earned it, falls back only when a command saves what has been overtaken or did not read the guard it saves, and commands that run one at a time leave whole guards |
| `capture_queue` | two threads, an upload thread that may never start, a service that may take an operation and not answer: a true flush means that everything recorded before it was sent or counted as dropped, nothing is lost uncounted, the oldest go first, the whole implements `Outbox`, every operation is settled in the end |

### Where the code departs from its documentation

| run | what it shows |
|---|---|
| `conductor_mixed` | a labelled runner registers only at its first `/next`; a claimant that comes earlier is given its role, so two devices drive one actor (`barrier.rs:231`; the doc of `claim` says they never can) |
| `execution_timeout` | a command killed by its timeout counts as a reproduction when its output matched before (`process.rs:30`) |
| `repro_pending` | a check of a finding that nobody kept saves a `meta.json` for it (`check.rs:673`; the doc of `pending_meta` says it is never written to disk) |

Departures that no run shows, because each is visible in one place of a model:

- `/done` names the device and not the step: one that is handled after the same owner was served its
  next step acknowledges that one (`barrier.rs:217`, "idempotent / safe"). This is why `Uniform` in
  `Conductor` lets only polls go unanswered.
- The provenance stamp is computed when the map is saved, so an edit during the crawl makes a map of
  the old source count as current (`persistence.rs:189`). `MapStore` with `EditsDuringScan = TRUE`
  violates `OldScreensStayOut`; `map_settled` sets it to `FALSE`.
- The same happens without an edit during a command: `debug map structural --label` of an app that a
  challenge page hides commits nothing, labels the map it finds and saves it with the stamp of the
  current source (`domain/map/mod.rs:289-296`, `workflows/map.rs:60-75`). `OldScreensStayOut` names
  it as its one exception (`LabelsBlindly`), and `map_settled` reaches it.
- Recovery does not sync the journal it found before it rolls it forward: a kill between rename and
  fsync, then a power failure during recovery, can keep the new visits and lose the journal, and every
  later merge is refused (`persistence.rs:232`). It needs a file system that keeps a later rename of a
  directory and loses an earlier one, which POSIX allows until the directory is synced. `WritesBack`
  in `MapStore` is the assumption under which `map_crash` passes: a killed process's last rename
  reaches the disk before the power fails.
- A provider bound in the cleanup phase, where the catalog binds process-stop requirements, never
  runs and the verdict does not show it (`runner.rs:151`).
- A service left running that inherited the output pipe keeps the run from the cleanup that would stop
  it (`process.rs:249`); `EndsUnlessPipeHeld` names the exception.
- A runner that is killed after it declared its completion and before it reported counts as passed
  (`Completed` in `JourneyRun`): `GreenIsEarned` can ask for a declaration or a pass, no more.
- Only six device letters exist: a seventh actor is never launched and the scenario never ends Green.
  `ClampedIsNeverGreen` proves it.
- Enter leaves the descriptor at `paused-before-trigger`, and a session that was stopped or failed
  keeps the descriptor of its last state, since `finish` is called with a receipt only (`runner.rs:336`).
- `Overwrites` in `ReproStore` lists when a required guard is demoted although `keep.rs` promises to
  preserve it: a lost update, to another command or to the check's own promotion in an earlier locale
  (`check.rs:572-577`); a check by finding id, which starts from pending metadata although a guard is
  saved (`domain/repro.rs:272-281`); a `meta.json` caught torn; a pull; a simplification onto an id
  that was kept before.
- In `CaptureQueue` the gather window (`flush_now`, `flush_interval`) is dead code: the loop that
  looks at it is entered with a queue that is not empty. The upload thread ends silently when it
  cannot build its HTTP client, although the constructor succeeded; the counters still add up.

### Bounds

- `Conductor`: three actors and `<<0, 1, 1, 2, 0>>`. This has a hand-over between different actors,
  one owner twice in a row, and an owner that comes back, so a stray `/done` can meet a later step of
  its own owner. The proofs have no bound. `conductor_claim` has one unanswered answer and one crash
  (2,656 states), `conductor_faulty` two unanswered (58,273 states).
- `MapStore`: three processes in `map_crash`, because a double fault needs a third command to
  observe it: the first dies, the second recovers, the third reads. One screen is enough there, since
  the files of two commits already differ in their runs and revision. `map_settled` has two screens,
  so that a crawl can be incomplete, and one edit. One edit separates the old source from the new.
- `ExecutionRun`: the plans of `MCExecutionRun` have each cell, mode, matcher and phase with
  providers, up to three providers, with and without cleanup. Two executions are the least in which
  the first can disturb the second.
- `JourneyRun`: two actors and `<<0, 1>>`: one hand-over, a device that waits for the other, and one
  whose child keeps its pipe. A device can then be over while the other still prints (1,069,068 states).
- `DebugSession`: three connections, so that one is handled while another waits and a third arrives
  late; the tokens and the person's input are all combinations (928,896 states).
- `ReproStore`: three commands, each any of the five, with one death: a lost update takes two, and the
  third sees the result (4,734,728 states with symmetry of the commands). A check may run any number of
  locales.
- `CaptureQueue`: two threads, a queue of two, four operations: the queue overflows while one operation
  is in hand, and a flush overlaps a push (637,735 states). One retry separates an attempt that is
  repeated from the last.
- `CHECK_DEADLOCK FALSE` everywhere: a scenario that is played, commands that have returned, a check
  or a session that is over, a queue that is empty when nobody records have nothing more to do. That
  they get there is the liveness properties' part.

### Fairness

- `Conductor!FairSpec`: weak fairness of each live client's next step. The client loop has no exit but
  DONE, an HTTP request has a timeout, and an action is a bounded amount of input. Nothing forces a
  stray request to be handled, a crash, or a fault.
- `MapStore!FairSpec`: weak fairness of a started command's work. Its waits are the crawl, which the
  orchestrator bounds, and `flock`, which the system grants to some waiter when it is free. Starting
  commands, edits and losses are nobody's duty.
- `ExecutionRun!FairSpec` and `PlanCheck!CheckFairSpec`: weak fairness of the runner and of its
  children, whose every wait has a timeout. The person at the debugger and the holder of an inherited
  output pipe owe nothing, and the properties name both as exceptions.
- `JourneyRun!FairSpec`: weak fairness of the host and of the readers. Nothing is assumed of a runner,
  a screenshot, a process that keeps a pipe, or the deadline: `EndsOnceOver` starts from a device that
  is over or a deadline that has passed.
- `DebugSession!FairSpec`: weak fairness of the session, and of the clients that are not suspended,
  which send or give up after five seconds. Nothing is assumed of the person; `EnterEndsTheWait` starts
  from what was typed, and excepts a connection that is held open.
- `CaptureQueue!FairSpec`: weak fairness of the upload thread, whose requests have a timeout, and of a
  thread inside `record`, which waits for a mutex that is held for a few instructions. Nobody has to
  record or to flush, and the service may refuse or stay silent every time.

## 4. Proofs

`ConductorProofs` proves, for every `N`, script, set of labelled devices and fault bound that satisfy
`ConductorAssumption`:

- `TypeCorrect`: the types, under all faults.
- for a uniform fleet (`Uniform`: all runners labelled or all claiming, and only polls unanswered):
  `UniformInvariant`, and from it `RolesStayDistinct`, `OneActorActs`, `BarrierIsKept`,
  `ScriptIsPlayed`, `TheDeadAreNamed` and `Implements` (`Conductor` implements `Scenario`, by a step
  that maps each action to a step of `Scenario` or a stutter).

`Uniform` is needed: `conductor_mixed` is what happens without its first half, and a late `/done`,
above, without its second. What survives of it in other fleets is proved too:

- `FaultsArePaid`: for any labels, and whichever verb goes unanswered, `EachFaultCostsOne`. It cannot
  be counted from what has been skipped or repeated so far, since a late `/done` that is still on its
  way may skip a step, and a step whose `/done` was not handled is handed out again. The invariant
  `FInv` therefore counts ahead: the steps behind the cursor that are not executed or still in
  somebody's hand (`Loose`) and the requests on their way are together no more than the unanswered
  verbs (`SkipsArePaid`), and the executed steps that are in hand again or about to be (`Repeatable`)
  are paid for in the same way (`RepeatsArePaid`).
- `RolesSurviveFaults`: with all devices labelled, or none and every claim answered (`RolesAgreed`),
  `DistinctRoles` and `BarrierHolds` do not need the second half of `Uniform`. A device whose claim is
  not answered takes role 0, which another one may have.
- `PriceOfFaults` puts the two together: there the bound holds without condition.

The inductive invariant `IInv` adds to the properties:

- `RolesAreJoined`: a role that joined belongs to a device, and a claimed role has joined. Without it
  a claim could hand out a role that is in use.
- `OnlyPollsAreStray`: a late request is a poll of a role somebody has, so that handling it changes
  nothing but what a poll of that device would.
- `ServedOnceJoined`: nothing is served before the join barrier opened, and it never closes again.
- `HolderIsServed`: whoever has an action in hand has the current one, it is marked served, and it is
  its role's. With distinct roles this makes the holder unique.
- `PlayedSoFar`: the history is as long as the cursor, plus one between execution and acknowledgement.

The barrier property follows by counting: if all `N` roles joined and each is some device's, no device
is without one (`EveryRoleHeld`, a pigeonhole argument on finite sets).

`MapProofs` proves `StoreTypes` for any number of commands, screens, edits, deaths and outages, and
under `LossesDontMix`: `NoneRefused`, `JobsStartWhole`, `ReportsAreDurable`, and
`StoreImplementsSnapshot`, the refinement of `SnapshotStore`. `LossesDontMix` leaves out one thing,
which section 3 discusses and which does refuse a merge: a process killed before its last rename is
synced, in a system that does not write it back (`WritesBack`), followed by a power loss. So kills
alone, power losses alone, and both where renames are written back, are all covered. The promise is
about the disk and the code about the files that processes see, so the invariant `Core` ties the two
together through the lock:

- `LockIsHeld`, `OnlyWritersWait`: whoever is under the lock holds it, and only a writer has an
  operation that is not synced.
- `OneFileBehind`: where deaths leave the disk in step (`DeathsAreSynced`), it lacks at most the one
  file its writer has just replaced. A power failure therefore leaves either what everybody saw or
  what was on disk, never a mix (`LossIsOneOfTwo`).
- `DiskFollows`: where they do not, the disk may lack several files, of several deaths; but what is
  committed on it is what everybody sees, or what the journal they see follows.
- `AlwaysRecoverable`: both have three files of one commit, or a journal to roll forward.
- `WriterInStep`: the place a writer has come to says which files have its snapshot; this is what
  makes a death at any place recoverable, also a death during recovery.
- `JobSeesOneCommit`: between recovery and the release of the lock the files are even.
- `RunsWereMade`, `CrawlComesFirst`, `WriterFollows`: a snapshot has only runs whose command came to
  commit, so that a commit's run is new, a replacement forgets the earlier ones, and what is in the
  journal follows what was committed in the sense of `SnapshotStore`.

`MapSourceProofs` asks in addition that deaths leave the disk in step (`DeathsAreSynced`: renames are
written back, or nobody is killed) and that nobody edits the source under a command
(`~EditsDuringScan`), and proves `OldScreensAreKeptOut` and `IncompleteStaysOut`. That a map that
counts as current shows only the current source is not an invariant of the code: a rebuild that saw
nothing may label the map it finds. The theorem is about the steps, and its invariant says what a
command is about to commit: what is stamped was stamped with a source that exists (`StampsAreReal`),
`provenance.json` is never ahead of the commit (`StampIsBehind`: the reader of the stamp does not hold
the lock), a snapshot that waits in the journal's stage has only screens of the current source or ones
that the current map shows already (`NoneIsWorse`), and what each command may rely on at each place
(`Knows`), such as that a map found current or missing before the crawl is still, or has been stamped
again, when the commit comes.

`JourneyProofs` proves, for every number of actors and device letters, script, set of devices that
leave a process behind and noise (`JourneyAssumption`): `RunInvariant`, `RunTypes`, and from them
`GreenStaysEarned`, `FailureStaysHeard`, `ManifestStaysTrue` and `ClampedIsNeverGreen`. The invariant
follows a line from the runner to the verdict:

- `NothingIsLost`: what a runner printed is in the log or still in the pipe, unless its reader is deaf.
- `OneVerdict`: a runner prints at most one of pass and fail, at its end.
- `DriveShowsLog`: a failing verdict that was read stands, and a drive is done only by a line.
- `ReapedIsSilent`: once a drive was drained and fully heard, its pipe is empty and stays so; this is
  what makes judging and writing the manifest, which read it one after the other, agree.
- `BrokenStaysPut`: a runner that broke off owns the step at the position, so the script stays there.
- `HostInTurn`, `JudgedAsHeard`: where the host is says what has been killed, judged and written.

`DebugProofs` proves, for every set of clients: `AnswersStayTrue`, `DescriptorStaysTrue`,
`DescriptorNeverGoesBack`. Its invariant says, for each place of the session, what was recorded for
the connection in hand and who can have been answered.

`ReproProofs` proves, for any number of commands and deaths: `StoreInvariant`, `StoreTypes`,
`RequiredStaysEarned`, `StatusStays`, `KeptStaysWhole`. `Earned` carries the promise from the store to
what a command has read and will save; `ReadsTheLast` and `ViewStands` say that what can be read is the
last meta that was written, and that the status a command has read is the last one unless it was
overtaken; `RunsACase` and `ChecksACase` that a check has a meta for every locale; `OneCase` keeps jobs
and ids together. `StatusStays` then has one case left for a command that read a required guard and was
not overtaken: it saves no less than it read.
`KeptStaysWhole` has an invariant of its own, `Serial`: until two commands have overlapped or one was killed, no case has lost
its guard, at most one command is running, every kept case but the one it is saving is whole, and of
that one it has yet to write exactly what is missing (`Leaves`).

`CaptureProofs` proves, for any threads, queue size, retries and number of operations:
`QueueInvariant`, `QueueTypes`, `FlushStaysTrue`, `NothingGoesUncounted`, `OldestStayFirst`, and
`QueueImplementsOutbox`, the refinement of `Outbox`. The queue
is a run of consecutive numbers that ends with the last operation that entered (`QueueIsARun`), what
left is settled (`LeftAreSettled`), the counters add up with the one operation in hand (`HandAgrees`,
`CountersAdd`), and a flush began no later than now (`SinceIsPast`). For the refinement this gives
what a step needs: the head of the queue is in it once (`RunLosesHead`), so that an overflow loses
one operation, and the operation in hand is not the number 0, so that the line shows it.

`PlanProofs` proves, for every set of plans (`Plans`, those that preparation refuses included) and
every number of executions: `CheckSound`, `CheckTypes`, `VerdictsLeaveNothing`, `CleanupsAreWhole`,
`RecordsAgree`, `VerdictsRestOnWholeRuns`, `ClaimsAreClean`, `PromotionsAreEarned`, and
`CheckImplementsBracket`, the refinement of `Bracket`. A step of a run is first classified: it is
quiet, opens a phase, closes one, gives something back, concludes a provider, or ends the run
(`StepKinds`). Each part of the invariant is then kept kind by kind:

- `Place`, `Commands`, `ResultsBelong`: where the run is says which phase and which provider it has in
  hand, and what may run beside it.
- `RecordRows`, `FlagsAgree`, `FailureEnds`: the record behind the current phase is closed, says what
  the flags say, and nothing ran after a failure but the cleanup.
- `LeavingsAreDeclared`, `CleanBehind`: what is left belongs to a provider with a cleanup, and a cleanup
  phase that passed left nothing. Together they make a conclusive verdict a clean one.
- `CleanupInTurn`: the cleanups tried so far are the declared ones above the position, backwards.
- `Evidence`: while nothing failed, the providers that ran are exactly the ones before the current
  one, in order (`InTurn`), and from the cleanup on all that come before it (`InFull`); the two flags
  of a failure say what was seen.
- `TaintIsSeen`: an execution that began beside leavings comes after one without a verdict about the
  bug, so the check cannot end in Pass or Fail.

The type invariants of these modules, of `Conductor` and of `MapStore` are proved and so are in no run.

Only model-checked: all liveness (`FinishesUnlessDeadNeeded`, `EveryCommandEnds`,
`EndsUnlessPipeHeld`, `EndsOnceOver`, `EnterEndsTheWait`, `EveryOperationSettles`), which the proof
system does not reach. Every other property that a run shows is proved for every value of the
constants, under the hypotheses its theorem names.

## 5. Not modelled

- Crawling, oracles, signatures, input synthesis, screen parsing and verdict wording: data without
  order. What they decide is a choice in the models.
- The HTTP framing of the conductor, file formats, redaction. An answer of the conductor arrives whole or
  not at all: the scenario client takes one that was cut off before its body for an action without a
  name, plays nothing and acknowledges it (`scenario.rs:18-21`, `:204`).
- The limit of 100000 polls in the scenario client: over an hour of WAIT, longer than a run is given.
  `JourneyRun` has it as `StopPolling`.
- `debug map structural --from <run>`, which absorbs the log of an earlier crawl and stamps it with the
  current source, and the age at which the map of a target without a checkout turns stale.
- What a provider that declares no cleanup starts and leaves running: no code stops it, and `left` does
  not count it.
- The second log reader of a drive: the runner prints its marks and its verdict on one stream.
- Wall-clock time. A timeout is a step that may happen whenever its wait is on.
- Windows: `sync_parent` does nothing there and the rename is write-through; `MapStore` is the Unix code.
- Errors of single file operations are covered by `Die`, which is what an early return looks like to
  the files and the lock.
- Of a journey: simulator provisioning, recordings, the reset between runs and the headless tier. They
  run before or after what `JourneyRun` models, one at a time.
- Of saved repros: the run files a check retains and prunes, and the guards of plans and capsules.
- Of the SDKs: how a payload is built, and the SDKs of one event loop, where the interleavings of
  `CaptureQueue` do not occur. Node drains in a callback that loses an operation uncounted when
  building the payload throws.
- The flight recorder is a bounded ring without concurrency, and checkpoints are copies and commands
  run one at a time; neither has an order of events to get wrong.

The components without a module are listed with the reason in `PROJECT.json`.

## 6. Plan

What is left, in this order:

1. `Confirmation`: walk, replay, shrink and report of a fuzz finding with replays that may flake.
2. Hermetic replay: the matching of recorded dependency answers in `workflows/backend_headless/`.
3. The cloud lifecycle of `workflows/triage/`, with a remote state that changes between calls.
4. Verdict laws: merge and exit code of the verdict vocabularies, as pure operators over all inputs.
