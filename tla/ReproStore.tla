----------------------------- MODULE ReproStore -----------------------------
(***************************************************************************)
(* The store of saved repros, .reproit/repros/<id>/, and the commands that *)
(* read and write it: check (workflows/check.rs), keep (workflows/repro/   *)
(* keep.rs), simplify (workflows/repro.rs) and the pull of an occurrence   *)
(* that carries a recorded path (workflows/bundle.rs).                     *)
(*                                                                         *)
(* A command reads meta.json, works for a long time, and saves what it     *)
(* read with its changes.  Nothing locks the store, and save_meta writes   *)
(* the file in place: it is empty for a moment, and two writers may mix    *)
(* their bytes.  One finding is followed, under the id of its recorded     *)
(* sequence and the id of a simplified one.                                *)
(***************************************************************************)
EXTENDS Naturals, FiniteSets

CONSTANTS
  Procs,     \* commands, one process each
  MaxDeaths  \* how many of them may be killed

ASSUME ProcsAssumption == IsFiniteSet(Procs) /\ MaxDeaths \in Nat

Old == "old"
New == "new"
Ids == {Old, New}

Job == {"check", "keep", "strict", "simplify", "pull"}

Status == {"quarantined", "required"}

Outcome == {"pass", "stale", "flaky", "fail"}

\* Of a meta the status, and whether it has a creation stamp: no command decides
\* anything by the last result and its time.
Meta == [status : Status, stamped : BOOLEAN]

NoMeta == [status |-> "none"]
TornMeta == [status |-> "torn"]

File == {"absent", "torn", "whole"}

VARIABLES
  meta,    \* meta.json of each id
  replay,  \* replay.json of each id
  pending, \* the finding is still in the evidence directory
  job,     \* what each command does
  pc,      \* where it is
  on,      \* the id it works on
  view,    \* the meta it has read
  draft,   \* the meta it will save
  lost,    \* commands writing a file that was removed under them
  asked,   \* history: ids that some command was asked to keep
  earned,  \* history: ids with a green run, a strict keep, or an earned source
  last,    \* history: the last whole meta of each id
  behind,  \* history: commands that have read a status the store no longer has
  shared   \* history: two commands ran at once, or one was killed

storeVars == <<meta, replay, pending>>
localVars == <<job, on, view, draft>>
writeVars == <<pc, lost>>
historyVars == <<asked, earned, last, behind, shared>>
vars == <<storeVars, localVars, writeVars, historyVars>>

\* The case is only found, or it has been kept.
Init ==
  /\ \/ meta = [i \in Ids |-> NoMeta] /\ pending = TRUE /\ asked = {}
     \/ /\ meta \in [Ids -> {NoMeta} \cup [status : Status, stamped : {TRUE}]]
        /\ meta[Old] # NoMeta
        /\ pending \in BOOLEAN
        /\ asked = {i \in Ids : meta[i] # NoMeta}
  /\ replay = [i \in Ids |-> IF meta[i] = NoMeta THEN "absent" ELSE "whole"]
  /\ job \in [Procs -> Job]
  /\ pc = [p \in Procs |-> "idle"]
  /\ on \in [Procs -> Ids]
  /\ \A p \in Procs : job[p] # "check" => on[p] = Old
  /\ view = [p \in Procs |-> NoMeta]
  /\ draft = [p \in Procs |-> NoMeta]
  /\ lost = {}
  /\ earned = {i \in Ids : meta[i].status = "required"}
  /\ last = meta
  /\ behind = {}
  /\ shared = FALSE

-----------------------------------------------------------------------------
Running(p) == pc[p] \notin {"idle", "done", "dead"}

GoTo(p, where) == pc' = [pc EXCEPT ![p] = where]

Begin(p, where) ==
  /\ pc[p] = "idle"
  /\ GoTo(p, where)
  /\ shared' = (shared \/ \E q \in Procs : Running(q))

\* load_meta: what cannot be parsed is as good as absent.
Loaded(i) == IF meta[i] \in Meta THEN meta[i] ELSE NoMeta

PendingMeta == [status |-> "quarantined", stamped |-> FALSE]

HasFinding(i) == i = Old /\ pending

\* What a reference stands for: rep_<id>, an alias and a whole corpus are looked up
\* among the saved repros, fnd_<id> only among the findings, saved or not.
Referred(i) == {Loaded(i), IF HasFinding(i) THEN PendingMeta ELSE NoMeta}

\* check and simplify.  An unknown reference is refused.
Resolve(p) ==
  /\ job[p] \in {"check", "simplify"}
  /\ \E found \in Referred(on[p]) :
       /\ Begin(p, IF found # NoMeta THEN "run" ELSE "done")
       /\ view' = [view EXCEPT ![p] = found]
  /\ UNCHANGED <<storeVars, job, on, draft, lost, asked, earned, last, behind>>

\* The actions of the repro, else of the finding.
Replayable(i) == replay[i] = "whole" \/ (replay[i] = "absent" /\ HasFinding(i))

\* Mutant: what is not a failure is good enough.
MutantPromotes(was, outcome) == was.status = "quarantined" /\ outcome \notin {"fail", "flaky"}

Promotes(was, outcome) == was.status = "quarantined" /\ outcome = "pass"

\* mark_checked marks the meta that was read before the runs of every locale.
Marked(was, outcome) ==
  [was EXCEPT !.status = IF Promotes(was, outcome) THEN "required" ELSE @]

Check(p) ==
  /\ job[p] = "check" /\ pc[p] = "run"
  /\ \/ ~Replayable(on[p]) /\ GoTo(p, "done") /\ UNCHANGED <<draft, earned>>
     \/ /\ Replayable(on[p])
        /\ \E outcome \in Outcome :
             /\ draft' = [draft EXCEPT ![p] = Marked(view[p], outcome)]
             /\ earned' = IF outcome = "pass" THEN earned \cup {on[p]} ELSE earned
        /\ GoTo(p, "save")
  /\ UNCHANGED <<storeVars, job, on, view, lost, asked, last, behind, shared>>

\* A candidate that still fails is adopted: its meta carries the status.
Verify(p) ==
  /\ job[p] = "simplify" /\ pc[p] = "run"
  /\ \/ GoTo(p, "done") /\ UNCHANGED <<draft, on, asked, earned>>
     \/ /\ Replayable(Old)
        /\ draft' = [draft EXCEPT ![p] = [status |-> view[p].status, stamped |-> TRUE]]
        /\ on' = [on EXCEPT ![p] = New]
        /\ asked' = asked \cup {New}
        /\ earned' = IF view[p].status = "required" THEN earned \cup {New} ELSE earned
        /\ GoTo(p, "replay")
  /\ UNCHANGED <<storeVars, job, view, lost, last, behind, shared>>

\* Mutant: without --strict a guard is quarantined.
MutantKept(p, existing) ==
  [status |-> IF job[p] = "strict" THEN "required" ELSE "quarantined",
   stamped |-> existing = NoMeta \/ existing.stamped]

\* keep preserves the status and the stamp of a guard it finds.
Kept(p, existing) ==
  IF existing = NoMeta
  THEN [status |-> IF job[p] = "strict" THEN "required" ELSE "quarantined",
        stamped |-> TRUE]
  ELSE [existing EXCEPT !.status = IF job[p] = "strict" THEN "required" ELSE @]

Keeping(p, where) ==
  /\ Begin(p, where)
  /\ draft' = [draft EXCEPT ![p] = Kept(p, Loaded(Old))]
  /\ view' = [view EXCEPT ![p] = Loaded(Old)]
  /\ asked' = asked \cup {Old}
  /\ earned' = IF job[p] = "strict" THEN earned \cup {Old} ELSE earned

\* Mutant: a guard that is already saved has its replay.
MutantKeep(p) ==
  /\ job[p] \in {"keep", "strict"} /\ pending
  /\ Keeping(p, IF Loaded(Old) = NoMeta THEN "replay" ELSE "save")
  /\ UNCHANGED <<storeVars, job, on, lost, last, behind>>

Keep(p) ==
  /\ job[p] \in {"keep", "strict"} /\ pending
  /\ Keeping(p, "replay")
  /\ UNCHANGED <<storeVars, job, on, lost, last, behind>>

\* persist_legacy_occurrence reads nothing, and replaces replay.json at once.
Pull(p) ==
  /\ job[p] = "pull"
  /\ Begin(p, "save")
  /\ draft' = [draft EXCEPT ![p] = [status |-> "quarantined", stamped |-> TRUE]]
  /\ replay' = [replay EXCEPT ![Old] = "whole"]
  /\ asked' = asked \cup {Old}
  /\ UNCHANGED <<meta, pending, job, on, view, lost, earned, last, behind>>

-----------------------------------------------------------------------------
(* std::fs::write: the file is emptied, then written.  An error is a death. *)

EmptyReplay(p) ==
  /\ pc[p] = "replay"
  /\ replay' = [replay EXCEPT ![on[p]] = "torn"]
  /\ GoTo(p, "replaying")
  /\ UNCHANGED <<meta, pending, localVars, lost, historyVars>>

WriteReplay(p) ==
  /\ pc[p] = "replaying"
  /\ replay' = IF p \in lost THEN replay ELSE [replay EXCEPT ![on[p]] = "whole"]
  /\ lost' = lost \ {p}
  /\ GoTo(p, "save")
  /\ UNCHANGED <<meta, pending, localVars, historyVars>>

EmptyMeta(p) ==
  /\ pc[p] = "save"
  /\ meta' = [meta EXCEPT ![on[p]] = TornMeta]
  /\ GoTo(p, "saving")
  /\ UNCHANGED <<replay, pending, localVars, lost, historyVars>>

\* Where a command goes on once its meta is saved: a check may have another locale
\* to run, as often as its list has one.
Onwards(p) ==
  CASE job[p] = "check" -> {"run", "done"}
    [] job[p] = "simplify" -> {"retire"}
    [] OTHER -> {"done"}

\* The commands at work on the case of p that have read another status than p saves.
Overtaken(p) ==
  {q \in Procs : Running(q) /\ on[q] = on[p] /\ view[q].status # draft[p].status}

\* What another command has written since may stick out behind it.  The next locale
\* starts from the meta that was read for the first.
WriteMeta(p) ==
  /\ pc[p] = "saving"
  /\ IF p \in lost
     THEN UNCHANGED <<meta, last, behind>>
     ELSE /\ meta' \in {[meta EXCEPT ![on[p]] = m] :
                m \in {draft[p]} \cup (IF meta[on[p]] \in Meta THEN {TornMeta} ELSE {})}
          /\ last' = [last EXCEPT ![on[p]] = draft[p]]
          /\ behind' = behind \cup Overtaken(p)
  /\ lost' = lost \ {p}
  /\ \E where \in Onwards(p) :
       /\ GoTo(p, where)
       /\ view' = IF where = "run" THEN view ELSE [view EXCEPT ![p] = NoMeta]
  /\ draft' = [draft EXCEPT ![p] = NoMeta]
  /\ UNCHANGED <<replay, pending, job, on, asked, earned, shared>>

\* The superseded directory is to go, if it holds a kept repro.
Retire(p) ==
  /\ pc[p] = "retire"
  /\ IF replay[Old] # "absent"
     THEN GoTo(p, "retiring") /\ asked' = asked \ {Old}
     ELSE GoTo(p, "done") /\ UNCHANGED asked
  /\ UNCHANGED <<storeVars, localVars, lost, earned, last, behind, shared>>

\* remove_dir_all takes its files one by one, in any order, and whatever stops it is
\* ignored.  What another command has open in a file then has no name.
RemoveDir(p) ==
  /\ pc[p] = "retiring"
  /\ \/ /\ replay[Old] # "absent"
        /\ replay' = [replay EXCEPT ![Old] = "absent"]
        /\ lost' = lost \cup {q \in Procs : on[q] = Old /\ pc[q] = "replaying"}
        /\ UNCHANGED <<meta, pc>>
     \/ /\ meta[Old] # NoMeta
        /\ meta' = [meta EXCEPT ![Old] = NoMeta]
        /\ lost' = lost \cup {q \in Procs : on[q] = Old /\ pc[q] = "saving"}
        /\ UNCHANGED <<replay, pc>>
     \/ GoTo(p, "done") /\ UNCHANGED <<replay, meta, lost>>
  /\ UNCHANGED <<pending, localVars, historyVars>>

\* What a command has read dies with it.
Die(p) ==
  /\ Running(p)
  /\ Cardinality({q \in Procs : pc[q] = "dead"}) < MaxDeaths
  /\ GoTo(p, "dead")
  /\ shared' = TRUE
  /\ view' = [view EXCEPT ![p] = NoMeta] /\ draft' = [draft EXCEPT ![p] = NoMeta]
  /\ UNCHANGED <<storeVars, job, on, lost, asked, earned, last, behind>>

Next ==
  \E p \in Procs :
    \/ Resolve(p) \/ Check(p) \/ Verify(p) \/ Keep(p) \/ Pull(p)
    \/ EmptyReplay(p) \/ WriteReplay(p) \/ EmptyMeta(p) \/ WriteMeta(p) \/ Retire(p)
    \/ RemoveDir(p) \/ Die(p)

Spec == Init /\ [][Next]_vars

-----------------------------------------------------------------------------
(* Properties. *)

TypeOK ==
  /\ meta \in [Ids -> Meta \cup {NoMeta, TornMeta}]
  /\ replay \in [Ids -> File]
  /\ pending \in BOOLEAN
  /\ job \in [Procs -> Job]
  /\ pc \in [Procs -> {"idle", "run", "replay", "replaying", "save", "saving", "retire",
                       "retiring", "done", "dead"}]
  /\ on \in [Procs -> Ids]
  /\ view \in [Procs -> Meta \cup {NoMeta}]
  /\ draft \in [Procs -> Meta \cup {NoMeta}]
  /\ lost \subseteq Procs
  /\ asked \subseteq Ids /\ earned \subseteq Ids
  /\ last \in [Ids -> Meta \cup {NoMeta}]
  /\ behind \subseteq Procs
  /\ shared \in BOOLEAN

\* A guard blocks CI only when it was green once, was kept with --strict, or is
\* the simplification of one that did (docs/ci.md: "it does not block until its
\* first green run"), whatever commands overlap and die.
RequiredIsEarned == \A i \in Ids : last[i].status = "required" => i \in earned

\* keep.rs: "re-keeping ... must PRESERVE the existing guard's history (status
\* promotion, check results, created stamp, alias) rather than clobber it back
\* to a fresh quarantine".  A required guard falls back to quarantine only when
\*   - the saver has read a status that the store has lost since, to another command
\*     or to its own promotion in an earlier locale;
\*   - it was asked for the finding, and so starts from a fresh quarantine although
\*     a guard is saved, or a keep found meta.json absent or unreadable;
\*   - it does not read the guard it saves: a pull, and a simplification that lands
\*     on an id that was kept before.
Overwrites(p) ==
  \/ p \in behind
  \/ view[p] \in {NoMeta, PendingMeta}
  \/ job[p] \in {"pull", "simplify"}

StatusIsKept ==
  [][\A i \in Ids : last[i].status = "required" /\ last'[i].status = "quarantined" =>
       \E p \in Procs : pc[p] = "saving" /\ pc'[p] # "saving" /\ on[p] = i /\ Overwrites(p)]_vars

\* While commands run one at a time and to their end, every guard that was asked
\* for can be checked from a fresh checkout: its meta and its replay are whole.
KeptIsWhole ==
  ~shared /\ (\A p \in Procs : ~Running(p)) =>
    \A i \in asked : meta[i] \in Meta /\ replay[i] = "whole"

\* The metadata of a pending finding, with "no alias and no creation stamp", is no
\* guard: "It is never written to disk" (the comment of pending_meta).
PendingIsNeverStored == \A i \in Ids : meta[i] \in Meta => meta[i].stamped
=============================================================================
