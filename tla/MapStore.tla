------------------------------ MODULE MapStore ------------------------------
(***************************************************************************)
(* The app-map store of domain/map and the commands that use it: several   *)
(* reproit processes on one checkout check whether the committed map is    *)
(* fresh, crawl the app, and merge or replace the map.  The map, the visit *)
(* counts and the provenance stamp are three files, committed through a    *)
(* recovery journal under an exclusive file lock.                          *)
(*                                                                         *)
(* A file holds the snapshot it was written from, or Nothing while it does *)
(* not exist: appmap.json is that snapshot's rev, graph and named,         *)
(* visits.json its rev and runs, provenance.json its rev and src, and the  *)
(* journal all of them.  A screen is a pair of the source version it was   *)
(* observed in and the screen itself.                                      *)
(***************************************************************************)
EXTENDS Naturals

CONSTANTS
  Proc,            \* reproit processes, each running one command
  Kind,            \* Kind[p]: the command p runs
  Screen,          \* the screens of the app
  MaxEdits,        \* bound: edits of the project's source
  EditsDuringScan, \* may the source change while a command is under way
  MaxDeaths,       \* bound: processes killed
  MaxOutages,      \* bound: power losses
  WritesBack       \* does a killed process's last rename reach the disk
                   \* before the power can fail

File == {"journal", "visits", "map", "provenance"}

Command == {"scan", "ensure", "rebuild"}

Nobody == "nobody"

ASSUME MapStoreAssumption ==
  /\ Nobody \notin Proc
  /\ Kind \in [Proc -> Command]
  /\ Screen # {}
  /\ MaxEdits \in Nat /\ MaxDeaths \in Nat /\ MaxOutages \in Nat
  /\ EditsDuringScan \in BOOLEAN /\ WritesBack \in BOOLEAN

VARIABLES
  view,     \* the files as every process sees them
  disk,     \* the files as a power loss would leave them at worst
  lock,     \* the process that holds map.lock, or Nobody
  src,      \* the version of the source on disk
  pc,       \* where each process is
  job,      \* what it does, or will do, under the lock
  unsynced, \* its last file operation awaits the directory's fsync
  recovering, \* it is rolling the journal forward before its own job
  snap,     \* the snapshot it is writing
  seen,     \* the map it last loaded
  stamp,    \* the provenance it last read
  fresh,    \* what map_freshness told it
  crawl,    \* what its crawl observed
  losses    \* deaths and outages so far

files == <<view, disk>>
local == <<job, recovering, snap, seen, stamp, fresh, crawl>>
vars == <<files, lock, src, pc, unsynced, local, losses>>

Version == 0 .. MaxEdits

Seen == Version \X Screen

Nothing == [rev |-> 0, graph |-> {}, named |-> {}, runs |-> {}, src |-> 0]

NoCrawl == [screens |-> {}, complete |-> FALSE]

Init ==
  /\ view = [f \in File |-> Nothing]
  /\ disk = view
  /\ lock = Nobody
  /\ src = 0
  /\ pc = [p \in Proc |-> "idle"]
  /\ job = [p \in Proc |-> "load"]
  /\ unsynced = [p \in Proc |-> FALSE]
  /\ recovering = [p \in Proc |-> FALSE]
  /\ snap = [p \in Proc |-> Nothing]
  /\ seen = [p \in Proc |-> Nothing]
  /\ stamp = [p \in Proc |-> Nothing]
  /\ fresh = [p \in Proc |-> "unknown"]
  /\ crawl = [p \in Proc |-> NoCrawl]
  /\ losses = [deaths |-> 0, outages |-> 0]

GoTo(p, where) == pc' = [pc EXCEPT ![p] = where]

\* Ask for the lock, to do `what` under it.
Want(p, what) == GoTo(p, "want") /\ job' = [job EXCEPT ![p] = what]

-----------------------------------------------------------------------------
(* Under the lock: recovery first, then the job. *)

Acquire(p) ==
  /\ pc[p] = "want" /\ lock = Nobody
  /\ lock' = p
  /\ GoTo(p, "recover")
  /\ UNCHANGED <<files, src, unsynced, local, losses>>

\* Mutant: a journal left behind is not rolled forward.
MutantRecover(p) ==
  /\ pc[p] = "recover"
  /\ GoTo(p, "body")
  /\ UNCHANGED <<files, lock, src, unsynced, local, losses>>

Recover(p) ==
  /\ pc[p] = "recover"
  /\ IF view["journal"] = Nothing
     THEN GoTo(p, "body") /\ UNCHANGED <<recovering, snap>>
     ELSE /\ GoTo(p, "visits")
          /\ recovering' = [recovering EXCEPT ![p] = TRUE]
          /\ snap' = [snap EXCEPT ![p] = view["journal"]]
  /\ UNCHANGED <<files, lock, src, unsynced, job, seen, stamp, fresh, crawl, losses>>

NextStage ==
  [journal |-> "visits", visits |-> "map", map |-> "provenance", provenance |-> "remove"]

\* Each file is written to a temporary and renamed over the old one, and the
\* journal is removed last; the directory is synced after each of them.
Write(p) ==
  /\ pc[p] \in File \cup {"remove"} /\ ~unsynced[p]
  /\ view' = IF pc[p] = "remove"
             THEN [view EXCEPT !["journal"] = Nothing]
             ELSE [view EXCEPT ![pc[p]] = snap[p]]
  /\ unsynced' = [unsynced EXCEPT ![p] = TRUE]
  /\ UNCHANGED <<disk, lock, src, pc, local, losses>>

\* Mutant: the directory is never synced.
MutantSync(p) ==
  /\ unsynced[p]
  /\ unsynced' = [unsynced EXCEPT ![p] = FALSE]
  /\ IF pc[p] # "remove" THEN GoTo(p, NextStage[pc[p]])
     ELSE GoTo(p, IF recovering[p] THEN "body" ELSE "release")
  /\ recovering' = [recovering EXCEPT ![p] = @ /\ pc[p] # "remove"]
  /\ UNCHANGED <<files, lock, src, job, snap, seen, stamp, fresh, crawl, losses>>

Sync(p) ==
  /\ unsynced[p]
  /\ disk' = view
  /\ unsynced' = [unsynced EXCEPT ![p] = FALSE]
  /\ IF pc[p] # "remove" THEN GoTo(p, NextStage[pc[p]])
     ELSE GoTo(p, IF recovering[p] THEN "body" ELSE "release")
  /\ recovering' = [recovering EXCEPT ![p] = @ /\ pc[p] # "remove"]
  /\ UNCHANGED <<view, lock, src, job, snap, seen, stamp, fresh, crawl, losses>>

\* A map that does not exist is loaded as an empty one of revision 1.
Revision == IF view["map"] = Nothing THEN 1 ELSE view["map"].rev

\* load_visits_unlocked refuses visits that belong to another revision.
Mixed == view["visits"] # Nothing /\ view["visits"].rev # Revision

\* A refusal returns an error, which drops the lock.
Fail(p) == GoTo(p, "failed") /\ lock' = Nobody

Load(p) ==
  /\ pc[p] = "body" /\ job[p] \in {"load", "names"}
  /\ IF job[p] = "load" /\ view["map"] # Nothing /\ Mixed
     THEN Fail(p) /\ UNCHANGED seen
     ELSE GoTo(p, "release") /\ seen' = [seen EXCEPT ![p] = view["map"]] /\ UNCHANGED lock
  /\ UNCHANGED <<files, src, unsynced, job, recovering, snap, stamp, fresh, crawl, losses>>

\* Mutant: the three files are replaced without a journal.
MutantSave(p, s) ==
  /\ snap' = [snap EXCEPT ![p] = [s EXCEPT !.src = src]]
  /\ GoTo(p, "visits")

\* save_snapshot: stamp the snapshot with the source as it is now, and write.
Save(p, s) ==
  /\ snap' = [snap EXCEPT ![p] = [s EXCEPT !.src = src]]
  /\ GoTo(p, "journal")

\* Mutant: a stale map is merged into instead of replaced.
MutantReplacing(p) == Kind[p] = "rebuild"

Replacing(p) == Kind[p] = "rebuild" \/ fresh[p] = "Stale"

\* Mutant: the run is absorbed into the map loaded before the crawl.
MutantBase(p) ==
  [(IF Replacing(p) THEN Nothing ELSE seen[p])
     EXCEPT !.rev = IF seen[p] = Nothing THEN 1 ELSE seen[p].rev]

\* The graph and visits a run is absorbed into: those of the existing map, or
\* empty ones that carry on its revision; a new map starts at revision 1.
Base(p) ==
  [(IF Replacing(p) THEN Nothing ELSE [view["map"] EXCEPT !.runs = view["visits"].runs])
     EXCEPT !.rev = Revision]

\* absorb_obs_inmem: union the screens in, revise the map if that changed it.
Absorbed(base, screens, p) ==
  [base EXCEPT !.graph = @ \cup screens,
               !.runs = @ \cup {p},
               !.rev = IF screens \subseteq base.graph THEN @ ELSE @ + 1]

Commit(p) ==
  /\ pc[p] = "body" /\ job[p] = "commit"
  /\ IF ~Replacing(p) /\ Mixed
     THEN Fail(p) /\ UNCHANGED snap
     ELSE Save(p, Absorbed(Base(p), crawl[p].screens, p)) /\ UNCHANGED lock
  /\ UNCHANGED <<files, src, unsynced, job, recovering, seen, stamp, fresh, crawl, losses>>

\* apply_state_labels: of the screens this process last saw, those that are
\* still there may get a new name.
Label(p) ==
  /\ pc[p] = "body" /\ job[p] = "label"
  /\ LET now == [view["map"] EXCEPT !.runs = view["visits"].runs]
     IN \/ Mixed /\ Fail(p) /\ UNCHANGED snap
        \/ /\ ~Mixed
           /\ \E changed \in SUBSET (now.graph \cap seen[p].graph) :
                IF changed = {} THEN GoTo(p, "release") /\ UNCHANGED snap
                ELSE Save(p, [now EXCEPT !.rev = @ + 1, !.named = @ \cup changed])
           /\ UNCHANGED lock
  /\ UNCHANGED <<files, src, unsynced, job, recovering, seen, stamp, fresh, crawl, losses>>

\* What each command does once its job under the lock is done; the pass that
\* makes up the names may fail.
Release(p) ==
  /\ pc[p] = "release"
  /\ lock' = Nobody
  /\ \/ job[p] = "load" /\ GoTo(p, "compare") /\ UNCHANGED job
     \/ job[p] = "commit" /\ Kind[p] = "rebuild" /\ Want(p, "names")
     \/ job[p] = "names" /\ Want(p, "label")
     \/ job[p] = "names" /\ GoTo(p, "returned") /\ UNCHANGED job
     \/ /\ job[p] = "label" \/ (job[p] = "commit" /\ Kind[p] # "rebuild")
        /\ GoTo(p, "returned") /\ UNCHANGED job
  /\ UNCHANGED <<files, src, unsynced, recovering, snap, seen, stamp, fresh, crawl, losses>>

-----------------------------------------------------------------------------
(* The commands: scan, a command that needs a map (ensure_app_map), and the *)
(* unconditional rebuild of `debug map structural --label`.                 *)

Start(p) ==
  /\ pc[p] = "idle"
  /\ IF Kind[p] = "rebuild" THEN GoTo(p, "crawl") /\ UNCHANGED job ELSE Want(p, "load")
  /\ UNCHANGED <<files, lock, src, unsynced, recovering, snap, seen, stamp, fresh, crawl, losses>>

\* map_freshness compares a map loaded under the lock with a stamp and then a
\* source tree that are read after the lock was released.  The age at which a map
\* of a target without a checkout turns stale is left out.
FreshnessOf(map, mark) ==
  IF map = Nothing THEN "Missing"
  ELSE IF mark # Nothing /\ mark.src = src /\ mark.rev = map.rev THEN "Current"
  ELSE "Stale"

ReadStamp(p) ==
  /\ pc[p] = "compare"
  /\ stamp' = [stamp EXCEPT ![p] = view["provenance"]]
  /\ GoTo(p, "fingerprint")
  /\ UNCHANGED <<files, lock, src, unsynced, job, recovering, snap, seen, fresh, crawl, losses>>

Compare(p) ==
  /\ pc[p] = "fingerprint"
  /\ LET answer == FreshnessOf(seen[p], stamp[p])
     IN /\ fresh' = [fresh EXCEPT ![p] = answer]
        /\ GoTo(p, IF Kind[p] = "ensure" /\ answer = "Current" THEN "returned" ELSE "crawl")
  /\ UNCHANGED <<files, lock, src, unsynced, job, recovering, snap, seen, stamp, crawl, losses>>

\* Mutant: an incomplete scan may also create the first map.
MutantMayCommit(p, observed) ==
  /\ observed.screens # {}
  /\ observed.complete \/ (Kind[p] = "scan" /\ fresh[p] # "Stale")

\* scan_map_commit for a scan; commit_map_run refuses every incomplete crawl,
\* and neither commits a crawl that saw nothing.
MayCommit(p, observed) ==
  /\ observed.screens # {}
  /\ observed.complete \/ (Kind[p] = "scan" /\ fresh[p] = "Current")

\* An app that a challenge page hides (EXPLORE:UNSCANNABLE) is no error to
\* commit_map_run: with a map from before, a rebuild goes on to label that one.
MayLabelOnly(p, observed) ==
  /\ Kind[p] = "rebuild" /\ view["map"] # Nothing
  /\ observed.screens = {} /\ observed.complete

\* The crawl observes the app as built from the source it finds.  A crawl that
\* met its work limit counts as complete without having seen every screen.
Crawl(p) ==
  /\ pc[p] = "crawl"
  /\ \E some \in SUBSET Screen, complete \in BOOLEAN :
       LET observed == [screens |-> {src} \X some, complete |-> complete]
       IN /\ crawl' = [crawl EXCEPT ![p] = observed]
          /\ \/ MayCommit(p, observed) /\ Want(p, "commit")
             \/ MayLabelOnly(p, observed) /\ Want(p, "names")
             \/ ~MayCommit(p, observed) /\ GoTo(p, "returned") /\ UNCHANGED job
  /\ UNCHANGED <<files, lock, src, unsynced, recovering, snap, seen, stamp, fresh, losses>>

-----------------------------------------------------------------------------
(* The environment. *)

Busy(p) == pc[p] \notin {"idle", "returned", "failed", "dead"}

Edit ==
  /\ src < MaxEdits
  /\ EditsDuringScan \/ \A p \in Proc : ~Busy(p)
  /\ src' = src + 1
  /\ UNCHANGED <<files, lock, pc, unsynced, local, losses>>

\* Mutant: the lock is a file that outlives its owner.
MutantDie(p) ==
  /\ Busy(p) /\ losses.deaths < MaxDeaths
  /\ losses' = [losses EXCEPT !.deaths = @ + 1]
  /\ GoTo(p, "dead")
  /\ unsynced' = [unsynced EXCEPT ![p] = FALSE]
  /\ disk' = IF WritesBack THEN view ELSE disk
  /\ UNCHANGED <<view, lock, src, local>>

\* A process that dies, or returns an error from a write, drops the lock.  Its
\* last rename is still seen by everybody, and on the disk only if the system
\* wrote the directory back.
Die(p) ==
  /\ Busy(p) /\ losses.deaths < MaxDeaths
  /\ losses' = [losses EXCEPT !.deaths = @ + 1]
  /\ lock' = IF lock = p THEN Nobody ELSE lock
  /\ GoTo(p, "dead")
  /\ unsynced' = [unsynced EXCEPT ![p] = FALSE]
  /\ disk' = IF WritesBack THEN view ELSE disk
  /\ UNCHANGED <<view, src, local>>

\* Each directory entry not yet synced survives or not.
PowerLoss ==
  /\ losses.outages < MaxOutages
  /\ losses' = [losses EXCEPT !.outages = @ + 1]
  /\ \E kept \in SUBSET File :
       view' = [f \in File |-> IF f \in kept THEN view[f] ELSE disk[f]]
  /\ disk' = view'
  /\ lock' = Nobody
  /\ pc' = [p \in Proc |-> IF Busy(p) THEN "dead" ELSE pc[p]]
  /\ unsynced' = [p \in Proc |-> FALSE]
  /\ UNCHANGED <<src, local>>

Work(p) ==
  \/ Acquire(p) \/ Recover(p) \/ Write(p) \/ Sync(p)
  \/ Load(p) \/ Commit(p) \/ Label(p) \/ Release(p)
  \/ ReadStamp(p) \/ Compare(p) \/ Crawl(p)

Next ==
  \/ \E p \in Proc : Start(p)
  \/ \E p \in Proc : Acquire(p)
  \/ \E p \in Proc : Recover(p)
  \/ \E p \in Proc : Write(p)
  \/ \E p \in Proc : Sync(p)
  \/ \E p \in Proc : Load(p)
  \/ \E p \in Proc : Commit(p)
  \/ \E p \in Proc : Label(p)
  \/ \E p \in Proc : Release(p)
  \/ \E p \in Proc : ReadStamp(p)
  \/ \E p \in Proc : Compare(p)
  \/ \E p \in Proc : Crawl(p)
  \/ \E p \in Proc : Die(p)
  \/ Edit
  \/ PowerLoss

Spec == Init /\ [][Next]_vars

\* A command under way keeps running, and flock is granted to some waiter once
\* it is free; starting a command, edits and losses are nobody's duty.
FairSpec == Spec /\ \A p \in Proc : WF_vars(Work(p))

-----------------------------------------------------------------------------
(* Properties. *)

Snapshot ==
  [rev : Nat, graph : SUBSET Seen, named : SUBSET Seen,
   runs : SUBSET Proc, src : Version]

\* Types of every variable.
TypeOK ==
  /\ view \in [File -> Snapshot] /\ disk \in [File -> Snapshot]
  /\ lock \in Proc \cup {Nobody}
  /\ src \in Version
  /\ pc \in [Proc -> {"idle", "want", "recover", "body", "release", "compare",
                      "fingerprint", "crawl",
                      "remove", "returned", "failed", "dead"} \cup File]
  /\ job \in [Proc -> {"load", "commit", "names", "label"}]
  /\ unsynced \in [Proc -> BOOLEAN] /\ recovering \in [Proc -> BOOLEAN]
  /\ snap \in [Proc -> Snapshot] /\ seen \in [Proc -> Snapshot]
  /\ stamp \in [Proc -> Snapshot]
  /\ fresh \in [Proc -> {"unknown", "Missing", "Current", "Stale"}]
  /\ crawl \in [Proc -> [screens : SUBSET Seen, complete : BOOLEAN]]
  /\ losses \in [deaths : 0 .. MaxDeaths, outages : 0 .. MaxOutages]

\* The snapshot that is committed: the journal's once it is durable, and the
\* map's when there is no journal to roll forward.
Committed == IF disk["journal"] # Nothing THEN disk["journal"] ELSE disk["map"]

\* No command is ever refused a snapshot: a crash at any point leaves files
\* that recovery turns into one revision ("refusing a partial snapshot").
NeverRefused == \A p \in Proc : pc[p] # "failed"

\* A job never starts on files of different commits, even of one revision.
WholeUnderLock ==
  \A p \in Proc : pc[p] = "body" =>
    /\ view["journal"] = Nothing
    /\ view["visits"] = view["map"] /\ view["provenance"] = view["map"]

\* A commit that was reported done is in the committed snapshot, on disk, and
\* stays there until a replacement drops the runs before it.
ReportedIsDurable ==
  [][\A p \in Proc :
       pc[p] = "release" /\ job[p] = "commit" /\ pc'[p] # "release" /\ pc'[p] # "dead"
         => p \in Committed'.runs]_vars

\* What map_freshness would answer for the committed snapshot.
CommittedFreshness == FreshnessOf(Committed, Committed)

\* The committed map counts as current and shows s as another source had it.
Misleads(s) == CommittedFreshness = "Current" /\ s \in Committed.graph /\ s[1] # src

\* A rebuild whose crawl saw nothing is about to commit its new names.
LabelsBlindly(p) == pc[p] = "journal" /\ job[p] = "label" /\ crawl[p].screens = {}

\* The promise in commit_map_run: the stamp is compared with "actual project
\* inputs", so a map that counts as current shows only screens of the current
\* source.  While nobody edits the source under a command, one thing alone
\* breaks it: a rebuild that saw no screen labels the map it finds, and save_snapshot
\* stamps that with the current source.  Merging, replacing and labelling after a
\* commit, a death and a recovery never bring an old screen into a current map.
OldScreensStayOut ==
  [][\A s \in Seen : Misleads(s)' /\ ~Misleads(s) => \E p \in Proc : LabelsBlindly(p)]_vars

\* scan_map_commit: "an incomplete scan may only merge into an already-current
\* graph".
IncompleteOnlyIntoCurrent ==
  [][\A p \in Proc :
       (Commit(p) /\ pc'[p] = "journal" /\ ~crawl[p].complete)
         => CommittedFreshness = "Current"]_vars

\* Every command that is under way ends, whatever died before it.
EveryCommandEnds == \A p \in Proc : Busy(p) ~> ~Busy(p)

\* The files, lock, journal and recovery implement one atomic snapshot.
Abstract == INSTANCE SnapshotStore WITH current <- Committed

ImplementsSnapshotStore == Abstract!Spec
=============================================================================
