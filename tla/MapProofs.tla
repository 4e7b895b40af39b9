------------------------------ MODULE MapProofs ------------------------------
(***************************************************************************)
(* Proofs about MapStore, for every set of processes, screens and losses.  *)
(***************************************************************************)
EXTENDS MapStore, TLAPS

\* The places of a process that writes a snapshot, and of one that has the lock.
Stage == File \cup {"remove"}

Held == Stage \cup {"recover", "body", "release"}

\* The process that is under the lock is the one that holds it.
LockIsHeld == \A p \in Proc : pc[p] \in Held <=> lock = p

\* Only a writer waits for the directory, and recovery writes no journal.
OnlyWritersWait ==
  \A p \in Proc :
    /\ unsynced[p] => pc[p] \in Stage
    /\ recovering[p] => pc[p] \in {"visits", "map", "provenance", "remove", "dead"}

-----------------------------------------------------------------------------
(* The files. *)

\* The three files are of one commit, and no journal waits.
Even(fs) ==
  /\ fs["journal"] = Nothing
  /\ fs["visits"] = fs["map"] /\ fs["provenance"] = fs["map"]

Recoverable(fs) == Even(fs) \/ fs["journal"] # Nothing

\* What the files have when a writer of s comes to a place.
Reached(fs, stage, s) ==
  /\ stage = "journal" => Even(fs)
  /\ stage \in {"visits", "map", "provenance", "remove"} => fs["journal"] = s
  /\ stage \in {"map", "provenance", "remove"} => fs["visits"] = s
  /\ stage \in {"provenance", "remove"} => fs["map"] = s
  /\ stage = "remove" => fs["provenance"] = s
  /\ stage = "done" => Even(fs) /\ fs["map"] = s

After(stage) == IF stage = "remove" THEN "done" ELSE NextStage[stage]

FileOf(stage) == IF stage = "remove" THEN "journal" ELSE stage

\* A killed process leaves a disk that is in step, or none is killed.
DeathsAreSynced == WritesBack \/ MaxDeaths = 0

\* No power is lost where a death may have left the disk behind.
LossesDontMix == DeathsAreSynced \/ MaxOutages = 0

\* The disk is behind by the one file that is not synced.
OneFileBehind ==
  DeathsAreSynced =>
    \A f \in File :
      view[f] = disk[f] \/ \E p \in Proc : unsynced[p] /\ f = FileOf(pc[p])

AlwaysRecoverable == Recoverable(view) /\ (DeathsAreSynced => Recoverable(disk))

\* Where a writer is says what the files have.
WriterInStep ==
  \A p \in Proc : pc[p] \in Stage =>
    /\ snap[p] # Nothing
    /\ Reached(view, IF unsynced[p] THEN After(pc[p]) ELSE pc[p], snap[p])
    /\ DeathsAreSynced => disk["journal"] \in {Nothing, snap[p]}
    /\ pc[p] \in {"map", "provenance"} \/ (pc[p] = "remove" /\ ~unsynced[p]) =>
         disk["journal"] = snap[p]

JobSeesOneCommit == \A p \in Proc : pc[p] \in {"body", "release"} => Even(view)

FilesInv == OneFileBehind /\ AlwaysRecoverable /\ WriterInStep /\ JobSeesOneCommit

-----------------------------------------------------------------------------
(* The snapshots. *)

CommittedOf(fs) == IF fs["journal"] # Nothing THEN fs["journal"] ELSE fs["map"]

InUse(s) == (\E f \in File : s \in {view[f], disk[f]}) \/ \E p \in Proc : s = snap[p]

\* p has come to write its run.
HasCommitted(p) ==
  \/ job[p] \in {"names", "label"}
  \/ /\ job[p] = "commit" /\ ~recovering[p]
     /\ pc[p] \in Stage \cup {"release", "returned", "failed", "dead"}

\* A snapshot has the runs of those that came to write one, and no screen
\* without a run.
RunsWereMade ==
  \A s \in Snapshot : InUse(s) =>
    /\ \A p \in s.runs : HasCommitted(p)
    /\ s.runs = {} => s.graph = {}

\* A commit has screens to commit, and comes after everything else.
CrawlComesFirst ==
  \A p \in Proc :
    /\ pc[p] \in {"idle", "compare", "fingerprint", "crawl"} => job[p] = "load"
    /\ job[p] = "commit" => crawl[p].screens # {}

\* What the promise of the store asks of the next snapshot.
Follows(old, new) ==
  /\ Abstract!AbsorbsRun(old, new) \/ Abstract!NamesScreens(old, new)
  /\ Abstract!Revised(old, new)
  /\ Abstract!KeepsGraph(old, new)

\* What a writer is about to commit follows what is committed, and has its run.
WriterFollows ==
  \A p \in Proc :
    /\ pc[p] = "journal" => Follows(view["map"], snap[p])
    /\ pc[p] \in Stage /\ ~recovering[p] =>
         job[p] \in {"commit", "label"} /\ (job[p] = "commit" => p \in snap[p].runs)
    /\ pc[p] = "release" /\ job[p] = "commit" => p \in view["map"].runs

SnapshotsInv == RunsWereMade /\ CrawlComesFirst /\ WriterFollows

\* However far the disk is behind, what everybody sees is what is committed, or a
\* journal that follows it.
DiskFollows ==
  \/ CommittedOf(view) = Committed
  \/ view["journal"] # Nothing /\ Follows(Committed, view["journal"])

-----------------------------------------------------------------------------
(* Types. *)

\* The files by name, and the values that exist from the start.
LEMMA FileFacts ==
  /\ File = {"journal", "visits", "map", "provenance"}
  /\ Nothing \in Snapshot
  /\ 0 \in Version
BY MapStoreAssumption DEF File, Nothing, Snapshot, Version

\* Absorbing a run gives a snapshot.
LEMMA AbsorbedTypes ==
  ASSUME TypeOK, NEW p \in Proc
  PROVE  /\ Revision \in Nat
         /\ Base(p) \in Snapshot
         /\ \A base \in Snapshot : Absorbed(base, crawl[p].screens, p) \in Snapshot
<1>1. view["map"] \in Snapshot /\ view["visits"] \in Snapshot
  BY FileFacts DEF TypeOK
<1>2. Revision \in Nat
  BY <1>1 DEF Revision, Snapshot
<1>3. Base(p) \in Snapshot
  BY <1>1, <1>2, FileFacts DEF Base, Snapshot
<1>4. ASSUME NEW base \in Snapshot
      PROVE  Absorbed(base, crawl[p].screens, p) \in Snapshot
  <2>1. crawl[p].screens \in SUBSET Seen
    BY DEF TypeOK
  <2>2. base.graph \cup crawl[p].screens \in SUBSET Seen /\ base.runs \cup {p} \in SUBSET Proc
    BY <2>1 DEF Snapshot
  <2> DEFINE rev == IF crawl[p].screens \subseteq base.graph THEN base.rev ELSE base.rev + 1
  <2>3. rev \in Nat
    BY DEF Snapshot
  <2> HIDE DEF rev
  <2>4. Absorbed(base, crawl[p].screens, p) =
          [base EXCEPT !.graph = base.graph \cup crawl[p].screens, !.runs = base.runs \cup {p},
                       !.rev = rev]
    BY DEF Absorbed, rev
  <2> QED BY <2>2, <2>3, <2>4 DEF Snapshot
<1> QED BY <1>2, <1>3, <1>4

\* Stamping a snapshot gives a snapshot.
LEMMA StampedTypes ==
  ASSUME TypeOK, NEW s \in Snapshot
  PROVE  [s EXCEPT !.src = src] \in Snapshot
BY DEF TypeOK, Snapshot

\* Naming screens gives a snapshot.
LEMMA NamedTypes ==
  ASSUME NEW s \in Snapshot, NEW names \in SUBSET Seen
  PROVE  [s EXCEPT !.rev = @ + 1, !.named = @ \cup names] \in Snapshot
<1>1. s.rev + 1 \in Nat /\ s.named \cup names \in SUBSET Seen
  BY DEF Snapshot
<1>2. \A r \in Nat, n \in SUBSET Seen : [s EXCEPT !.rev = r, !.named = n] \in Snapshot
  BY DEF Snapshot
<1> QED BY <1>1, <1>2

\* The store starts with values of its types.
LEMMA TypesInit == Init => TypeOK
<1> SUFFICES ASSUME Init PROVE TypeOK
  OBVIOUS
<1>1. NoCrawl \in [screens : SUBSET Seen, complete : BOOLEAN]
  BY DEF NoCrawl
<1> QED BY <1>1, FileFacts, MapStoreAssumption DEF Init, TypeOK

\* Every step keeps the types.
LEMMA TypesNext == TypeOK /\ OnlyWritersWait /\ [Next]_vars => TypeOK'
<1> SUFFICES ASSUME TypeOK, OnlyWritersWait, [Next]_vars PROVE TypeOK'
  OBVIOUS
<1> USE DEF TypeOK
<1>1. ASSUME NEW p \in Proc, Start(p) PROVE TypeOK'
  BY <1>1 DEF Start, Want, GoTo, files, local
<1>2. ASSUME NEW p \in Proc, Acquire(p) PROVE TypeOK'
  BY <1>2 DEF Acquire, GoTo, files, local
<1>3. ASSUME NEW p \in Proc, Recover(p) PROVE TypeOK'
  BY <1>3, FileFacts DEF Recover, GoTo, files
<1>4. ASSUME NEW p \in Proc, Write(p) PROVE TypeOK'
  BY <1>4, FileFacts DEF Write, local
<1>5. ASSUME NEW p \in Proc, Sync(p) PROVE TypeOK'
  <2>1. pc' \in [Proc -> {"idle", "want", "recover", "body", "release", "compare",
                      "fingerprint", "crawl",
                      "remove", "returned", "failed", "dead"} \cup File]
    <3>1. CASE pc[p] \in File
      <4>1. NextStage[pc[p]] \in File \cup {"remove"}
        BY <3>1 DEF NextStage, File
      <4>2. pc' = [pc EXCEPT ![p] = NextStage[pc[p]]]
        BY <1>5, <3>1, FileFacts DEF Sync, GoTo
      <4> QED BY <4>1, <4>2
    <3>2. CASE pc[p] = "remove"
      BY <1>5, <3>2 DEF Sync, GoTo
    <3> QED BY <1>5, <3>1, <3>2 DEF Sync, OnlyWritersWait, Stage
  <2> QED BY <1>5, <2>1 DEF Sync
<1>6. ASSUME NEW p \in Proc, Load(p) PROVE TypeOK'
  BY <1>6, FileFacts DEF Load, Fail, GoTo, files
<1>7. ASSUME NEW p \in Proc, Commit(p) PROVE TypeOK'
  <2> DEFINE new == [Absorbed(Base(p), crawl[p].screens, p) EXCEPT !.src = src]
  <2>1. new \in Snapshot
    BY AbsorbedTypes, StampedTypes
  <2>2. snap' \in [Proc -> Snapshot]
    BY <1>7, <2>1 DEF Commit, Save
  <2>3. /\ pc' \in [Proc -> {"idle", "want", "recover", "body", "release", "compare",
                      "fingerprint", "crawl",
                      "remove", "returned", "failed", "dead"} \cup File]
        /\ lock' \in Proc \cup {Nobody}
    BY <1>7, FileFacts DEF Commit, Save, Fail, GoTo
  <2> QED BY <1>7, <2>2, <2>3 DEF Commit, files
<1>8. ASSUME NEW p \in Proc, Label(p) PROVE TypeOK'
  <2> DEFINE now == [view["map"] EXCEPT !.runs = view["visits"].runs]
             new(names) == [now EXCEPT !.rev = @ + 1, !.named = @ \cup names]
  <2>0. view["map"] \in Snapshot /\ view["visits"] \in Snapshot /\ seen[p] \in Snapshot
    BY FileFacts
  <2>1. \A names \in SUBSET (now.graph \cap seen[p].graph) : new(names) \in Snapshot
    <3>1. now \in Snapshot /\ now.graph \cap seen[p].graph \in SUBSET Seen
      BY <2>0 DEF Snapshot
    <3> QED BY <3>1, NamedTypes
  <2>2. snap' \in [Proc -> Snapshot]
    <3>1. ASSUME NEW names \in SUBSET (now.graph \cap seen[p].graph), Save(p, new(names))
          PROVE  snap' \in [Proc -> Snapshot]
      <4>1. [new(names) EXCEPT !.src = src] \in Snapshot
        BY <2>1, StampedTypes
      <4> QED BY <3>1, <4>1 DEF Save
    <3>2. snap' = snap \/ \E names \in SUBSET (now.graph \cap seen[p].graph) : Save(p, new(names))
      BY <1>8 DEF Label
    <3> QED BY <3>1, <3>2
  <2>3. /\ pc' \in [Proc -> {"idle", "want", "recover", "body", "release", "compare",
                      "fingerprint", "crawl",
                      "remove", "returned", "failed", "dead"} \cup File]
        /\ lock' \in Proc \cup {Nobody}
    BY <1>8, FileFacts DEF Label, Save, Fail, GoTo
  <2> QED BY <1>8, <2>2, <2>3 DEF Label, files
<1>9. ASSUME NEW p \in Proc, Release(p) PROVE TypeOK'
  BY <1>9 DEF Release, Want, GoTo, files
<1>10. ASSUME NEW p \in Proc, ReadStamp(p) PROVE TypeOK'
  BY <1>10, FileFacts DEF ReadStamp, GoTo, files
<1>11. ASSUME NEW p \in Proc, Compare(p) PROVE TypeOK'
  <2>1. FreshnessOf(seen[p], stamp[p]) \in {"Missing", "Current", "Stale"}
    BY DEF FreshnessOf
  <2> QED BY <1>11, <2>1 DEF Compare, GoTo, files
<1>12. ASSUME NEW p \in Proc, Crawl(p) PROVE TypeOK'
  <2>1. crawl' \in [Proc -> [screens : SUBSET Seen, complete : BOOLEAN]]
    BY <1>12 DEF Crawl, Seen
  <2> QED BY <1>12, <2>1 DEF Crawl, Want, GoTo, files
<1>13. ASSUME NEW p \in Proc, Die(p) PROVE TypeOK'
  BY <1>13, MapStoreAssumption DEF Die, GoTo, local
<1>14. CASE Edit
  BY <1>14, MapStoreAssumption DEF Edit, files, local, Version
<1>15. CASE PowerLoss
  <2>1. view' \in [File -> Snapshot]
    BY <1>15 DEF PowerLoss
  <2>2. losses' \in [deaths : 0 .. MaxDeaths, outages : 0 .. MaxOutages]
    BY <1>15, MapStoreAssumption DEF PowerLoss
  <2> QED BY <1>15, <2>1, <2>2 DEF PowerLoss, local
<1>16. CASE UNCHANGED vars
  BY <1>16 DEF vars, files, local
<1> QED
  BY <1>1, <1>2, <1>3, <1>4, <1>5, <1>6, <1>7, <1>8, <1>9, <1>10, <1>11, <1>12,
     <1>13, <1>14, <1>15, <1>16 DEF Next

-----------------------------------------------------------------------------
\* The store starts unlocked, and with nothing to write.
LEMMA LocksInit == Init => LockIsHeld /\ OnlyWritersWait
BY MapStoreAssumption DEF Init, LockIsHeld, OnlyWritersWait, Held, Stage, File

\* A process that moves between places outside the lock, or inside it.
LEMMA MoveKeepsLocks ==
  ASSUME TypeOK, LockIsHeld, OnlyWritersWait, NEW p \in Proc, NEW w,
         pc' = [pc EXCEPT ![p] = w], w \in Held <=> pc[p] \in Held,
         UNCHANGED <<lock, unsynced, recovering>>, ~unsynced[p], ~recovering[p]
  PROVE  (LockIsHeld /\ OnlyWritersWait)'
BY DEF TypeOK, LockIsHeld, OnlyWritersWait

\* A process that leaves the lock.
LEMMA LeaveKeepsLocks ==
  ASSUME TypeOK, LockIsHeld, OnlyWritersWait, NEW p \in Proc, NEW w,
         pc' = [pc EXCEPT ![p] = w], w \notin Held, pc[p] \in Held, lock' = Nobody,
         UNCHANGED <<unsynced, recovering>>, ~unsynced[p], ~recovering[p]
  PROVE  (LockIsHeld /\ OnlyWritersWait)'
BY MapStoreAssumption DEF TypeOK, LockIsHeld, OnlyWritersWait

\* Every step keeps the lock with the process that is under it.
LEMMA LocksNext ==
  TypeOK /\ LockIsHeld /\ OnlyWritersWait /\ [Next]_vars => (LockIsHeld /\ OnlyWritersWait)'
<1> SUFFICES ASSUME TypeOK, LockIsHeld, OnlyWritersWait, [Next]_vars
             PROVE  (LockIsHeld /\ OnlyWritersWait)'
  OBVIOUS
<1> DEFINE Kept == (LockIsHeld /\ OnlyWritersWait)'
<1>1. ASSUME NEW p \in Proc, Start(p) PROVE Kept
  <2>1. PICK w \in {"crawl", "want"} : pc' = [pc EXCEPT ![p] = w]
    BY <1>1 DEF Start, Want, GoTo
  <2>2. ~unsynced[p] /\ ~recovering[p] /\ pc[p] \notin Held /\ w \notin Held
    BY <1>1 DEF Start, OnlyWritersWait, Held, Stage, File
  <2> QED BY <1>1, <2>1, <2>2, MoveKeepsLocks DEF Start
<1>2. ASSUME NEW p \in Proc, Acquire(p) PROVE Kept
  BY <1>2, MapStoreAssumption
  DEF Acquire, GoTo, local, TypeOK, LockIsHeld, OnlyWritersWait, Held, Stage, File
<1>3. ASSUME NEW p \in Proc, Recover(p) PROVE Kept
  <2>1. ~unsynced[p] /\ ~recovering[p]
    BY <1>3 DEF Recover, OnlyWritersWait, Stage, File
  <2>2. CASE view["journal"] = Nothing
    BY <1>3, <2>1, <2>2, MoveKeepsLocks DEF Recover, GoTo, Held
  <2>3. CASE view["journal"] # Nothing
    <3>1. LockIsHeld'
      BY <1>3, <2>3 DEF Recover, GoTo, TypeOK, LockIsHeld, Held, Stage, File
    <3>2. OnlyWritersWait'
      BY <1>3, <2>1, <2>3 DEF Recover, GoTo, TypeOK, OnlyWritersWait, Stage, File
    <3> QED BY <3>1, <3>2
  <2> QED BY <2>2, <2>3
<1>4. ASSUME NEW p \in Proc, Write(p) PROVE Kept
  BY <1>4 DEF Write, local, TypeOK, LockIsHeld, OnlyWritersWait, Stage
<1>5. ASSUME NEW p \in Proc, Sync(p) PROVE Kept
  <2>0. pc[p] \in Stage
    BY <1>5 DEF Sync, OnlyWritersWait
  <2>1. PICK w \in {"visits", "map", "provenance", "remove", "body", "release"} :
          /\ pc' = [pc EXCEPT ![p] = w]
          /\ pc[p] # "remove" => w \in {"visits", "map", "provenance", "remove"}
    <3>1. CASE pc[p] # "remove"
      <4>1. NextStage[pc[p]] \in {"visits", "map", "provenance", "remove"}
        BY <2>0, <3>1 DEF NextStage, Stage, File
      <4> QED BY <1>5, <3>1, <4>1 DEF Sync, GoTo
    <3>2. CASE pc[p] = "remove"
      BY <1>5, <3>2 DEF Sync, GoTo
    <3> QED BY <3>1, <3>2
  <2>2. LockIsHeld'
    BY <1>5, <2>0, <2>1 DEF Sync, TypeOK, LockIsHeld, Held, Stage, File
  <2>3. \A q \in Proc : recovering'[q] = (recovering[q] /\ (q = p => pc[p] # "remove"))
    BY <1>5 DEF Sync, TypeOK
  <2>4. OnlyWritersWait'
    BY <1>5, <2>1, <2>3 DEF Sync, TypeOK, OnlyWritersWait, Stage, File
  <2> QED BY <2>2, <2>4
<1>6. ASSUME NEW p \in Proc, Load(p) PROVE Kept
  <2>1. ~unsynced[p] /\ ~recovering[p]
    BY <1>6 DEF Load, OnlyWritersWait, Stage, File
  <2>2. CASE pc' = [pc EXCEPT ![p] = "failed"] /\ lock' = Nobody
    BY <1>6, <2>1, <2>2, LeaveKeepsLocks DEF Load, Held, Stage, File
  <2>3. CASE pc' = [pc EXCEPT ![p] = "release"] /\ lock' = lock
    BY <1>6, <2>1, <2>3, MoveKeepsLocks DEF Load, Held
  <2> QED BY <1>6, <2>2, <2>3 DEF Load, Fail, GoTo
<1>7. ASSUME NEW p \in Proc, Commit(p) PROVE Kept
  <2>1. ~unsynced[p] /\ ~recovering[p]
    BY <1>7 DEF Commit, OnlyWritersWait, Stage, File
  <2>2. CASE pc' = [pc EXCEPT ![p] = "failed"] /\ lock' = Nobody
    BY <1>7, <2>1, <2>2, LeaveKeepsLocks DEF Commit, Held, Stage, File
  <2>3. CASE pc' = [pc EXCEPT ![p] = "journal"] /\ lock' = lock
    BY <1>7, <2>1, <2>3, MoveKeepsLocks DEF Commit, Held, Stage, File
  <2> QED BY <1>7, <2>2, <2>3 DEF Commit, Save, Fail, GoTo
<1>8. ASSUME NEW p \in Proc, Label(p) PROVE Kept
  <2>1. ~unsynced[p] /\ ~recovering[p]
    BY <1>8 DEF Label, OnlyWritersWait, Stage, File
  <2>2. CASE pc' = [pc EXCEPT ![p] = "failed"] /\ lock' = Nobody
    BY <1>8, <2>1, <2>2, LeaveKeepsLocks DEF Label, Held, Stage, File
  <2>3. ASSUME NEW w \in {"journal", "release"}, pc' = [pc EXCEPT ![p] = w], lock' = lock
        PROVE  Kept
    BY <1>8, <2>1, <2>3, MoveKeepsLocks DEF Label, Held, Stage, File
  <2> QED BY <1>8, <2>2, <2>3 DEF Label, Save, Fail, GoTo
<1>9. ASSUME NEW p \in Proc, Release(p) PROVE Kept
  <2>1. ~unsynced[p] /\ ~recovering[p]
    BY <1>9 DEF Release, OnlyWritersWait, Stage, File
  <2>2. PICK w \in {"compare", "want", "returned"} : pc' = [pc EXCEPT ![p] = w]
    BY <1>9 DEF Release, Want, GoTo
  <2> QED BY <1>9, <2>1, <2>2, LeaveKeepsLocks DEF Release, Held, Stage, File
<1> USE MapStoreAssumption DEF TypeOK, LockIsHeld, OnlyWritersWait, Held, Stage, File, GoTo
<1>10. ASSUME NEW p \in Proc, ReadStamp(p) PROVE Kept
  BY <1>10 DEF ReadStamp
<1>11. ASSUME NEW p \in Proc, Compare(p) PROVE Kept
  BY <1>11 DEF Compare
<1>12. ASSUME NEW p \in Proc, Crawl(p) PROVE Kept
  BY <1>12 DEF Crawl, Want
<1>13. ASSUME NEW p \in Proc, Die(p) PROVE Kept
  BY <1>13 DEF Die, local
<1>14. CASE Edit
  BY <1>14 DEF Edit, local
<1>15. CASE PowerLoss
  BY <1>15 DEF PowerLoss, local, Busy
<1>16. CASE UNCHANGED vars
  BY <1>16 DEF vars, local
<1> QED
  BY <1>1, <1>2, <1>3, <1>4, <1>5, <1>6, <1>7, <1>8, <1>9, <1>10, <1>11, <1>12,
     <1>13, <1>14, <1>15, <1>16 DEF Next

\* Types and lock discipline hold in every reachable state.
LEMMA StoreKeeps == Spec => [](TypeOK /\ LockIsHeld /\ OnlyWritersWait)
BY TypesInit, TypesNext, LocksInit, LocksNext, PTL DEF Spec

\* The values of every variable are of their types, under every loss.
THEOREM StoreTypes == Spec => []TypeOK
BY StoreKeeps, PTL

-----------------------------------------------------------------------------
(* What the steps do to the files. *)

\* The lock keeps every other process from the files.
LEMMA OnlyOneInside ==
  ASSUME LockIsHeld, NEW p \in Proc, NEW q \in Proc, pc[p] \in Held, pc[q] \in Held
  PROVE  p = q
BY DEF LockIsHeld

\* The places under the lock by name.
LEMMA HeldFacts ==
  /\ Stage \subseteq Held
  /\ "body" \in Held /\ "release" \in Held /\ "recover" \in Held
  /\ Stage = {"journal", "visits", "map", "provenance", "remove"}
  /\ "body" \notin Stage /\ "release" \notin Stage /\ "recover" \notin Stage
BY DEF Held, Stage, File

\* Without a file in flight the disk has what everybody sees.
LEMMA DiskIsView ==
  ASSUME DeathsAreSynced, TypeOK, OneFileBehind, \A q \in Proc : ~unsynced[q]
  PROVE  disk = view
BY DEF TypeOK, OneFileBehind

\* Under the lock, only the holder has a file in flight.
LEMMA HolderDiskIsView ==
  ASSUME TypeOK, OneFileBehind, LockIsHeld, OnlyWritersWait,
         NEW p \in Proc, pc[p] \in Held, ~unsynced[p]
  PROVE  (DeathsAreSynced => disk = view) /\ \A q \in Proc : ~unsynced[q]
<1>1. \A q \in Proc : unsynced[q] => q = p
  BY OnlyOneInside, HeldFacts DEF OnlyWritersWait
<1> QED BY <1>1, DiskIsView

\* A step that touches no file, and brings nobody to one.
LEMMA FilesStay ==
  ASSUME FilesInv, UNCHANGED <<view, disk, unsynced, snap>>,
         \A q \in Proc : unsynced[q] => pc'[q] = pc[q],
         \A q \in Proc : pc'[q] \in Stage => pc'[q] = pc[q],
         \A q \in Proc : pc'[q] \in {"body", "release"} =>
           pc[q] \in {"body", "release"} \/ Even(view)
  PROVE  FilesInv'
BY DEF FilesInv, OneFileBehind, AlwaysRecoverable, WriterInStep, JobSeesOneCommit,
       Recoverable, Even, Reached, After

\* A process that moves, and touches no file.
LEMMA MoveKeepsFiles ==
  ASSUME TypeOK, FilesInv, NEW p \in Proc, NEW w, pc' = [pc EXCEPT ![p] = w],
         w \notin Stage, w \in {"body", "release"} => pc[p] = "body" \/ Even(view),
         ~unsynced[p], UNCHANGED <<view, disk, unsynced, snap>>
  PROVE  FilesInv'
BY FilesStay DEF TypeOK

\* A holder begins to write a snapshot, or to roll one forward.
LEMMA BeginKeepsFiles ==
  ASSUME TypeOK, FilesInv, LockIsHeld, OnlyWritersWait, NEW p \in Proc,
         pc[p] \in {"body", "recover"}, snap'[p] # Nothing,
         \A q \in Proc : q # p => pc'[q] = pc[q] /\ snap'[q] = snap[q],
         UNCHANGED <<view, disk, unsynced>>,
         \/ pc'[p] = "journal" /\ Even(view)
         \/ pc'[p] = "visits" /\ view["journal"] = snap'[p]
  PROVE  FilesInv'
<1>1. pc[p] \in Held /\ ~unsynced[p]
  BY HeldFacts DEF OnlyWritersWait
<1>2. (DeathsAreSynced => disk = view) /\ \A q \in Proc : ~unsynced[q]
  BY <1>1, HolderDiskIsView DEF FilesInv
<1>3. \A q \in Proc : q # p => pc'[q] = pc[q] /\ pc[q] \notin Held
  BY <1>1, OnlyOneInside DEF TypeOK
<1>5. OneFileBehind' /\ AlwaysRecoverable'
  BY <1>2 DEF FilesInv, OneFileBehind, AlwaysRecoverable, Recoverable, Even
<1>6. WriterInStep'
  BY <1>2, <1>3, HeldFacts DEF WriterInStep, Reached, Even
<1>7. JobSeesOneCommit'
  BY <1>3, HeldFacts DEF JobSeesOneCommit
<1> QED BY <1>5, <1>6, <1>7 DEF FilesInv

\* The holder replaces or removes one file.
LEMMA WriteKeepsFiles ==
  ASSUME TypeOK, FilesInv, LockIsHeld, OnlyWritersWait, NEW p \in Proc, Write(p)
  PROVE  FilesInv'
<1>1. pc[p] \in Stage /\ pc[p] \in Held /\ ~unsynced[p]
  BY HeldFacts DEF Write, Stage
<1>2. (DeathsAreSynced => disk = view) /\ \A q \in Proc : ~unsynced[q]
  BY <1>1, HolderDiskIsView DEF FilesInv
<1>3. \A q \in Proc : q # p => pc[q] \notin Held
  BY <1>1, OnlyOneInside
<1>4. /\ pc' = pc /\ snap' = snap /\ disk' = disk
      /\ unsynced'[p] /\ \A q \in Proc : q # p => unsynced'[q] = unsynced[q]
  BY DEF Write, local, TypeOK
<1>5. /\ snap[p] # Nothing /\ Reached(view, pc[p], snap[p])
      /\ DeathsAreSynced => disk["journal"] \in {Nothing, snap[p]}
      /\ pc[p] \in {"map", "provenance", "remove"} => disk["journal"] = snap[p]
  BY <1>1 DEF FilesInv, WriterInStep
<1>6. /\ view'[FileOf(pc[p])] = IF pc[p] = "remove" THEN Nothing ELSE snap[p]
      /\ \A f \in File : f # FileOf(pc[p]) => view'[f] = view[f]
  BY <1>1 DEF Write, FileOf, TypeOK, File, Stage
<1>7. Reached(view', After(pc[p]), snap[p])
  BY <1>1, <1>5, <1>6, HeldFacts DEF Reached, After, NextStage, FileOf, Even, File
<1>8. Recoverable(view')
  BY <1>1, <1>5, <1>6, <1>7, HeldFacts
  DEF Reached, After, NextStage, FileOf, Even, File, Recoverable
<1>9. OneFileBehind'
  BY <1>1, <1>2, <1>4, <1>6 DEF OneFileBehind
<1>10. WriterInStep'
  BY <1>3, <1>4, <1>5, <1>7, HeldFacts DEF WriterInStep
<1>11. JobSeesOneCommit'
  BY <1>1, <1>3, <1>4, HeldFacts DEF JobSeesOneCommit
<1> QED BY <1>4, <1>8, <1>9, <1>10, <1>11 DEF FilesInv, AlwaysRecoverable, Recoverable, Even

\* The holder makes that durable and goes on to the next file.
LEMMA SyncKeepsFiles ==
  ASSUME TypeOK, FilesInv, LockIsHeld, OnlyWritersWait, NEW p \in Proc, Sync(p)
  PROVE  FilesInv'
<1>1. unsynced[p] /\ pc[p] \in Stage /\ pc[p] \in Held
  BY HeldFacts DEF Sync, OnlyWritersWait
<1>2. \A q \in Proc : q # p => pc[q] \notin Held /\ pc'[q] = pc[q]
  BY <1>1, OnlyOneInside DEF Sync, GoTo, TypeOK
<1>3. /\ view' = view /\ disk' = view /\ snap' = snap
      /\ \A q \in Proc : ~unsynced'[q]
  BY <1>1, <1>2, HeldFacts DEF Sync, TypeOK, OnlyWritersWait
<1>4. snap[p] # Nothing /\ Reached(view, After(pc[p]), snap[p])
  BY <1>1 DEF FilesInv, WriterInStep
<1>5. IF pc[p] = "remove" THEN pc'[p] \in {"body", "release"}
      ELSE pc'[p] = After(pc[p]) /\ pc'[p] \in {"visits", "map", "provenance", "remove"}
  <2>1. CASE pc[p] = "remove"
    BY <2>1 DEF Sync, GoTo, TypeOK
  <2>2. CASE pc[p] # "remove"
    BY <1>1, <2>2, HeldFacts DEF Sync, GoTo, TypeOK, After, NextStage
  <2> QED BY <2>1, <2>2
<1>6. OneFileBehind' /\ AlwaysRecoverable'
  BY <1>3 DEF FilesInv, OneFileBehind, AlwaysRecoverable, Recoverable, Even
<1>7. WriterInStep'
  <2>1. ASSUME NEW q \in Proc, pc'[q] \in Stage PROVE q = p /\ pc[p] # "remove"
    BY <1>2, <1>5, <2>1, HeldFacts
  <2>2. ASSUME pc[p] # "remove"
        PROVE  Reached(view, pc'[p], snap[p]) /\ view["journal"] = snap[p]
    BY <1>4, <1>5, <2>2 DEF Reached
  <2> QED BY <1>3, <1>4, <2>1, <2>2 DEF WriterInStep, Reached, Even
<1>8. JobSeesOneCommit'
  <2>1. ASSUME NEW q \in Proc, pc'[q] \in {"body", "release"} PROVE Even(view)
    BY <1>2, <1>4, <1>5, <2>1, HeldFacts DEF Reached, After
  <2> QED BY <1>3, <2>1 DEF JobSeesOneCommit, Even
<1> QED BY <1>6, <1>7, <1>8 DEF FilesInv

\* A death leaves what everybody sees recoverable, and the disk if that is in step.
LEMMA DieKeepsFiles ==
  ASSUME TypeOK, FilesInv, LockIsHeld, OnlyWritersWait, NEW p \in Proc, Die(p)
  PROVE  FilesInv'
<1>1. /\ view' = view /\ snap' = snap
      /\ disk' = IF WritesBack THEN view ELSE disk
      /\ pc'[p] = "dead" /\ ~unsynced'[p]
      /\ \A q \in Proc : q # p => pc'[q] = pc[q] /\ unsynced'[q] = unsynced[q]
  BY DEF Die, GoTo, local, TypeOK
<1>2. DeathsAreSynced => WritesBack
  BY MapStoreAssumption DEF DeathsAreSynced, Die, TypeOK
<1>3. OneFileBehind' /\ AlwaysRecoverable'
  BY <1>1, <1>2 DEF FilesInv, OneFileBehind, AlwaysRecoverable, Recoverable, Even, DeathsAreSynced
<1>4. WriterInStep'
  <2>1. ASSUME NEW q \in Proc, pc'[q] \in Stage
        PROVE  /\ snap[q] # Nothing
               /\ Reached(view, IF unsynced'[q] THEN After(pc'[q]) ELSE pc'[q], snap[q])
               /\ DeathsAreSynced => disk'["journal"] \in {Nothing, snap[q]}
               /\ pc'[q] \in {"map", "provenance"} \/ (pc'[q] = "remove" /\ ~unsynced'[q]) =>
                    disk'["journal"] = snap[q]
    <3>1. q # p /\ pc'[q] = pc[q] /\ unsynced'[q] = unsynced[q]
      BY <1>1, <2>1, HeldFacts
    <3>2. /\ snap[q] # Nothing
          /\ Reached(view, IF unsynced[q] THEN After(pc[q]) ELSE pc[q], snap[q])
          /\ pc[q] \in {"map", "provenance"} \/ (pc[q] = "remove" /\ ~unsynced[q]) =>
               disk["journal"] = snap[q]
      BY <2>1, <3>1 DEF FilesInv, WriterInStep
    <3>3. /\ view["journal"] \in {Nothing, snap[q]}
          /\ pc[q] \in {"map", "provenance"} \/ (pc[q] = "remove" /\ ~unsynced[q]) =>
               view["journal"] = snap[q]
      BY <2>1, <3>1, <3>2, HeldFacts DEF Reached, After, NextStage, Even
    <3> QED BY <1>1, <1>2, <3>1, <3>2, <3>3
  <2> QED BY <1>1, <2>1 DEF WriterInStep, Reached, Even, DeathsAreSynced
<1>5. JobSeesOneCommit'
  BY <1>1 DEF FilesInv, JobSeesOneCommit, Even
<1> QED BY <1>3, <1>4, <1>5 DEF FilesInv

\* A power loss leaves the disk as it was or as everybody saw it.
LEMMA LossIsOneOfTwo ==
  ASSUME DeathsAreSynced, TypeOK, FilesInv, LockIsHeld, OnlyWritersWait, PowerLoss
  PROVE  view' \in {view, disk} /\ disk' = view'
<1>1. PICK kept \in SUBSET File : view' = [f \in File |-> IF f \in kept THEN view[f] ELSE disk[f]]
  BY DEF PowerLoss
<1>2. CASE \A q \in Proc : ~unsynced[q]
  BY <1>1, <1>2, DiskIsView DEF FilesInv, TypeOK, PowerLoss
<1>3. CASE \E q \in Proc : unsynced[q]
  <2>1. PICK q \in Proc : unsynced[q]
    BY <1>3
  <2>2. \A r \in Proc : unsynced[r] => r = q
    BY <2>1, OnlyOneInside, HeldFacts DEF OnlyWritersWait
  <2>3. \A f \in File : f # FileOf(pc[q]) => view[f] = disk[f]
    BY <2>1, <2>2 DEF FilesInv, OneFileBehind
  <2>4. CASE FileOf(pc[q]) \in kept
    BY <1>1, <2>3, <2>4 DEF TypeOK, PowerLoss
  <2>5. CASE FileOf(pc[q]) \notin kept
    BY <1>1, <2>3, <2>5 DEF TypeOK, PowerLoss
  <2> QED BY <2>4, <2>5
<1> QED BY <1>2, <1>3

\* The power fails only where deaths leave the disk in step.
LEMMA LossNeedsSync ==
  ASSUME LossesDontMix, TypeOK, PowerLoss
  PROVE  DeathsAreSynced
BY MapStoreAssumption DEF LossesDontMix, TypeOK, PowerLoss

\* Either is recoverable, and nobody writes any more.
LEMMA LossKeepsFiles ==
  ASSUME DeathsAreSynced, TypeOK, FilesInv, LockIsHeld, OnlyWritersWait, PowerLoss
  PROVE  FilesInv'
<1>1. view' \in {view, disk} /\ disk' = view'
  BY LossIsOneOfTwo
<1>2. \A q \in Proc : ~unsynced'[q] /\ pc'[q] \notin Held
  BY DEF PowerLoss, Busy, Held, Stage, File, TypeOK
<1>3. OneFileBehind' /\ AlwaysRecoverable'
  BY <1>1 DEF FilesInv, OneFileBehind, AlwaysRecoverable, Recoverable, Even
<1> QED BY <1>2, <1>3, HeldFacts DEF FilesInv, WriterInStep, JobSeesOneCommit

-----------------------------------------------------------------------------
(* What a job makes of the committed snapshot. *)

\* What a job finds when its turn comes, and leaves when it is done.
LEMMA BodyFacts ==
  ASSUME TypeOK, FilesInv, DiskFollows, LockIsHeld, OnlyWritersWait, NEW p \in Proc,
         pc[p] \in {"body", "release"}
  PROVE  /\ Even(view) /\ ~Mixed
         /\ view["map"] \in Snapshot /\ view["visits"] = view["map"]
         /\ Committed = view["map"]
         /\ ~unsynced[p]
<1>1. pc[p] \in Held /\ ~unsynced[p]
  BY HeldFacts DEF OnlyWritersWait
<1>2. Even(view)
  BY DEF FilesInv, JobSeesOneCommit
<1>3. ~Mixed
  BY <1>2 DEF Mixed, Revision, Even
<1>4. Committed = view["map"]
  BY <1>2 DEF DiskFollows, CommittedOf, Even
<1> QED BY <1>1, <1>2, <1>3, <1>4, FileFacts DEF Even, TypeOK

\* The empty snapshot has nothing in it.
LEMMA NoRuns == Nothing.runs = {} /\ Nothing.graph = {} /\ Nothing.named = {}
                  /\ Nothing.rev = 0 /\ Nothing.src = 0
BY DEF Nothing

\* The fields of the snapshot that a commit writes.
LEMMA AbsorbedFields ==
  ASSUME TypeOK, NEW p \in Proc, view["map"] \in Snapshot, view["visits"] = view["map"],
         NEW new, new = [Absorbed(Base(p), crawl[p].screens, p) EXCEPT !.src = src]
  PROVE  LET map == view["map"]
             graph == IF Replacing(p) THEN {} ELSE map.graph
         IN  /\ new \in Snapshot
             /\ new.src = src
             /\ new.runs = (IF Replacing(p) THEN {} ELSE map.runs) \cup {p}
             /\ new.graph = graph \cup crawl[p].screens
             /\ new.named = IF Replacing(p) THEN {} ELSE map.named
             /\ new.rev = IF crawl[p].screens \subseteq graph THEN Revision ELSE Revision + 1
<1> DEFINE map == view["map"]
           graph == IF Replacing(p) THEN {} ELSE map.graph
           base == Base(p)
<1>1. new \in Snapshot
  BY AbsorbedTypes, StampedTypes
<1>2. base \in Snapshot /\ Revision \in Nat
  BY AbsorbedTypes
<1>3. /\ base.graph = graph
      /\ base.runs = IF Replacing(p) THEN {} ELSE map.runs
      /\ base.named = IF Replacing(p) THEN {} ELSE map.named
      /\ base.rev = Revision
  <2>1. CASE Replacing(p)
    BY <2>1, NoRuns DEF Base, Nothing
  <2>2. CASE ~Replacing(p)
    BY <2>2 DEF Base, Snapshot
  <2> QED BY <2>1, <2>2
<1> HIDE DEF base
<1>4. /\ new.src = src
      /\ new.runs = base.runs \cup {p}
      /\ new.graph = base.graph \cup crawl[p].screens
      /\ new.named = base.named
      /\ new.rev = IF crawl[p].screens \subseteq base.graph THEN base.rev ELSE base.rev + 1
  BY <1>2 DEF Absorbed, Snapshot, base
<1> QED BY <1>1, <1>3, <1>4

\* A commit writes a snapshot that follows the committed one and has its run.
LEMMA CommitSteps ==
  ASSUME TypeOK, FilesInv, DiskFollows, LockIsHeld, OnlyWritersWait, RunsWereMade,
         CrawlComesFirst, NEW p \in Proc, Commit(p)
  PROVE  \E new \in Snapshot :
           /\ pc' = [pc EXCEPT ![p] = "journal"] /\ snap' = [snap EXCEPT ![p] = new]
           /\ lock' = lock
           /\ new # Nothing /\ new.src = src /\ p \in new.runs
           /\ new.runs \subseteq view["map"].runs \cup {p}
           /\ new.graph = (IF Replacing(p) THEN {} ELSE view["map"].graph) \cup crawl[p].screens
           /\ Follows(view["map"], new)
<1> DEFINE map == view["map"]
           new == [Absorbed(Base(p), crawl[p].screens, p) EXCEPT !.src = src]
<1>1. /\ pc[p] = "body" /\ job[p] = "commit" /\ ~Mixed
      /\ map \in Snapshot /\ view["visits"] = map /\ ~recovering[p]
  BY BodyFacts DEF Commit, OnlyWritersWait
<1>2. pc' = [pc EXCEPT ![p] = "journal"] /\ snap' = [snap EXCEPT ![p] = new] /\ lock' = lock
  BY <1>1 DEF Commit, Save, GoTo
<1>3. /\ new \in Snapshot /\ new.src = src
      /\ new.runs = (IF Replacing(p) THEN {} ELSE map.runs) \cup {p}
      /\ new.graph = (IF Replacing(p) THEN {} ELSE map.graph) \cup crawl[p].screens
      /\ new.named = IF Replacing(p) THEN {} ELSE map.named
      /\ new.rev = IF crawl[p].screens \subseteq (IF Replacing(p) THEN {} ELSE map.graph)
                   THEN Revision ELSE Revision + 1
  BY <1>1, AbsorbedFields
<1> HIDE DEF new
<1>4. p \in new.runs /\ new # Nothing
  BY <1>3, NoRuns
<1>5. crawl[p].screens # {}
  BY <1>1 DEF CrawlComesFirst
<1>6. p \notin map.runs /\ (map.runs = {} => map.graph = {})
  <2>1. InUse(map)
    BY FileFacts DEF InUse
  <2>2. ~HasCommitted(p)
    BY <1>1, HeldFacts DEF HasCommitted
  <2> QED BY <1>1, <2>1, <2>2 DEF RunsWereMade
<1>7. Abstract!AbsorbsRun(map, new)
  BY <1>3 DEF Abstract!AbsorbsRun
<1>8. Abstract!Revised(map, new)
  <2>1. Revision = IF map = Nothing THEN 1 ELSE map.rev
    BY DEF Revision
  <2>2. map.rev \in Nat
    BY <1>1 DEF Snapshot
  <2>3. CASE map = Nothing
    BY <1>3, <2>1, <2>3, NoRuns DEF Abstract!Revised
  <2>4. CASE map # Nothing /\ Replacing(p)
    BY <1>3, <1>5, <2>1, <2>2, <2>4 DEF Abstract!Revised
  <2>5. CASE map # Nothing /\ ~Replacing(p)
    BY <1>3, <2>1, <2>2, <2>5 DEF Abstract!Revised
  <2> QED BY <2>3, <2>4, <2>5
<1>9. Abstract!KeepsGraph(map, new)
  <2>1. CASE Replacing(p)
    <3>1. map.runs \subseteq new.runs => map.runs = {}
      BY <1>3, <1>6, <2>1
    <3> QED BY <1>6, <3>1 DEF Abstract!KeepsGraph
  <2>2. CASE ~Replacing(p)
    BY <1>3, <2>2 DEF Abstract!KeepsGraph
  <2> QED BY <2>1, <2>2
<1>10. new.runs \subseteq map.runs \cup {p}
  BY <1>3
<1> QED BY <1>2, <1>3, <1>4, <1>7, <1>8, <1>9, <1>10 DEF Follows

\* Labelling writes the committed graph with more names, or nothing.
LEMMA LabelSteps ==
  ASSUME TypeOK, FilesInv, DiskFollows, LockIsHeld, OnlyWritersWait, NEW p \in Proc, Label(p)
  PROVE  /\ lock' = lock
         /\ \/ pc' = [pc EXCEPT ![p] = "release"] /\ snap' = snap
            \/ \E new \in Snapshot :
                 /\ pc' = [pc EXCEPT ![p] = "journal"] /\ snap' = [snap EXCEPT ![p] = new]
                 /\ new # Nothing /\ new.src = src
                 /\ new.runs = view["map"].runs /\ new.graph = view["map"].graph
                 /\ Follows(view["map"], new)
<1> DEFINE map == view["map"]
           now == [map EXCEPT !.runs = view["visits"].runs]
<1>1. pc[p] = "body" /\ ~Mixed /\ map \in Snapshot /\ view["visits"] = map
  BY BodyFacts DEF Label
<1>2. now = map /\ seen[p] \in Snapshot
  BY <1>1 DEF Snapshot, TypeOK
<1>a. PICK names \in SUBSET (now.graph \cap seen[p].graph) :
        /\ IF names = {} THEN GoTo(p, "release") /\ UNCHANGED snap
           ELSE Save(p, [now EXCEPT !.rev = @ + 1, !.named = @ \cup names])
        /\ UNCHANGED lock
  BY <1>1 DEF Label
<1> DEFINE more == [now EXCEPT !.rev = @ + 1, !.named = @ \cup names]
           new == [more EXCEPT !.src = src]
<1>3. names \in SUBSET Seen
  BY <1>1, <1>2 DEF Snapshot
<1>4. more \in Snapshot
  BY <1>1, <1>2, <1>3, NamedTypes
<1>5. new \in Snapshot
  BY <1>4, StampedTypes
<1>6. /\ lock' = lock
      /\ \/ pc' = [pc EXCEPT ![p] = "release"] /\ snap' = snap
         \/ pc' = [pc EXCEPT ![p] = "journal"] /\ snap' = [snap EXCEPT ![p] = new]
  <2>1. CASE names = {}
    BY <1>a, <2>1 DEF GoTo
  <2>2. CASE names # {}
    BY <1>a, <2>2 DEF Save, GoTo
  <2> QED BY <2>1, <2>2
<1>7. /\ new.src = src /\ new.runs = map.runs /\ new.graph = map.graph
      /\ new.rev = map.rev + 1 /\ map.named \subseteq new.named
  BY <1>1, <1>2 DEF Snapshot
<1>8. map.rev \in Nat
  BY <1>1 DEF Snapshot
<1> HIDE DEF new, map
<1>9. new # Nothing
  BY <1>7, <1>8, NoRuns
<1>10. Follows(map, new)
  BY <1>7, <1>8
  DEF Follows, Abstract!NamesScreens, Abstract!Revised, Abstract!KeepsGraph
<1> QED BY <1>5, <1>6, <1>7, <1>9, <1>10 DEF map

\* No job is refused what it reads.
LEMMA LoadSteps ==
  ASSUME TypeOK, FilesInv, DiskFollows, LockIsHeld, OnlyWritersWait, NEW p \in Proc, Load(p)
  PROVE  /\ pc' = [pc EXCEPT ![p] = "release"] /\ lock' = lock
         /\ seen' = [seen EXCEPT ![p] = Committed]
BY BodyFacts DEF Load, GoTo

-----------------------------------------------------------------------------
(* The invariant. *)

Core == TypeOK /\ LockIsHeld /\ OnlyWritersWait /\ FilesInv /\ SnapshotsInv /\ DiskFollows

\* Every step keeps the files recoverable and the writers in step.
LEMMA FilesNext == LossesDontMix /\ Core /\ [Next]_vars => FilesInv'
<1> SUFFICES ASSUME LossesDontMix, Core, [Next]_vars PROVE FilesInv'
  OBVIOUS
<1>0. /\ TypeOK /\ LockIsHeld /\ OnlyWritersWait /\ FilesInv /\ DiskFollows
      /\ RunsWereMade /\ CrawlComesFirst
  BY DEF Core, SnapshotsInv
<1>1. ASSUME NEW p \in Proc, Start(p) PROVE FilesInv'
  <2>1. PICK w \in {"crawl", "want"} : pc' = [pc EXCEPT ![p] = w]
    BY <1>1 DEF Start, Want, GoTo
  <2>2. ~unsynced[p]
    BY <1>0, <1>1, HeldFacts DEF Start, OnlyWritersWait
  <2> QED BY <1>0, <1>1, <2>1, <2>2, MoveKeepsFiles, HeldFacts DEF Start, files
<1>2. ASSUME NEW p \in Proc, Acquire(p) PROVE FilesInv'
  <2>1. ~unsynced[p]
    BY <1>0, <1>2, HeldFacts DEF Acquire, OnlyWritersWait
  <2> QED BY <1>0, <1>2, <2>1, MoveKeepsFiles, HeldFacts DEF Acquire, GoTo, files, local
<1>3. ASSUME NEW p \in Proc, Recover(p) PROVE FilesInv'
  <2>1. ~unsynced[p]
    BY <1>0, <1>3, HeldFacts DEF Recover, OnlyWritersWait
  <2>2. CASE view["journal"] = Nothing
    <3>1. Even(view)
      BY <1>0, <2>2 DEF FilesInv, AlwaysRecoverable, Recoverable
    <3> QED BY <1>0, <1>3, <2>1, <2>2, <3>1, MoveKeepsFiles, HeldFacts DEF Recover, GoTo, files
  <2>3. CASE view["journal"] # Nothing
    BY <1>0, <1>3, <2>3, BeginKeepsFiles DEF Recover, GoTo, files, TypeOK
  <2> QED BY <2>2, <2>3
<1>4. ASSUME NEW p \in Proc, Write(p) PROVE FilesInv'
  BY <1>0, <1>4, WriteKeepsFiles
<1>5. ASSUME NEW p \in Proc, Sync(p) PROVE FilesInv'
  BY <1>0, <1>5, SyncKeepsFiles
<1>6. ASSUME NEW p \in Proc, Load(p) PROVE FilesInv'
  <2>1. pc' = [pc EXCEPT ![p] = "release"] /\ ~unsynced[p] /\ Even(view)
    BY <1>0, <1>6, LoadSteps, BodyFacts DEF Load
  <2> QED BY <1>0, <1>6, <2>1, MoveKeepsFiles, HeldFacts DEF Load, files
<1>7. ASSUME NEW p \in Proc, Commit(p) PROVE FilesInv'
  <2>1. PICK new \in Snapshot :
          /\ pc' = [pc EXCEPT ![p] = "journal"] /\ snap' = [snap EXCEPT ![p] = new]
          /\ new # Nothing
    BY <1>0, <1>7, CommitSteps
  <2>2. pc[p] = "body" /\ Even(view)
    BY <1>0, <1>7, BodyFacts DEF Commit
  <2>3. UNCHANGED <<view, disk, unsynced>>
    BY <1>7 DEF Commit, files
  <2> QED BY <1>0, <2>1, <2>2, <2>3, BeginKeepsFiles DEF TypeOK
<1>8. ASSUME NEW p \in Proc, Label(p) PROVE FilesInv'
  <2>1. pc[p] = "body" /\ Even(view) /\ ~unsynced[p]
    BY <1>0, <1>8, BodyFacts DEF Label
  <2>2. CASE pc' = [pc EXCEPT ![p] = "release"] /\ snap' = snap
    BY <1>0, <1>8, <2>1, <2>2, MoveKeepsFiles, HeldFacts DEF Label, files
  <2>3. ASSUME NEW new \in Snapshot, new # Nothing,
               pc' = [pc EXCEPT ![p] = "journal"], snap' = [snap EXCEPT ![p] = new]
        PROVE  FilesInv'
    <3>1. UNCHANGED <<view, disk, unsynced>>
      BY <1>8 DEF Label, files
    <3> QED BY <1>0, <2>1, <2>3, <3>1, BeginKeepsFiles DEF TypeOK
  <2> QED BY <1>0, <1>8, <2>2, <2>3, LabelSteps
<1>9. ASSUME NEW p \in Proc, Release(p) PROVE FilesInv'
  <2>1. PICK w \in {"compare", "want", "returned"} : pc' = [pc EXCEPT ![p] = w]
    BY <1>9 DEF Release, Want, GoTo
  <2>2. ~unsynced[p]
    BY <1>0, <1>9, HeldFacts DEF Release, OnlyWritersWait
  <2> QED BY <1>0, <1>9, <2>1, <2>2, MoveKeepsFiles, HeldFacts DEF Release, files
<1>10. ASSUME NEW p \in Proc, ReadStamp(p) PROVE FilesInv'
  <2>1. ~unsynced[p]
    BY <1>0, <1>10, HeldFacts DEF ReadStamp, OnlyWritersWait
  <2> QED BY <1>0, <1>10, <2>1, MoveKeepsFiles, HeldFacts DEF ReadStamp, GoTo, files
<1>11. ASSUME NEW p \in Proc, Compare(p) PROVE FilesInv'
  <2>1. PICK w \in {"returned", "crawl"} : pc' = [pc EXCEPT ![p] = w]
    BY <1>11 DEF Compare, GoTo
  <2>2. ~unsynced[p]
    BY <1>0, <1>11, HeldFacts DEF Compare, OnlyWritersWait
  <2> QED BY <1>0, <1>11, <2>1, <2>2, MoveKeepsFiles, HeldFacts DEF Compare, files
<1>12. ASSUME NEW p \in Proc, Crawl(p) PROVE FilesInv'
  <2>1. PICK w \in {"returned", "want"} : pc' = [pc EXCEPT ![p] = w]
    BY <1>12 DEF Crawl, Want, GoTo
  <2>2. ~unsynced[p]
    BY <1>0, <1>12, HeldFacts DEF Crawl, OnlyWritersWait
  <2> QED BY <1>0, <1>12, <2>1, <2>2, MoveKeepsFiles, HeldFacts DEF Crawl, files
<1>13. ASSUME NEW p \in Proc, Die(p) PROVE FilesInv'
  BY <1>0, <1>13, DieKeepsFiles
<1>14. CASE Edit
  BY <1>0, <1>14, FilesStay DEF Edit, files, local
<1>15. CASE PowerLoss
  BY <1>0, <1>15, LossKeepsFiles, LossNeedsSync
<1>16. CASE UNCHANGED vars
  BY <1>0, <1>16, FilesStay DEF vars, files, local
<1> QED
  BY <1>1, <1>2, <1>3, <1>4, <1>5, <1>6, <1>7, <1>8, <1>9, <1>10, <1>11, <1>12,
     <1>13, <1>14, <1>15, <1>16 DEF Next

\* Whoever came to commit its run has come for good, and a commit has screens.
LEMMA CommandsNext ==
  Core /\ [Next]_vars =>
    CrawlComesFirst' /\ \A q \in Proc : HasCommitted(q) => HasCommitted(q)'
<1> SUFFICES ASSUME Core, [Next]_vars
             PROVE  CrawlComesFirst' /\ \A q \in Proc : HasCommitted(q) => HasCommitted(q)'
  OBVIOUS
<1> DEFINE Goal == CrawlComesFirst' /\ \A q \in Proc : HasCommitted(q) => HasCommitted(q)'
<1>0. TypeOK /\ OnlyWritersWait /\ CrawlComesFirst
  BY DEF Core, SnapshotsInv
<1> USE <1>0 DEF CrawlComesFirst, HasCommitted, Stage, File, TypeOK, GoTo
<1>1. ASSUME NEW p \in Proc, Start(p) PROVE Goal
  BY <1>1 DEF Start, Want
<1>2. ASSUME NEW p \in Proc, Acquire(p) PROVE Goal
  BY <1>2 DEF Acquire, local
<1>3. ASSUME NEW p \in Proc, Recover(p) PROVE Goal
  BY <1>3 DEF Recover
<1>4. ASSUME NEW p \in Proc, Write(p) PROVE Goal
  BY <1>4 DEF Write, local
<1>5. ASSUME NEW p \in Proc, Sync(p) PROVE Goal
  <2>1. CASE pc[p] # "remove"
    BY <1>5, <2>1 DEF Sync, NextStage, OnlyWritersWait
  <2>2. CASE pc[p] = "remove"
    BY <1>5, <2>2 DEF Sync
  <2> QED BY <2>1, <2>2
<1>6. ASSUME NEW p \in Proc, Load(p) PROVE Goal
  BY <1>6 DEF Load, Fail
<1>7. ASSUME NEW p \in Proc, Commit(p) PROVE Goal
  BY <1>7 DEF Commit, Save, Fail
<1>8. ASSUME NEW p \in Proc, Label(p) PROVE Goal
  BY <1>8 DEF Label, Save, Fail
<1>9. ASSUME NEW p \in Proc, Release(p) PROVE Goal
  BY <1>9 DEF Release, Want
<1>10. ASSUME NEW p \in Proc, ReadStamp(p) PROVE Goal
  BY <1>10 DEF ReadStamp
<1>11. ASSUME NEW p \in Proc, Compare(p) PROVE Goal
  BY <1>11 DEF Compare
<1>12. ASSUME NEW p \in Proc, Crawl(p) PROVE Goal
  BY <1>12 DEF Crawl, Want, MayCommit
<1>13. ASSUME NEW p \in Proc, Die(p) PROVE Goal
  BY <1>13 DEF Die, local
<1>14. CASE Edit
  BY <1>14 DEF Edit, local
<1>15. CASE PowerLoss
  BY <1>15 DEF PowerLoss, local, Busy
<1>16. CASE UNCHANGED vars
  BY <1>16 DEF vars, local
<1> QED
  BY <1>1, <1>2, <1>3, <1>4, <1>5, <1>6, <1>7, <1>8, <1>9, <1>10, <1>11, <1>12,
     <1>13, <1>14, <1>15, <1>16 DEF Next

\* A step only brings a snapshot into use to commit or to label it.
LEMMA InUseNext ==
  ASSUME Core, [Next]_vars, NEW s, InUse(s)'
  PROVE  InUse(s) \/ s = Nothing \/ \E p \in Proc : (Commit(p) \/ Label(p)) /\ s = snap'[p]
<1> DEFINE Goal == InUse(s) \/ s = Nothing \/ \E p \in Proc : (Commit(p) \/ Label(p)) /\ s = snap'[p]
<1>0. TypeOK
  BY DEF Core
<1>1. (\E f \in File : s \in {view'[f], disk'[f]}) \/ \E q \in Proc : s = snap'[q]
  BY DEF InUse
<1>2. ASSUME NEW p \in Proc, Recover(p) PROVE Goal
  <2>1. view' = view /\ disk' = disk /\ \A q \in Proc : snap'[q] \in {snap[q], view["journal"]}
    BY <1>0, <1>2 DEF Recover, files, TypeOK
  <2> QED BY <1>1, <2>1, FileFacts DEF InUse
<1>3. ASSUME NEW p \in Proc, Write(p) PROVE Goal
  <2>1. /\ disk' = disk /\ snap' = snap
        /\ \A f \in File : view'[f] \in {view[f], Nothing, snap[p]}
    BY <1>0, <1>3 DEF Write, local, TypeOK
  <2> QED BY <1>1, <2>1 DEF InUse
<1>4. ASSUME NEW p \in Proc, Sync(p) PROVE Goal
  BY <1>1, <1>4 DEF Sync, InUse
<1>5. ASSUME NEW p \in Proc, Commit(p) \/ Label(p) PROVE Goal
  <2>1. view' = view /\ disk' = disk /\ \A q \in Proc : q # p => snap'[q] = snap[q]
    BY <1>0, <1>5 DEF Commit, Label, Save, files, TypeOK
  <2> QED BY <1>1, <1>5, <2>1 DEF InUse
<1>6. ASSUME NEW p \in Proc, Die(p) PROVE Goal
  BY <1>1, <1>6 DEF Die, local, InUse
<1>7. CASE PowerLoss
  <2>1. snap' = snap /\ disk' = view' /\ \A f \in File : view'[f] \in {view[f], disk[f]}
    BY <1>7 DEF PowerLoss, local
  <2> QED BY <1>1, <2>1 DEF InUse
<1>8. CASE
    \/ Edit \/ UNCHANGED vars
    \/ \E p \in Proc : \/ Start(p) \/ Acquire(p) \/ Load(p) \/ Release(p)
                       \/ ReadStamp(p) \/ Compare(p) \/ Crawl(p)
  BY <1>1, <1>8
  DEF Edit, vars, Start, Acquire, Load, Release, ReadStamp, Compare, Crawl, files, local, InUse
<1> QED BY <1>2, <1>3, <1>4, <1>5, <1>6, <1>7, <1>8 DEF Next

\* A snapshot only has the runs of those that came to write it.
LEMMA RunsNext == Core /\ [Next]_vars => RunsWereMade'
<1> SUFFICES ASSUME Core, [Next]_vars PROVE RunsWereMade'
  OBVIOUS
<1>0. /\ TypeOK /\ LockIsHeld /\ OnlyWritersWait /\ FilesInv /\ DiskFollows
      /\ RunsWereMade /\ CrawlComesFirst
      /\ \A q \in Proc : HasCommitted(q) => HasCommitted(q)'
  BY CommandsNext DEF Core, SnapshotsInv
<1> DEFINE Made(s) == (\A q \in s.runs : HasCommitted(q)') /\ (s.runs = {} => s.graph = {})
<1>1. Snapshot' = Snapshot /\ \A s \in Snapshot : s.runs \subseteq Proc
  BY DEF Snapshot, Seen, Version
<1>2. \A s \in Snapshot : InUse(s) => Made(s)
  BY <1>0, <1>1 DEF RunsWereMade
<1>3. view["map"] \in Snapshot /\ InUse(view["map"])
  BY <1>0, FileFacts DEF TypeOK, InUse
<1>4. ASSUME NEW p \in Proc, Commit(p) PROVE Made(snap'[p])
  <2>1. PICK new \in Snapshot :
          /\ pc' = [pc EXCEPT ![p] = "journal"] /\ snap' = [snap EXCEPT ![p] = new]
          /\ p \in new.runs /\ new.runs \subseteq view["map"].runs \cup {p}
    BY <1>0, <1>4, CommitSteps
  <2>2. HasCommitted(p)'
    BY <1>0, <1>4, <2>1, HeldFacts DEF Commit, HasCommitted, TypeOK, OnlyWritersWait
  <2>3. snap'[p] = new
    BY <1>0, <2>1 DEF TypeOK
  <2> QED BY <1>2, <1>3, <2>1, <2>2, <2>3
<1>5. ASSUME NEW p \in Proc, Label(p) PROVE Made(snap'[p])
  <2>1. CASE snap' = snap
    <3>1. snap[p] \in Snapshot /\ InUse(snap[p])
      BY <1>0 DEF TypeOK, InUse
    <3> QED BY <1>2, <2>1, <3>1
  <2>2. ASSUME NEW new \in Snapshot, snap' = [snap EXCEPT ![p] = new],
               new.runs = view["map"].runs, new.graph = view["map"].graph
        PROVE  Made(snap'[p])
    <3>1. snap'[p] = new
      BY <1>0, <2>2 DEF TypeOK
    <3> QED BY <1>2, <1>3, <2>2, <3>1
  <2> QED BY <1>0, <1>5, <2>1, <2>2, LabelSteps
<1>6. ASSUME NEW s \in Snapshot, InUse(s)' PROVE Made(s)
  BY <1>2, <1>4, <1>5, <1>6, InUseNext, NoRuns
<1> HIDE DEF Made
<1>7. ASSUME NEW s \in Snapshot', InUse(s)' PROVE Made(s)
  BY <1>1, <1>6, <1>7
<1> QED BY <1>7 DEF RunsWereMade, Made

\* What the next state owes of the writers, process by process.
LEMMA WritersNext ==
  WriterFollows' <=>
    \A q \in Proc :
      /\ pc'[q] = "journal" => Follows(view'["map"], snap'[q])
      /\ pc'[q] \in Stage /\ ~recovering'[q] =>
           job'[q] \in {"commit", "label"} /\ (job'[q] = "commit" => q \in snap'[q].runs)
      /\ pc'[q] = "release" /\ job'[q] = "commit" => q \in view'["map"].runs
BY DEF WriterFollows, Follows, Abstract!AbsorbsRun, Abstract!NamesScreens, Abstract!Revised,
       Abstract!KeepsGraph, Stage

\* A process that has no snapshot to write, and does not come to.
LEMMA WritersStay ==
  ASSUME WriterFollows, UNCHANGED <<view, snap>>,
         \A q \in Proc : pc'[q] \in Stage \cup {"release"} =>
           pc'[q] = pc[q] /\ job'[q] = job[q] /\ recovering'[q] = recovering[q]
  PROVE  WriterFollows'
<1>1. \A q \in Proc :
        /\ pc[q] = "journal" => Follows(view["map"], snap[q])
        /\ pc[q] \in Stage /\ ~recovering[q] =>
             job[q] \in {"commit", "label"} /\ (job[q] = "commit" => q \in snap[q].runs)
        /\ pc[q] = "release" /\ job[q] = "commit" => q \in view["map"].runs
  BY DEF WriterFollows
<1> QED BY <1>1, WritersNext, HeldFacts

\* The holder of the lock moves; the others stay.
LEMMA HolderFollows ==
  ASSUME LockIsHeld, NEW p \in Proc, pc[p] \in Held,
         \A q \in Proc : q # p => pc'[q] = pc[q],
         pc'[p] = "journal" => Follows(view'["map"], snap'[p]),
         pc'[p] \in Stage /\ ~recovering'[p] =>
           job'[p] \in {"commit", "label"} /\ (job'[p] = "commit" => p \in snap'[p].runs),
         pc'[p] = "release" /\ job'[p] = "commit" => p \in view'["map"].runs
  PROVE  WriterFollows'
<1>1. \A q \in Proc : q # p => pc'[q] \notin Stage \cup {"release"}
  BY OnlyOneInside, HeldFacts
<1> QED BY <1>1, WritersNext, HeldFacts

\* Every writer writes what follows the committed snapshot, and has its run in it.
LEMMA FollowsNext == Core /\ [Next]_vars => WriterFollows'
<1> SUFFICES ASSUME Core, [Next]_vars PROVE WriterFollows'
  OBVIOUS
<1>0. /\ TypeOK /\ LockIsHeld /\ OnlyWritersWait /\ FilesInv /\ DiskFollows
      /\ RunsWereMade /\ CrawlComesFirst /\ WriterFollows
  BY DEF Core, SnapshotsInv
<1>1. ASSUME NEW p \in Proc, Start(p) PROVE WriterFollows'
  BY <1>0, <1>1, WritersStay, HeldFacts DEF Start, Want, GoTo, files, TypeOK
<1>2. ASSUME NEW p \in Proc, Acquire(p) PROVE WriterFollows'
  BY <1>0, <1>2, WritersStay, HeldFacts DEF Acquire, GoTo, files, local, TypeOK
<1>3. ASSUME NEW p \in Proc, Recover(p) PROVE WriterFollows'
  <2>1. pc[p] \in Held
    BY <1>3, HeldFacts DEF Recover
  <2>2. /\ \A q \in Proc : q # p => pc'[q] = pc[q]
        /\ pc'[p] = "body" \/ (pc'[p] = "visits" /\ recovering'[p])
    BY <1>0, <1>3 DEF Recover, GoTo, TypeOK
  <2> QED BY <1>0, <2>1, <2>2, HolderFollows, HeldFacts
<1>4. ASSUME NEW p \in Proc, Write(p) PROVE WriterFollows'
  <2>1. /\ pc[p] \in Stage /\ pc[p] \in Held /\ pc' = pc /\ snap' = snap
        /\ job' = job /\ recovering' = recovering
    BY <1>4, HeldFacts DEF Write, local, Stage
  <2>2. pc[p] = "journal" => view'["map"] = view["map"]
    BY <1>0, <1>4, FileFacts DEF Write, TypeOK
  <2>3. /\ pc[p] = "journal" => Follows(view["map"], snap[p])
        /\ ~recovering[p] => job[p] \in {"commit", "label"} /\ (job[p] = "commit" => p \in snap[p].runs)
    BY <1>0, <2>1 DEF WriterFollows
  <2> QED BY <1>0, <2>1, <2>2, <2>3, HolderFollows, HeldFacts
<1>5. ASSUME NEW p \in Proc, Sync(p) PROVE WriterFollows'
  <2>1. unsynced[p] /\ pc[p] \in Stage /\ pc[p] \in Held
    BY <1>0, <1>5, HeldFacts DEF Sync, OnlyWritersWait
  <2>2. /\ \A q \in Proc : q # p => pc'[q] = pc[q]
        /\ view' = view /\ snap' = snap /\ job' = job
    BY <1>0, <1>5 DEF Sync, GoTo, TypeOK
  <2>3. ~recovering[p] => job[p] \in {"commit", "label"} /\ (job[p] = "commit" => p \in snap[p].runs)
    BY <1>0, <2>1 DEF WriterFollows
  <2>4. CASE pc[p] # "remove"
    <3>1. pc'[p] \in {"visits", "map", "provenance", "remove"} /\ recovering'[p] = recovering[p]
      BY <1>0, <1>5, <2>1, <2>4, HeldFacts DEF Sync, GoTo, NextStage, TypeOK
    <3> QED BY <1>0, <2>1, <2>2, <2>3, <3>1, HolderFollows, HeldFacts
  <2>5. CASE pc[p] = "remove"
    <3>1. pc'[p] = IF recovering[p] THEN "body" ELSE "release"
      BY <1>0, <1>5, <2>5 DEF Sync, GoTo, TypeOK
    <3>2. view["map"] = snap[p]
      BY <1>0, <2>1, <2>5 DEF FilesInv, WriterInStep, Reached, After
    <3> QED BY <1>0, <2>1, <2>2, <2>3, <3>1, <3>2, HolderFollows, HeldFacts
  <2> QED BY <2>4, <2>5
<1>6. ASSUME NEW p \in Proc, Load(p) PROVE WriterFollows'
  <2>1. /\ pc[p] \in Held /\ \A q \in Proc : q # p => pc'[q] = pc[q]
        /\ pc'[p] = "release" /\ job'[p] # "commit"
    BY <1>0, <1>6, LoadSteps, HeldFacts DEF Load, TypeOK
  <2> QED BY <1>0, <2>1, HolderFollows, HeldFacts
<1>7. ASSUME NEW p \in Proc, Commit(p) PROVE WriterFollows'
  <2>1. PICK new \in Snapshot :
          /\ pc' = [pc EXCEPT ![p] = "journal"] /\ snap' = [snap EXCEPT ![p] = new]
          /\ p \in new.runs /\ Follows(view["map"], new)
    BY <1>0, <1>7, CommitSteps
  <2>2. /\ pc[p] \in Held /\ \A q \in Proc : q # p => pc'[q] = pc[q]
        /\ pc'[p] = "journal" /\ snap'[p] = new /\ job'[p] = "commit" /\ view' = view
    BY <1>0, <1>7, <2>1, HeldFacts DEF Commit, files, TypeOK
  <2> QED BY <1>0, <2>1, <2>2, HolderFollows, HeldFacts
<1>8. ASSUME NEW p \in Proc, Label(p) PROVE WriterFollows'
  <2>1. pc[p] \in Held /\ job'[p] = "label" /\ view' = view
    BY <1>8, HeldFacts DEF Label, files
  <2>2. CASE pc' = [pc EXCEPT ![p] = "release"]
    <3>1. (\A q \in Proc : q # p => pc'[q] = pc[q]) /\ pc'[p] = "release"
      BY <1>0, <2>2 DEF TypeOK
    <3> QED BY <1>0, <2>1, <3>1, HolderFollows, HeldFacts
  <2>3. ASSUME NEW new \in Snapshot, Follows(view["map"], new),
               pc' = [pc EXCEPT ![p] = "journal"], snap' = [snap EXCEPT ![p] = new]
        PROVE  WriterFollows'
    <3>1. /\ \A q \in Proc : q # p => pc'[q] = pc[q]
          /\ pc'[p] = "journal" /\ snap'[p] = new
      BY <1>0, <2>3 DEF TypeOK
    <3> QED BY <1>0, <2>1, <2>3, <3>1, HolderFollows, HeldFacts
  <2> QED BY <1>0, <1>8, <2>2, <2>3, LabelSteps
<1>9. ASSUME NEW p \in Proc, Release(p) PROVE WriterFollows'
  BY <1>0, <1>9, WritersStay, HeldFacts DEF Release, Want, GoTo, files, TypeOK
<1>10. ASSUME NEW p \in Proc, ReadStamp(p) PROVE WriterFollows'
  BY <1>0, <1>10, WritersStay, HeldFacts DEF ReadStamp, GoTo, files, TypeOK
<1>11. ASSUME NEW p \in Proc, Compare(p) PROVE WriterFollows'
  BY <1>0, <1>11, WritersStay, HeldFacts DEF Compare, GoTo, files, TypeOK
<1>12. ASSUME NEW p \in Proc, Crawl(p) PROVE WriterFollows'
  BY <1>0, <1>12, WritersStay, HeldFacts DEF Crawl, Want, GoTo, files, TypeOK
<1>13. ASSUME NEW p \in Proc, Die(p) PROVE WriterFollows'
  BY <1>0, <1>13, WritersStay, HeldFacts DEF Die, GoTo, local, TypeOK
<1>14. CASE Edit
  BY <1>0, <1>14, WritersStay DEF Edit, files, local
<1>15. CASE PowerLoss
  <2>1. \A q \in Proc : pc'[q] \notin Stage \cup {"release"}
    BY <1>0, <1>15, HeldFacts DEF PowerLoss, Busy, TypeOK
  <2> QED BY <2>1, WritersNext, HeldFacts
<1>16. CASE UNCHANGED vars
  BY <1>0, <1>16, WritersStay DEF vars, files, local
<1> QED
  BY <1>1, <1>2, <1>3, <1>4, <1>5, <1>6, <1>7, <1>8, <1>9, <1>10, <1>11, <1>12,
     <1>13, <1>14, <1>15, <1>16 DEF Next

\* Whatever becomes of the disk, it stays one commit behind at most.
LEMMA DiskNext == LossesDontMix /\ Core /\ [Next]_vars => DiskFollows'
<1> SUFFICES ASSUME LossesDontMix, Core, [Next]_vars PROVE DiskFollows'
  OBVIOUS
<1>0. /\ TypeOK /\ LockIsHeld /\ OnlyWritersWait /\ FilesInv /\ DiskFollows
      /\ WriterFollows
  BY DEF Core, SnapshotsInv
<1>1. /\ Committed = CommittedOf(disk) /\ Committed' = CommittedOf(disk')
      /\ CommittedOf(view)' = CommittedOf(view')
  BY DEF Committed, CommittedOf, Nothing
<1>2. DiskFollows' <=>
        \/ CommittedOf(view') = CommittedOf(disk')
        \/ view'["journal"] # Nothing /\ Follows(CommittedOf(disk'), view'["journal"])
  BY <1>1
  DEF DiskFollows, Follows, Abstract!AbsorbsRun, Abstract!NamesScreens, Abstract!Revised,
      Abstract!KeepsGraph, Nothing
<1>3. ASSUME disk' = view' PROVE DiskFollows'
  BY <1>2, <1>3
<1>4. ASSUME view' = view, disk' \in {disk, view} PROVE DiskFollows'
  BY <1>0, <1>1, <1>2, <1>4 DEF DiskFollows
<1>5. ASSUME NEW p \in Proc, Write(p) PROVE DiskFollows'
  <2>1. pc[p] \in Stage /\ ~unsynced[p] /\ disk' = disk
    BY <1>5 DEF Write, Stage
  <2>2. /\ view'[FileOf(pc[p])] = IF pc[p] = "remove" THEN Nothing ELSE snap[p]
        /\ \A f \in File : f # FileOf(pc[p]) => view'[f] = view[f]
    BY <1>0, <1>5, <2>1 DEF Write, FileOf, TypeOK, File, Stage
  <2>3. /\ snap[p] # Nothing /\ Reached(view, pc[p], snap[p])
        /\ pc[p] = "remove" => disk["journal"] = snap[p]
    BY <1>0, <2>1 DEF FilesInv, WriterInStep
  <2>4. CASE pc[p] = "journal"
    <3>1. Committed = view["map"]
      BY <1>0, <2>3, <2>4 DEF DiskFollows, CommittedOf, Reached, Even
    <3>2. view'["journal"] = snap[p]
      BY <2>2, <2>4 DEF FileOf
    <3>3. Follows(view["map"], snap[p])
      BY <1>0, <2>4 DEF WriterFollows
    <3> QED BY <1>1, <1>2, <2>1, <2>3, <3>1, <3>2, <3>3
  <2>5. CASE pc[p] \in {"visits", "map", "provenance"}
    <3>1. view'["journal"] = view["journal"] /\ view["journal"] # Nothing
      BY <2>2, <2>3, <2>5, FileFacts DEF FileOf, Reached
    <3>2. CommittedOf(view') = CommittedOf(view)
      BY <3>1 DEF CommittedOf
    <3> QED BY <1>0, <1>1, <1>2, <2>1, <3>1, <3>2 DEF DiskFollows
  <2>6. CASE pc[p] = "remove"
    <3>1. view'["journal"] = Nothing /\ view'["map"] = snap[p]
      BY <2>2, <2>3, <2>6, FileFacts DEF FileOf, Reached
    <3> QED BY <1>2, <2>1, <2>3, <2>6, <3>1 DEF CommittedOf
  <2> QED BY <2>1, <2>4, <2>5, <2>6, HeldFacts
<1>6. CASE PowerLoss
  BY <1>3, <1>6 DEF PowerLoss
<1>7. CASE
    \/ Edit \/ UNCHANGED vars
    \/ \E p \in Proc : \/ Start(p) \/ Acquire(p) \/ Recover(p) \/ Sync(p) \/ Load(p)
                       \/ Commit(p) \/ Label(p) \/ Release(p) \/ ReadStamp(p)
                       \/ Compare(p) \/ Crawl(p) \/ Die(p)
  <2>1. view' = view /\ disk' \in {disk, view}
    BY <1>7
    DEF Edit, vars, Start, Acquire, Recover, Sync, Load, Commit, Label, Release, ReadStamp,
        Compare, Crawl, Die, files
  <2> QED BY <1>4, <2>1
<1> QED BY <1>5, <1>6, <1>7 DEF Next

\* The store starts with empty files that are in step.
LEMMA CoreInit == Init => Core
<1> SUFFICES ASSUME Init PROVE Core
  OBVIOUS
<1>1. TypeOK /\ LockIsHeld /\ OnlyWritersWait
  BY TypesInit, LocksInit
<1>2. FilesInv
  BY HeldFacts, FileFacts
  DEF Init, FilesInv, OneFileBehind, AlwaysRecoverable, Recoverable, Even, WriterInStep,
      JobSeesOneCommit
<1>3. RunsWereMade
  BY NoRuns DEF Init, RunsWereMade, InUse
<1>4. CrawlComesFirst /\ WriterFollows
  BY HeldFacts DEF Init, CrawlComesFirst, WriterFollows
<1>5. DiskFollows
  BY DEF Init, DiskFollows, Committed, CommittedOf
<1> QED BY <1>1, <1>2, <1>3, <1>4, <1>5 DEF Core, SnapshotsInv

\* Every step keeps files, lock and snapshots in step.
LEMMA CoreNext == LossesDontMix /\ Core /\ [Next]_vars => Core'
BY TypesNext, LocksNext, FilesNext, CommandsNext, RunsNext, FollowsNext, DiskNext
DEF Core, SnapshotsInv
-----------------------------------------------------------------------------
(* What the store promises, unless the power is lost after a death has left *)
(* the disk behind.                                                         *)

\* Every reachable state keeps files, lock and snapshots in step.
LEMMA CoreHolds == ASSUME LossesDontMix PROVE Spec => []Core
<1>1. Core /\ [Next]_vars => Core'
  BY CoreNext
<1> QED BY <1>1, CoreInit, PTL DEF Spec

\* Files in step refuse nobody.
LEMMA RefusedNext == Core /\ NeverRefused /\ [Next]_vars => NeverRefused'
<1> SUFFICES ASSUME Core, NeverRefused, [Next]_vars PROVE NeverRefused'
  OBVIOUS
<1>0. /\ TypeOK /\ LockIsHeld /\ OnlyWritersWait /\ FilesInv /\ DiskFollows
      /\ RunsWereMade /\ CrawlComesFirst
  BY DEF Core, SnapshotsInv
<1> USE DEF NeverRefused, GoTo, TypeOK
<1>5. ASSUME NEW p \in Proc, Sync(p) PROVE NeverRefused'
  <2>1. pc[p] \in Stage
    BY <1>0, <1>5 DEF Sync, OnlyWritersWait
  <2>2. pc'[p] # "failed"
    BY <1>0, <1>5, <2>1, HeldFacts DEF Sync, NextStage
  <2> QED BY <1>0, <1>5, <2>2 DEF Sync
<1>6. ASSUME NEW p \in Proc, Load(p) PROVE NeverRefused'
  BY <1>0, <1>6, LoadSteps
<1>7. ASSUME NEW p \in Proc, Commit(p) PROVE NeverRefused'
  BY <1>0, <1>7, CommitSteps
<1>8. ASSUME NEW p \in Proc, Label(p) PROVE NeverRefused'
  BY <1>0, <1>8, LabelSteps
<1>9. ASSUME NEW p \in Proc, \/ Start(p) \/ Acquire(p) \/ Recover(p) \/ Write(p) \/ Release(p)
                             \/ ReadStamp(p) \/ Compare(p) \/ Crawl(p) \/ Die(p)
      PROVE  NeverRefused'
  <2>1. CASE Start(p) \/ Acquire(p) \/ Recover(p) \/ Write(p) \/ Release(p)
    BY <1>0, <2>1 DEF Start, Acquire, Recover, Write, Release, Want, local
  <2>2. CASE ReadStamp(p) \/ Compare(p) \/ Crawl(p) \/ Die(p)
    BY <1>0, <2>2 DEF ReadStamp, Compare, Crawl, Die, Want, local
  <2> QED BY <1>9, <2>1, <2>2
<1>15. CASE Edit \/ PowerLoss \/ UNCHANGED vars
  BY <1>0, <1>15 DEF Edit, PowerLoss, vars
<1> QED BY <1>5, <1>6, <1>7, <1>8, <1>9, <1>15 DEF Next

\* However processes die and the power fails, no command is refused the snapshot
\* it asks for: recovery always finds files of one commit.
THEOREM NoneRefused == ASSUME LossesDontMix PROVE Spec => []NeverRefused
<1>1. Init => NeverRefused
  BY DEF Init, NeverRefused
<1>2. Spec => []Core
  BY CoreHolds
<1> QED BY <1>1, <1>2, RefusedNext, PTL DEF Spec

\* Every job under the lock starts from files of a single commit.
THEOREM JobsStartWhole == ASSUME LossesDontMix PROVE Spec => []WholeUnderLock
<1>1. Core => WholeUnderLock
  BY DEF Core, FilesInv, JobSeesOneCommit, Even, WholeUnderLock
<1>2. Spec => []Core
  BY CoreHolds
<1> QED BY <1>1, <1>2, PTL

\* A commit that was reported done survives every death and every power loss:
\* its run is in the snapshot on disk when the lock is dropped.
THEOREM ReportsAreDurable == ASSUME LossesDontMix PROVE Spec => ReportedIsDurable
<1> DEFINE Durable ==
      \A p \in Proc :
        pc[p] = "release" /\ job[p] = "commit" /\ pc'[p] # "release" /\ pc'[p] # "dead"
          => p \in Committed'.runs
<1>1. ASSUME Core, [Next]_vars PROVE Durable
  <2>0. /\ TypeOK /\ LockIsHeld /\ OnlyWritersWait /\ FilesInv /\ DiskFollows /\ WriterFollows
    BY <1>1 DEF Core, SnapshotsInv
  <2> SUFFICES ASSUME NEW p \in Proc, pc[p] = "release", job[p] = "commit",
                      pc'[p] # "release", pc'[p] # "dead"
               PROVE  p \in Committed'.runs
    OBVIOUS
  <2>1. disk' \in {disk, view}
    <3>1. ~PowerLoss
      BY DEF PowerLoss, Busy, TypeOK
    <3> QED BY <1>1, <3>1
            DEF Next, Start, Acquire, Recover, Write, Sync, Load, Commit, Label, Release,
                ReadStamp, Compare, Crawl, Die, Edit, vars, files
  <2>2. Committed' = Committed
    <3>1. CommittedOf(view) = Committed
      BY <2>0, BodyFacts DEF CommittedOf, Even
    <3> QED BY <2>1, <3>1 DEF Committed, CommittedOf, Nothing
  <2>3. Committed = view["map"]
    BY <2>0, BodyFacts
  <2> QED BY <2>0, <2>2, <2>3 DEF WriterFollows
<1>2. Spec => []Core
  BY CoreHolds
<1>3. Spec => [][Durable]_vars
  BY <1>1, <1>2, PTL DEF Spec
<1> QED BY <1>3 DEF ReportedIsDurable

\* Out of step, what everybody sees is what a writer has just put in the journal.
LEMMA ViewIsAhead ==
  ASSUME DeathsAreSynced, Core
  PROVE  \/ CommittedOf(view) = Committed
         \/ \E q \in Proc :
              /\ pc[q] = "journal" /\ ~recovering[q]
              /\ CommittedOf(view) = snap[q] /\ snap[q] # Nothing
              /\ view["provenance"] = disk["provenance"] /\ Committed = view["map"]
<1>0. TypeOK /\ LockIsHeld /\ OnlyWritersWait /\ FilesInv /\ DiskFollows
  BY DEF Core
<1>1. Committed = CommittedOf(disk)
  BY DEF Committed, CommittedOf
<1>2. CASE \A q \in Proc : ~unsynced[q]
  BY <1>0, <1>1, <1>2, DiskIsView DEF FilesInv
<1>3. CASE \E q \in Proc : unsynced[q]
  <2>1. PICK q \in Proc : unsynced[q]
    BY <1>3
  <2>2. pc[q] \in Stage /\ pc[q] \in Held
    BY <1>0, <2>1, HeldFacts DEF OnlyWritersWait
  <2>3. \A r \in Proc : unsynced[r] => r = q
    BY <1>0, <2>2, OnlyOneInside, HeldFacts DEF OnlyWritersWait
  <2>4. \A f \in File : f # FileOf(pc[q]) => view[f] = disk[f]
    BY <1>0, <2>3 DEF FilesInv, OneFileBehind
  <2>5. /\ snap[q] # Nothing /\ Reached(view, After(pc[q]), snap[q])
        /\ disk["journal"] \in {Nothing, snap[q]}
    BY <1>0, <2>1, <2>2 DEF FilesInv, WriterInStep
  <2>6. CASE pc[q] = "journal"
    <3>1. view["journal"] = snap[q] /\ view["provenance"] = disk["provenance"]
      BY <2>4, <2>5, <2>6, FileFacts DEF Reached, After, NextStage, FileOf
    <3>2. view["map"] = disk["map"]
      BY <2>4, <2>6, FileFacts DEF FileOf
    <3>3. ~recovering[q]
      BY <1>0, <2>6 DEF OnlyWritersWait
    <3> QED BY <1>1, <2>1, <2>5, <2>6, <3>1, <3>2, <3>3 DEF CommittedOf
  <2>7. CASE pc[q] = "map"
    <3>1. view["journal"] = snap[q] /\ view["journal"] = disk["journal"]
      BY <2>4, <2>5, <2>7, FileFacts DEF Reached, After, NextStage, FileOf
    <3> QED BY <1>1, <2>5, <3>1 DEF CommittedOf
  <2>8. CASE pc[q] \in {"visits", "provenance"}
    BY <1>1, <2>4, <2>8, FileFacts DEF FileOf, CommittedOf
  <2>9. CASE pc[q] = "remove"
    <3>1. view["journal"] = Nothing /\ view["map"] = snap[q] /\ view["map"] = disk["map"]
      BY <2>4, <2>5, <2>9, FileFacts DEF Reached, After, Even, FileOf
    <3> QED BY <1>1, <2>5, <3>1 DEF CommittedOf
  <2> QED BY <2>2, <2>6, <2>7, <2>8, <2>9, HeldFacts
<1> QED BY <1>2, <1>3

\* The snapshot everybody sees is the committed one, or one that follows it.
LEMMA ViewFollows ==
  ASSUME Core
  PROVE  CommittedOf(view) = Committed \/ Follows(Committed, CommittedOf(view))
BY DEF Core, DiskFollows, CommittedOf

\* Each step is a step of the abstract store or leaves it alone.
LEMMA StoreStep == LossesDontMix /\ Core /\ [Next]_vars => [Abstract!Next]_(Abstract!vars)
<1> SUFFICES ASSUME LossesDontMix, Core, [Next]_vars
             PROVE  Abstract!Next \/ (Committed' = Committed /\ seen' = seen)
  BY DEF Abstract!vars
<1>0. TypeOK /\ LockIsHeld /\ OnlyWritersWait /\ FilesInv /\ DiskFollows
  BY DEF Core
<1>1. ASSUME disk' = disk PROVE Committed' = Committed
  BY <1>1 DEF Committed, Nothing
<1>2. ASSUME disk' = view, seen' = seen
      PROVE  Abstract!Next \/ (Committed' = Committed /\ seen' = seen)
  <2>1. Committed' = CommittedOf(view)
    BY <1>2 DEF Committed, CommittedOf, Nothing
  <2> QED BY <1>2, <2>1, ViewFollows DEF Abstract!Next, Abstract!Commit, Follows
<1>3. ASSUME NEW p \in Proc, Sync(p)
      PROVE  Abstract!Next \/ (Committed' = Committed /\ seen' = seen)
  BY <1>2, <1>3 DEF Sync
<1>4. ASSUME NEW p \in Proc, Die(p)
      PROVE  Abstract!Next \/ (Committed' = Committed /\ seen' = seen)
  BY <1>1, <1>2, <1>4 DEF Die, local
<1>5. CASE PowerLoss
  <2>1. disk' \in {view, disk} /\ seen' = seen
    BY <1>0, <1>5, LossIsOneOfTwo, LossNeedsSync DEF PowerLoss, local
  <2> QED BY <1>1, <1>2, <2>1
<1>6. ASSUME NEW p \in Proc, Load(p) PROVE Abstract!Next
  <2>1. seen' = [seen EXCEPT ![p] = Committed] /\ disk' = disk
    BY <1>0, <1>6, LoadSteps DEF Load, files
  <2> QED BY <1>1, <2>1 DEF Abstract!Next, Abstract!Read
<1>7. CASE
    \/ Edit \/ UNCHANGED vars
    \/ \E p \in Proc : \/ Start(p) \/ Acquire(p) \/ Recover(p) \/ Write(p) \/ Commit(p)
                       \/ Label(p) \/ Release(p) \/ ReadStamp(p) \/ Compare(p) \/ Crawl(p)
  BY <1>1, <1>7
  DEF Edit, vars, Start, Acquire, Recover, Write, Commit, Label, Release, ReadStamp, Compare,
      Crawl, files, local
<1> QED BY <1>3, <1>4, <1>5, <1>6, <1>7 DEF Next

\* Lock, journal, renames and recovery make one atomic snapshot that whole
\* commits replace and whole reads see, whatever dies in between.
THEOREM StoreImplementsSnapshot == ASSUME LossesDontMix PROVE Spec => ImplementsSnapshotStore
<1>1. Init => Abstract!Init
  BY FileFacts DEF Init, Abstract!Init, Committed
<1>2. Spec => []Core
  BY CoreHolds
<1>3. Spec => Abstract!Spec
  BY <1>1, <1>2, StoreStep, PTL DEF Spec, Abstract!Spec
<1> QED BY <1>3 DEF ImplementsSnapshotStore
=============================================================================
