------------------------- MODULE MapSourceProofs --------------------------
(***************************************************************************)
(* Proofs about MapStore and the source it is stamped with, while nobody   *)
(* edits the source under a command.                                       *)
(***************************************************************************)
EXTENDS MapProofs

\* The screens are of the source as it is.
Now(screens) == \A x \in screens : x[1] = src

\* No snapshot is stamped with a source that is yet to come.
StampsAreReal == \A s \in Snapshot : InUse(s) => s.src <= src

\* The stamp never runs ahead of the commit.
StampIsBehind == \A fs \in {view, disk} : fs["provenance"].src <= CommittedOf(fs).src

\* The committed snapshot was stamped with the source as it is.
Stamped == Committed = Nothing \/ Committed.src = src

\* The screens are of the source as it is, or the current map shows them already.
NoneIsWorse(screens) == \A x \in screens : x[1] = src \/ Misleads(x)

\* What a command knows of the source while it is under way.
Knows(p) ==
  /\ pc[p] = "journal" /\ ~LabelsBlindly(p) => NoneIsWorse(snap[p].graph)
  /\ pc[p] \in Stage /\ ~recovering[p] => snap[p].src = src
  /\ pc[p] = "release" /\ job[p] = "commit" => view["map"].src = src
  /\ job[p] = "commit" =>
       /\ Now(crawl[p].screens)
       /\ crawl[p].complete \/ (Kind[p] = "scan" /\ fresh[p] = "Current")
  /\ job[p] \in {"names", "label"} /\ crawl[p].screens # {} => Stamped
  /\ (pc[p] = "crawl" \/ job[p] = "commit") /\ Kind[p] # "rebuild" => fresh[p] # "unknown"
  /\ fresh[p] \in {"Missing", "Current"} => Stamped
  /\ fresh[p] = "Current" => Committed # Nothing
  /\ pc[p] \in {"compare", "fingerprint"} \/ (pc[p] = "release" /\ job[p] = "load") =>
       IF seen[p] = Nothing THEN Stamped ELSE Committed # Nothing
  /\ pc[p] = "fingerprint" /\ stamp[p] # Nothing /\ stamp[p].src = src => Stamped

\* A command knows this from its start to its end, and nothing before.
CommandsKnow ==
  \A p \in Proc :
    /\ Busy(p) => Knows(p)
    /\ pc[p] = "idle" => fresh[p] = "unknown"

\* The invariant of the source, beside that of the files.
SourceInv == StampsAreReal /\ StampIsBehind /\ CommandsKnow

Aware == Core /\ SourceInv

-----------------------------------------------------------------------------
(* How the committed snapshot and its stamp move. *)

\* A command is under way from its start until it ends.
LEMMA BusyFacts ==
  \A p \in Proc :
    Busy(p) <=> pc[p] \notin {"idle", "returned", "failed", "dead"}
BY DEF Busy

\* What is committed is a snapshot in use, and so is what everybody sees.
LEMMA CommittedInUse ==
  ASSUME Core
  PROVE  /\ InUse(Committed) /\ Committed \in Snapshot
         /\ InUse(CommittedOf(view)) /\ CommittedOf(view) \in Snapshot
         /\ \A f \in File : InUse(view[f]) /\ view[f] \in Snapshot /\ disk[f] \in Snapshot
         /\ \A q \in Proc : InUse(snap[q]) /\ snap[q] \in Snapshot
BY FileFacts DEF Core, TypeOK, InUse, Committed, CommittedOf

\* What everybody sees is committed, or a writer has just stamped it with the
\* source as it is.
LEMMA ViewIsStamped ==
  ASSUME DeathsAreSynced, Aware
  PROVE  \/ CommittedOf(view) = Committed
         \/ /\ CommittedOf(view) # Nothing /\ CommittedOf(view).src = src
            /\ view["provenance"] = disk["provenance"]
            /\ \E q \in Proc : pc[q] = "journal" /\ CommittedOf(view) = snap[q]
<1> SUFFICES ASSUME NEW q \in Proc, pc[q] = "journal", ~recovering[q] PROVE snap[q].src = src
  BY ViewIsAhead DEF Aware
<1>1. Busy(q)
  BY BusyFacts
<1> QED BY <1>1, HeldFacts DEF Aware, SourceInv, CommandsKnow, Knows

\* A command under way finds the source as it was, and a commit since then stamped.
LEMMA StampedStays ==
  ASSUME ~EditsDuringScan, DeathsAreSynced, Aware, [Next]_vars,
         NEW p \in Proc, Busy(p), Busy(p)'
  PROVE  /\ src' = src
         /\ \/ Committed' = Committed
            \/ /\ Committed' # Nothing /\ Committed'.src = src
               /\ \E q \in Proc : pc[q] = "journal" /\ Committed' = snap[q]
<1>0. TypeOK
  BY DEF Aware, Core
<1>1. ~Edit /\ ~PowerLoss
  BY <1>0 DEF Edit, PowerLoss, Busy, TypeOK
<1>2. src' = src
  BY <1>1 DEF Next, Start, Acquire, Recover, Write, Sync, Load, Commit, Label, Release,
              ReadStamp, Compare, Crawl, Die, vars
<1>3. disk' \in {disk, view}
  BY <1>1 DEF Next, Start, Acquire, Recover, Write, Sync, Load, Commit, Label, Release,
              ReadStamp, Compare, Crawl, Die, vars, files
<1>4. Committed = CommittedOf(disk) /\ Committed' = CommittedOf(disk')
  BY DEF Committed, CommittedOf, Nothing
<1> QED BY <1>2, <1>3, <1>4, ViewIsStamped

\* A save stamps with the source as it is, and the source only moves on.
LEMMA RealNext ==
  Aware /\ [Next]_vars => StampsAreReal'
<1> SUFFICES ASSUME Aware, [Next]_vars PROVE StampsAreReal'
  OBVIOUS
<1>0. /\ TypeOK /\ LockIsHeld /\ OnlyWritersWait /\ FilesInv /\ DiskFollows /\ Core
      /\ RunsWereMade /\ CrawlComesFirst /\ StampsAreReal
  BY DEF Aware, Core, SnapshotsInv, SourceInv
<1>1. Snapshot' = Snapshot /\ \A s \in Snapshot : s.src \in Nat
  BY MapStoreAssumption DEF Snapshot, Seen, Version
<1>2. src \in Nat /\ src' \in {src, src + 1}
  <2>1. src \in Nat
    BY <1>0, MapStoreAssumption DEF TypeOK, Version
  <2>2. src' \in {src, src + 1}
    BY DEF Next, Start, Acquire, Recover, Write, Sync, Load, Commit, Label, Release,
           ReadStamp, Compare, Crawl, Die, Edit, PowerLoss, vars
  <2> QED BY <2>1, <2>2
<1>3. ASSUME NEW p \in Proc, Commit(p) \/ Label(p) PROVE snap'[p].src <= src
  <2>1. CASE snap' = snap
    BY <1>0, <2>1, CommittedInUse DEF StampsAreReal
  <2>2. ASSUME NEW new \in Snapshot, snap' = [snap EXCEPT ![p] = new], new.src = src
        PROVE  snap'[p].src <= src
    <3>1. snap'[p] = new
      BY <1>0, <2>2 DEF TypeOK
    <3> QED BY <1>2, <2>2, <3>1
  <2>3. snap' = snap \/ \E new \in Snapshot : snap' = [snap EXCEPT ![p] = new] /\ new.src = src
    <3>1. CASE Commit(p)
      BY <1>0, <3>1, CommitSteps
    <3>2. CASE Label(p)
      BY <1>0, <3>2, LabelSteps
    <3> QED BY <1>3, <3>1, <3>2
  <2> QED BY <2>1, <2>2, <2>3
<1>4. Nothing.src <= src
  BY <1>2 DEF Nothing
<1>5. ASSUME NEW s \in Snapshot, InUse(s)' PROVE s.src <= src
  BY <1>0, <1>3, <1>4, <1>5, InUseNext DEF StampsAreReal
<1>6. \A s \in Snapshot' : InUse(s)' => s.src <= src'
  BY <1>1, <1>2, <1>5
<1> QED BY <1>6 DEF StampsAreReal

\* The stamp is never of a later source than what is committed.
LEMMA BehindNext ==
  DeathsAreSynced /\ Aware /\ [Next]_vars => StampIsBehind'
<1> SUFFICES ASSUME DeathsAreSynced, Aware, [Next]_vars PROVE StampIsBehind'
  OBVIOUS
<1>0. /\ TypeOK /\ LockIsHeld /\ OnlyWritersWait /\ FilesInv /\ DiskFollows /\ Core
      /\ StampsAreReal /\ StampIsBehind /\ CommandsKnow
  BY DEF Aware, Core, SourceInv
<1> DEFINE Behind(fs) == fs["provenance"].src <= CommittedOf(fs).src
<1>1. Behind(view) /\ Behind(disk)
  BY <1>0 DEF StampIsBehind
<1>2. ASSUME Behind(view'), Behind(disk') PROVE StampIsBehind'
  BY <1>2 DEF StampIsBehind, CommittedOf, Nothing
<1>3. ASSUME NEW p \in Proc, Write(p) PROVE Behind(view')
  <2>1. pc[p] \in Stage /\ ~unsynced[p] /\ Busy(p)
    BY <1>3, HeldFacts, BusyFacts DEF Write, Stage
  <2>2. /\ view'[FileOf(pc[p])] = IF pc[p] = "remove" THEN Nothing ELSE snap[p]
        /\ \A f \in File : f # FileOf(pc[p]) => view'[f] = view[f]
    BY <1>0, <1>3, <2>1 DEF Write, FileOf, TypeOK, File, Stage
  <2>3. snap[p] # Nothing /\ Reached(view, pc[p], snap[p])
    BY <1>0, <2>1 DEF FilesInv, WriterInStep
  <2>4. snap[p].src \in Nat
    <3>1. snap[p] \in Snapshot
      BY <1>0 DEF TypeOK
    <3> QED BY <3>1, MapStoreAssumption DEF Snapshot, Version
  <2>5. CASE pc[p] = "journal"
    <3>1. ~recovering[p] /\ snap[p].src = src
      BY <1>0, <2>1, <2>5 DEF OnlyWritersWait, CommandsKnow, Knows
    <3>2. view["provenance"].src <= src
      BY <1>0, FileFacts, CommittedInUse DEF StampsAreReal
    <3>3. view'["journal"] = snap[p] /\ view'["provenance"] = view["provenance"]
      BY <2>2, <2>5, FileFacts DEF FileOf
    <3> QED BY <2>3, <3>1, <3>2, <3>3 DEF CommittedOf
  <2>6. CASE pc[p] \in {"visits", "map"}
    <3>1. /\ view'["journal"] = view["journal"] /\ view["journal"] = snap[p]
          /\ view'["provenance"] = view["provenance"]
      BY <2>2, <2>3, <2>6, FileFacts DEF FileOf, Reached
    <3> QED BY <1>1, <2>3, <3>1 DEF CommittedOf
  <2>7. CASE pc[p] = "provenance"
    <3>1. view'["journal"] = snap[p] /\ view'["provenance"] = snap[p]
      BY <2>2, <2>3, <2>7, FileFacts DEF FileOf, Reached
    <3> QED BY <2>3, <2>4, <3>1 DEF CommittedOf
  <2>8. CASE pc[p] = "remove"
    <3>1. /\ view'["journal"] = Nothing
          /\ view'["provenance"] = snap[p] /\ view'["map"] = snap[p]
      BY <2>2, <2>3, <2>8, FileFacts DEF FileOf, Reached
    <3> QED BY <2>4, <3>1 DEF CommittedOf
  <2> QED BY <2>1, <2>5, <2>6, <2>7, <2>8, HeldFacts
<1>4. CASE PowerLoss
  <2>1. view' \in {view, disk} /\ disk' = view'
    BY <1>0, <1>4, LossIsOneOfTwo
  <2> QED BY <1>1, <1>2, <2>1
<1>5. ASSUME NEW p \in Proc, Write(p) PROVE StampIsBehind'
  BY <1>1, <1>2, <1>3, <1>5 DEF Write
<1>6. CASE
    \/ Edit \/ UNCHANGED vars
    \/ \E p \in Proc : \/ Start(p) \/ Acquire(p) \/ Recover(p) \/ Sync(p) \/ Load(p)
                       \/ Commit(p) \/ Label(p) \/ Release(p) \/ ReadStamp(p)
                       \/ Compare(p) \/ Crawl(p) \/ Die(p)
  <2>1. view' = view /\ disk' \in {disk, view}
    BY <1>6
    DEF Edit, vars, Start, Acquire, Recover, Sync, Load, Commit, Label, Release, ReadStamp,
        Compare, Crawl, Die, files
  <2> QED BY <1>1, <1>2, <2>1
<1> QED BY <1>4, <1>5, <1>6 DEF Next
\* What the next state asks of a command, with the source as it was.
LEMMA KnowsMeans ==
  ASSUME NEW p \in Proc, src' = src
  PROVE  Knows(p)' <=>
           /\ pc'[p] = "journal" /\ ~(job'[p] = "label" /\ crawl'[p].screens = {})
                => NoneIsWorse(snap[p].graph)'
           /\ pc'[p] \in Stage /\ ~recovering'[p] => snap'[p].src = src
           /\ pc'[p] = "release" /\ job'[p] = "commit" => view'["map"].src = src
           /\ job'[p] = "commit" =>
                /\ Now(crawl'[p].screens)
                /\ crawl'[p].complete \/ (Kind[p] = "scan" /\ fresh'[p] = "Current")
           /\ job'[p] \in {"names", "label"} /\ crawl'[p].screens # {} => Stamped'
           /\ (pc'[p] = "crawl" \/ job'[p] = "commit") /\ Kind[p] # "rebuild"
                => fresh'[p] # "unknown"
           /\ fresh'[p] \in {"Missing", "Current"} => Stamped'
           /\ fresh'[p] = "Current" => Committed' # Nothing
           /\ pc'[p] \in {"compare", "fingerprint"} \/ (pc'[p] = "release" /\ job'[p] = "load")
                => IF seen'[p] = Nothing THEN Stamped' ELSE Committed' # Nothing
           /\ pc'[p] = "fingerprint" /\ stamp'[p] # Nothing /\ stamp'[p].src = src => Stamped'
BY DEF Knows, Now, Stage, File, Nothing, LabelsBlindly, NoneIsWorse

\* The steps of the others leave a command what it is at and what it knows.
LEMMA OthersStay ==
  ASSUME TypeOK, LockIsHeld, NEW p \in Proc, NEW q \in Proc, q # p,
         \/ Start(q) \/ Acquire(q) \/ Recover(q) \/ Write(q) \/ Sync(q) \/ Load(q) \/ Commit(q)
         \/ Label(q) \/ Release(q) \/ ReadStamp(q) \/ Compare(q) \/ Crawl(q) \/ Die(q)
  PROVE  /\ pc'[p] = pc[p] /\ job'[p] = job[p] /\ recovering'[p] = recovering[p]
         /\ snap'[p] = snap[p] /\ seen'[p] = seen[p] /\ stamp'[p] = stamp[p]
         /\ fresh'[p] = fresh[p] /\ crawl'[p] = crawl[p]
         /\ pc[p] = "release" => view' = view
<1> USE DEF TypeOK, GoTo, Want, files, local
<1>1. CASE Start(q) \/ Acquire(q) \/ Release(q)
  BY <1>1 DEF Start, Acquire, Release
<1>2. CASE Recover(q) \/ Sync(q)
  BY <1>2 DEF Recover, Sync
<1>3. CASE Write(q)
  BY <1>3, OnlyOneInside, HeldFacts DEF Write, Stage
<1>4. CASE Load(q)
  BY <1>4 DEF Load, Fail
<1>5. CASE Commit(q) \/ Label(q)
  BY <1>5 DEF Commit, Label, Save, Fail
<1>6. CASE ReadStamp(q) \/ Compare(q) \/ Crawl(q)
  BY <1>6 DEF ReadStamp, Compare, Crawl
<1>7. CASE Die(q)
  BY <1>7 DEF Die
<1> QED BY <1>1, <1>2, <1>3, <1>4, <1>5, <1>6, <1>7

\* While a writer waits for its journal, no screen of its snapshot is made worse.
LEMMA WorseStays ==
  ASSUME DeathsAreSynced, Aware, NEW p \in Proc, pc[p] = "journal",
         src' = src, NoneIsWorse(snap[p].graph), snap'[p] = snap[p],
         \/ Committed' = Committed
         \/ /\ Committed' # Nothing /\ Committed'.src = src
            /\ \E q \in Proc : pc[q] = "journal" /\ Committed' = snap[q]
  PROVE  NoneIsWorse(snap[p].graph)'
<1>1. CASE Committed' = Committed
  BY <1>1 DEF NoneIsWorse, Misleads, CommittedFreshness, FreshnessOf, Nothing
<1>2. ASSUME NEW q \in Proc, pc[q] = "journal", Committed' = snap[q],
             Committed' # Nothing, Committed'.src = src
      PROVE  NoneIsWorse(snap[p].graph)'
  <2>1. q = p
    BY <1>2, OnlyOneInside, HeldFacts DEF Aware, Core
  <2> QED BY <1>2, <2>1 DEF NoneIsWorse, Misleads, CommittedFreshness, FreshnessOf, Nothing
<1> QED BY <1>1, <1>2

\* A stamped snapshot that is written again misleads no more than before.
LEMMA AgainIsNoWorse ==
  ASSUME Aware, Stamped, Committed' = Committed, src' = src
  PROVE  NoneIsWorse(Committed.graph)'
<1>1. CASE Committed = Nothing
  BY <1>1, NoRuns DEF NoneIsWorse
<1>2. CASE Committed # Nothing /\ Committed.src = src
  BY <1>2 DEF NoneIsWorse, Misleads, CommittedFreshness, FreshnessOf, Nothing
<1> QED BY <1>1, <1>2 DEF Stamped

\* A commit merges what it has just seen into a map that is missing or current, or
\* it replaces the map.
LEMMA CommitIsNoWorse ==
  ASSUME Aware, NEW p \in Proc, Commit(p), src' = src
  PROVE  NoneIsWorse(snap[p].graph)'
<1>0. /\ TypeOK /\ LockIsHeld /\ OnlyWritersWait /\ FilesInv /\ DiskFollows /\ Core
      /\ RunsWereMade /\ CrawlComesFirst /\ CommandsKnow
  BY DEF Aware, Core, SnapshotsInv, SourceInv
<1>1. PICK new \in Snapshot :
        /\ snap' = [snap EXCEPT ![p] = new]
        /\ new.graph = (IF Replacing(p) THEN {} ELSE view["map"].graph) \cup crawl[p].screens
  BY <1>0, CommitSteps
<1>2. pc[p] = "body" /\ job[p] = "commit" /\ Busy(p) /\ Committed = view["map"]
  BY <1>0, BodyFacts, BusyFacts DEF Commit
<1>3. Knows(p) /\ Now(crawl[p].screens)
  BY <1>0, <1>2 DEF CommandsKnow, Knows
<1>4. Committed' = Committed
  BY DEF Commit, files, Committed, Nothing
<1>5. ~Replacing(p) => NoneIsWorse(view["map"].graph)'
  <2> SUFFICES ASSUME ~Replacing(p) PROVE NoneIsWorse(view["map"].graph)'
    OBVIOUS
  <2>1. fresh[p] \in {"Missing", "Current"}
    BY <1>0, <1>2, <1>3 DEF Knows, Replacing, TypeOK
  <2>2. Stamped
    BY <1>3, <2>1 DEF Knows
  <2>3. view' = view
    BY DEF Commit, files
  <2> QED BY <1>2, <1>4, <2>2, <2>3, AgainIsNoWorse
<1>6. snap'[p] = new /\ view' = view
  BY <1>0, <1>1 DEF TypeOK, Commit, files
<1> QED BY <1>1, <1>3, <1>5, <1>6 DEF NoneIsWorse, Now

\* Labels made after a commit go to a map that is still stamped with its source.
LEMMA LabelIsNoWorse ==
  ASSUME Aware, NEW p \in Proc, Label(p), src' = src, pc'[p] = "journal",
         crawl[p].screens # {}
  PROVE  NoneIsWorse(snap[p].graph)'
<1>0. /\ TypeOK /\ LockIsHeld /\ OnlyWritersWait /\ FilesInv /\ DiskFollows /\ CommandsKnow
  BY DEF Aware, Core, SourceInv
<1>1. pc[p] = "body" /\ job[p] = "label" /\ Busy(p) /\ Committed = view["map"]
  BY <1>0, BodyFacts, BusyFacts DEF Label
<1>2. Stamped
  BY <1>0, <1>1 DEF CommandsKnow, Knows
<1>3. Committed' = Committed /\ view' = view
  BY DEF Label, files, Committed, Nothing
<1>4. NoneIsWorse(view["map"].graph)'
  BY <1>1, <1>2, <1>3, AgainIsNoWorse
<1>5. snap'[p].graph = view["map"].graph
  <2>1. pc' # [pc EXCEPT ![p] = "release"]
    BY <1>0 DEF TypeOK
  <2>2. PICK new \in Snapshot :
          snap' = [snap EXCEPT ![p] = new] /\ new.graph = view["map"].graph
    BY <1>0, <2>1, LabelSteps
  <2> QED BY <1>0, <2>2 DEF TypeOK
<1> QED BY <1>3, <1>4, <1>5 DEF NoneIsWorse

\* What a command under way knows of the source stays true.
LEMMA KnowsNext ==
  ASSUME ~EditsDuringScan, DeathsAreSynced, Aware, [Next]_vars, NEW p \in Proc, Busy(p), Busy(p)'
  PROVE  Knows(p)'
<1>0. /\ TypeOK /\ LockIsHeld /\ OnlyWritersWait /\ FilesInv /\ DiskFollows /\ Core
      /\ RunsWereMade /\ CrawlComesFirst /\ WriterFollows
      /\ StampsAreReal /\ StampIsBehind /\ Knows(p)
  BY DEF Aware, Core, SnapshotsInv, SourceInv, CommandsKnow
<1>1. /\ src' = src
      /\ \/ Committed' = Committed
         \/ /\ Committed' # Nothing /\ Committed'.src = src
            /\ \E q \in Proc : pc[q] = "journal" /\ Committed' = snap[q]
  BY StampedStays
<1>2. /\ Stamped => Stamped'
      /\ Committed # Nothing => Committed' # Nothing
  BY <1>1 DEF Stamped, Nothing
<1>a. /\ pc[p] = "journal" /\ ~(job[p] = "label" /\ crawl[p].screens = {})
           => NoneIsWorse(snap[p].graph)
      /\ pc[p] \in Stage /\ ~recovering[p] => snap[p].src = src
      /\ pc[p] = "release" /\ job[p] = "commit" => view["map"].src = src
      /\ job[p] = "commit" =>
           /\ Now(crawl[p].screens)
           /\ crawl[p].complete \/ (Kind[p] = "scan" /\ fresh[p] = "Current")
      /\ job[p] \in {"names", "label"} /\ crawl[p].screens # {} => Stamped
      /\ (pc[p] = "crawl" \/ job[p] = "commit") /\ Kind[p] # "rebuild" => fresh[p] # "unknown"
      /\ fresh[p] \in {"Missing", "Current"} => Stamped
      /\ fresh[p] = "Current" => Committed # Nothing
      /\ pc[p] \in {"compare", "fingerprint"} \/ (pc[p] = "release" /\ job[p] = "load") =>
           IF seen[p] = Nothing THEN Stamped ELSE Committed # Nothing
      /\ pc[p] = "fingerprint" /\ stamp[p] # Nothing /\ stamp[p].src = src => Stamped
  BY <1>0 DEF Knows, LabelsBlindly
<1>c. pc[p] = "journal" /\ NoneIsWorse(snap[p].graph) /\ snap'[p] = snap[p]
        => NoneIsWorse(snap[p].graph)'
  BY <1>0, <1>1, WorseStays
<1>b. pc[p] # "idle" /\ pc'[p] # "dead" /\ pc'[p] # "returned" /\ pc'[p] # "failed"
  BY DEF Busy
<1>3. ASSUME /\ pc'[p] = pc[p] /\ job'[p] = job[p] /\ recovering'[p] = recovering[p]
             /\ snap'[p] = snap[p] /\ seen'[p] = seen[p] /\ stamp'[p] = stamp[p]
             /\ fresh'[p] = fresh[p] /\ crawl'[p] = crawl[p]
             /\ pc[p] = "release" => view' = view
      PROVE  Knows(p)'
  BY <1>1, <1>2, <1>3, <1>a, <1>c, KnowsMeans
<1>4. ASSUME NEW q \in Proc, q # p,
             \/ Start(q) \/ Acquire(q) \/ Recover(q) \/ Write(q) \/ Sync(q) \/ Load(q)
             \/ Commit(q) \/ Label(q) \/ Release(q) \/ ReadStamp(q) \/ Compare(q) \/ Crawl(q)
             \/ Die(q)
      PROVE  Knows(p)'
  BY <1>0, <1>3, <1>4, OthersStay
<1>5. CASE Acquire(p)
  <2>1. /\ pc'[p] = "recover" /\ job' = job /\ fresh' = fresh /\ crawl' = crawl
    BY <1>0, <1>5 DEF Acquire, GoTo, local, TypeOK
  <2> QED BY <1>1, <1>2, <1>5, <1>a, <2>1, KnowsMeans, HeldFacts DEF Acquire
<1>6. CASE Recover(p)
  <2>1. /\ pc'[p] = "body" \/ (pc'[p] = "visits" /\ recovering'[p])
        /\ job' = job /\ fresh' = fresh /\ crawl' = crawl
    BY <1>0, <1>6 DEF Recover, GoTo, TypeOK
  <2> QED BY <1>1, <1>2, <1>6, <1>a, <2>1, KnowsMeans, HeldFacts DEF Recover
<1>7. CASE Write(p)
  <2>1. pc[p] # "release" /\ pc' = pc /\ UNCHANGED local
    BY <1>7, HeldFacts DEF Write, Stage
  <2> QED BY <1>3, <2>1 DEF local
<1>8. CASE Sync(p)
  <2>1. unsynced[p] /\ pc[p] \in Stage
    BY <1>0, <1>8 DEF Sync, OnlyWritersWait
  <2>2. /\ view' = view /\ snap' = snap /\ job' = job /\ fresh' = fresh /\ crawl' = crawl
    BY <1>8 DEF Sync
  <2>3. CASE pc[p] # "remove"
    <3>1. pc'[p] \in {"visits", "map", "provenance", "remove"} /\ recovering'[p] = recovering[p]
      BY <1>0, <1>8, <2>1, <2>3, HeldFacts DEF Sync, GoTo, NextStage, TypeOK
    <3> QED BY <1>1, <1>2, <1>a, <2>1, <2>2, <3>1, KnowsMeans, HeldFacts
  <2>4. CASE pc[p] = "remove"
    <3>1. pc'[p] = IF recovering[p] THEN "body" ELSE "release"
      BY <1>0, <1>8, <2>4 DEF Sync, GoTo, TypeOK
    <3>2. view["map"] = snap[p]
      BY <1>0, <2>1, <2>4 DEF FilesInv, WriterInStep, Reached, After
    <3>3. ~recovering[p] => job[p] \in {"commit", "label"}
      BY <1>0, <2>1 DEF WriterFollows
    <3> QED BY <1>1, <1>2, <1>a, <2>1, <2>2, <3>1, <3>2, <3>3, KnowsMeans, HeldFacts
  <2> QED BY <2>3, <2>4
<1>9. CASE Load(p)
  <2>1. /\ pc'[p] = "release" /\ job' = job /\ job[p] \in {"load", "names"}
        /\ seen'[p] = Committed /\ fresh' = fresh /\ crawl' = crawl
    BY <1>0, <1>9, LoadSteps DEF Load, TypeOK
  <2>2. Committed = Nothing => Stamped'
    BY <1>2 DEF Stamped
  <2> QED BY <1>1, <1>2, <1>a, <2>1, <2>2, KnowsMeans, HeldFacts
<1>10. CASE Commit(p)
  <2>1. PICK new \in Snapshot :
          /\ pc' = [pc EXCEPT ![p] = "journal"] /\ snap' = [snap EXCEPT ![p] = new]
          /\ new.src = src
    BY <1>0, <1>10, CommitSteps
  <2>2. /\ pc'[p] = "journal" /\ snap'[p].src = src
        /\ job' = job /\ fresh' = fresh /\ crawl' = crawl
    BY <1>0, <1>10, <2>1 DEF Commit, TypeOK
  <2>3. NoneIsWorse(snap[p].graph)'
    BY <1>1, <1>10, CommitIsNoWorse
  <2> QED BY <1>1, <1>2, <1>a, <2>2, <2>3, KnowsMeans, HeldFacts
<1>11. CASE Label(p)
  <2>1. job' = job /\ job[p] = "label" /\ fresh' = fresh /\ crawl' = crawl
    BY <1>11 DEF Label
  <2>2. pc'[p] = "release" \/ (pc'[p] = "journal" /\ snap'[p].src = src)
    <3>1. ASSUME NEW new \in Snapshot, pc' = [pc EXCEPT ![p] = "journal"],
                 snap' = [snap EXCEPT ![p] = new], new.src = src
          PROVE  pc'[p] = "journal" /\ snap'[p].src = src
      BY <1>0, <3>1 DEF TypeOK
    <3>2. pc' = [pc EXCEPT ![p] = "release"] => pc'[p] = "release"
      BY <1>0 DEF TypeOK
    <3> QED BY <1>0, <1>11, <3>1, <3>2, LabelSteps
  <2>3. pc'[p] = "journal" /\ crawl[p].screens # {} => NoneIsWorse(snap[p].graph)'
    BY <1>1, <1>11, LabelIsNoWorse
  <2> QED BY <1>1, <1>2, <1>a, <2>1, <2>2, <2>3, KnowsMeans, HeldFacts
<1>12. CASE Release(p)
  <2>1. /\ pc[p] = "release" /\ seen' = seen /\ fresh' = fresh /\ crawl' = crawl
        /\ \/ job[p] = "load" /\ pc'[p] = "compare" /\ job'[p] = "load"
           \/ job[p] = "commit" /\ pc'[p] = "want" /\ job'[p] = "names"
           \/ job[p] = "names" /\ pc'[p] = "want" /\ job'[p] = "label"
    BY <1>0, <1>12, <1>b DEF Release, Want, GoTo, TypeOK
  <2>2. job[p] = "commit" => Stamped
    BY <1>0, <1>a, <2>1, BodyFacts DEF Stamped
  <2> QED BY <1>1, <1>2, <1>a, <2>1, <2>2, KnowsMeans, HeldFacts
<1>13. CASE ReadStamp(p)
  <2>1. /\ pc[p] = "compare" /\ pc'[p] = "fingerprint" /\ stamp'[p] = view["provenance"]
        /\ job' = job /\ seen' = seen /\ fresh' = fresh /\ crawl' = crawl
    BY <1>0, <1>13 DEF ReadStamp, GoTo, TypeOK
  <2>2. view["provenance"].src <= Committed.src
    <3>1. Committed = CommittedOf(disk)
      BY DEF Committed, CommittedOf
    <3> QED BY <1>0, <3>1, ViewIsStamped DEF StampIsBehind
  <2>3. Committed.src <= src /\ Committed.src \in Nat /\ src \in Nat
    <3>1. Committed \in Snapshot /\ Committed.src <= src
      BY <1>0, CommittedInUse DEF StampsAreReal
    <3>2. \A s \in Snapshot : s.src \in Nat
      BY MapStoreAssumption DEF Snapshot, Version
    <3>3. src \in Nat
      BY <1>0, MapStoreAssumption DEF TypeOK, Version
    <3> QED BY <3>1, <3>2, <3>3
  <2>4. view["provenance"].src = src => Stamped
    BY <2>2, <2>3 DEF Stamped
  <2> QED BY <1>1, <1>2, <1>a, <2>1, <2>4, KnowsMeans, HeldFacts
<1>14. CASE Compare(p)
  <2>1. /\ pc[p] = "fingerprint" /\ pc'[p] = "crawl" /\ fresh'[p] = FreshnessOf(seen[p], stamp[p])
        /\ job' = job /\ crawl' = crawl
    BY <1>0, <1>14, <1>b DEF Compare, GoTo, TypeOK
  <2>2. /\ fresh'[p] # "unknown"
        /\ fresh'[p] = "Missing" => seen[p] = Nothing
        /\ fresh'[p] = "Current" => /\ seen[p] # Nothing
                                    /\ stamp[p] # Nothing /\ stamp[p].src = src
    BY <2>1 DEF FreshnessOf
  <2>3. job[p] = "load"
    BY <1>0, <2>1 DEF CrawlComesFirst
  <2> QED BY <1>1, <1>2, <1>a, <2>1, <2>2, <2>3, KnowsMeans, HeldFacts
<1>15. CASE Crawl(p)
  <2>1. /\ pc[p] = "crawl" /\ pc'[p] = "want" /\ fresh' = fresh
        /\ \/ job'[p] = "names" /\ crawl'[p].screens = {}
           \/ /\ job'[p] = "commit" /\ Now(crawl'[p].screens)
              /\ crawl'[p].complete \/ (Kind[p] = "scan" /\ fresh[p] = "Current")
    BY <1>0, <1>15, <1>b DEF Crawl, Want, GoTo, MayCommit, MayLabelOnly, TypeOK, Now
  <2> QED BY <1>1, <1>2, <1>a, <2>1, KnowsMeans, HeldFacts
<1>16. ~Start(p) /\ ~Die(p) /\ ~Edit /\ ~PowerLoss
  BY <1>0, <1>b DEF Start, Die, Edit, PowerLoss, Busy, GoTo, TypeOK
<1>17. CASE UNCHANGED vars
  BY <1>3, <1>17 DEF vars, files, local
<1> QED
  BY <1>4, <1>5, <1>6, <1>7, <1>8, <1>9, <1>10, <1>11, <1>12, <1>13, <1>14, <1>15, <1>16, <1>17
  DEF Next

\* A command that starts knows nothing yet.
LEMMA StartKnows ==
  ASSUME Aware, [Next]_vars, NEW p \in Proc, ~Busy(p), Busy(p)'
  PROVE  Knows(p)'
<1>0. TypeOK /\ LockIsHeld /\ OnlyWritersWait /\ CrawlComesFirst /\ CommandsKnow
  BY DEF Aware, Core, SnapshotsInv, SourceInv
<1>1. pc[p] \in {"idle", "returned", "failed", "dead"} /\ pc'[p] # pc[p]
  BY DEF Busy
<1>2. Start(p)
  <2>1. pc[p] \notin File \cup {"remove"} /\ ~unsynced[p]
    BY <1>0, <1>1, HeldFacts DEF OnlyWritersWait, Stage
  <2>2. /\ ~Acquire(p) /\ ~Recover(p) /\ ~Write(p) /\ ~Sync(p) /\ ~Load(p) /\ ~Commit(p)
        /\ ~Label(p) /\ ~Release(p) /\ ~ReadStamp(p) /\ ~Compare(p) /\ ~Crawl(p) /\ ~Die(p)
    BY <1>1, <2>1
    DEF Acquire, Recover, Write, Sync, Load, Commit, Label, Release, ReadStamp, Compare, Crawl,
        Die, Busy
  <2>3. ~Edit /\ ~PowerLoss /\ ~UNCHANGED vars
    BY <1>0, <1>1 DEF Edit, PowerLoss, vars, Busy, TypeOK
  <2> QED BY <1>0, <1>1, <2>2, <2>3, OthersStay DEF Next
<1>3. /\ fresh[p] = "unknown" /\ fresh' = fresh /\ src' = src
      /\ job'[p] = "load" /\ pc'[p] \in {"crawl", "want"} /\ (pc'[p] = "crawl" => Kind[p] = "rebuild")
  BY <1>0, <1>2 DEF Start, Want, GoTo, TypeOK, CrawlComesFirst, CommandsKnow
<1> QED BY <1>3, KnowsMeans, HeldFacts

\* Only a command that has not started is idle.
LEMMA IdleStays ==
  ASSUME TypeOK, OnlyWritersWait, [Next]_vars, NEW p \in Proc, pc'[p] = "idle"
  PROVE  pc[p] = "idle" /\ fresh'[p] = fresh[p]
<1> USE DEF TypeOK, GoTo
<1>1. ASSUME NEW q \in Proc, Sync(q) PROVE pc[p] = "idle" /\ fresh' = fresh
  <2>1. pc[q] \in Stage
    BY <1>1 DEF Sync, OnlyWritersWait
  <2>2. pc'[q] # "idle"
    BY <1>1, <2>1, HeldFacts DEF Sync, NextStage
  <2> QED BY <1>1, <2>2 DEF Sync
<1>2. ASSUME NEW q \in Proc, Commit(q) \/ Label(q) \/ Load(q) PROVE pc[p] = "idle" /\ fresh' = fresh
  BY <1>2 DEF Commit, Label, Load, Save, Fail
<1>3. ASSUME NEW q \in Proc, Compare(q) PROVE pc[p] = "idle" /\ fresh'[p] = fresh[p]
  BY <1>3 DEF Compare
<1>4. ASSUME NEW q \in Proc, \/ Start(q) \/ Acquire(q) \/ Recover(q) \/ Write(q) \/ Release(q)
                             \/ ReadStamp(q) \/ Crawl(q) \/ Die(q)
      PROVE  pc[p] = "idle" /\ fresh' = fresh
  BY <1>4 DEF Start, Acquire, Recover, Write, Release, ReadStamp, Crawl, Die, Want, local
<1>5. CASE Edit \/ PowerLoss \/ UNCHANGED vars
  BY <1>5 DEF Edit, PowerLoss, vars, local
<1> QED BY <1>1, <1>2, <1>3, <1>4, <1>5 DEF Next

\* The store starts with nothing stamped and nothing known.
LEMMA AwareInit == Init => Aware
<1> SUFFICES ASSUME Init PROVE Aware
  OBVIOUS
<1>1. Core
  BY CoreInit
<1>2. StampsAreReal /\ StampIsBehind
  BY NoRuns, FileFacts DEF Init, StampsAreReal, StampIsBehind, InUse, CommittedOf, Now
<1>3. CommandsKnow
  BY BusyFacts DEF Init, CommandsKnow
<1> QED BY <1>1, <1>2, <1>3 DEF Aware, SourceInv

\* Every step keeps stamps real and commands informed.
LEMMA AwareNext == ~EditsDuringScan /\ DeathsAreSynced /\ Aware /\ [Next]_vars => Aware'
<1> SUFFICES ASSUME ~EditsDuringScan, DeathsAreSynced, Aware, [Next]_vars PROVE Aware'
  OBVIOUS
<1>1. Core' /\ StampsAreReal' /\ StampIsBehind'
  BY CoreNext, RealNext, BehindNext DEF Aware, LossesDontMix
<1>2. ASSUME NEW p \in Proc
      PROVE  (Busy(p)' => Knows(p)') /\ (pc'[p] = "idle" => fresh'[p] = "unknown")
  <2>1. Busy(p)' => Knows(p)'
    BY KnowsNext, StartKnows
  <2>2. pc'[p] = "idle" => fresh'[p] = "unknown"
    BY IdleStays DEF Aware, Core, SourceInv, CommandsKnow
  <2> QED BY <2>1, <2>2
<1>3. CommandsKnow'
  BY <1>2 DEF CommandsKnow
<1> QED BY <1>1, <1>3 DEF Aware, SourceInv

\* Stamps stay real and commands informed as long as nobody edits under a command.
LEMMA AwareHolds == ASSUME ~EditsDuringScan, DeathsAreSynced PROVE Spec => []Aware
<1>1. Aware /\ [Next]_vars => Aware'
  BY AwareNext
<1> QED BY <1>1, AwareInit, PTL DEF Spec

\* While nobody edits the source under a command, a map that counts as current
\* comes to show a screen of another source in one way only: by the labels of a
\* rebuild that saw nothing.
THEOREM OldScreensAreKeptOut ==
  ASSUME ~EditsDuringScan, DeathsAreSynced PROVE Spec => OldScreensStayOut
<1> DEFINE Blamed ==
      \A s \in Seen : Misleads(s)' /\ ~Misleads(s) => \E p \in Proc : LabelsBlindly(p)
<1>1. ASSUME Aware, [Next]_vars PROVE Blamed
  <2> SUFFICES ASSUME NEW s \in Seen, Misleads(s)', ~Misleads(s)
               PROVE  \E p \in Proc : LabelsBlindly(p)
    OBVIOUS
  <2>0. TypeOK /\ OnlyWritersWait /\ Core /\ StampsAreReal /\ CommandsKnow
    BY <1>1 DEF Aware, Core, SourceInv
  <2>1. Committed' # Nothing /\ Committed'.src = src' /\ s \in Committed'.graph /\ s[1] # src'
    BY DEF Misleads, CommittedFreshness, FreshnessOf, Nothing
  <2>2. ~Edit
    <3> SUFFICES ASSUME Edit PROVE FALSE
      OBVIOUS
    <3>1. Committed' = Committed /\ src' = src + 1
      BY DEF Edit, files, Committed, Nothing
    <3>2. Committed \in Snapshot /\ Committed.src <= src
      BY <2>0, CommittedInUse DEF StampsAreReal
    <3>3. src \in Nat /\ Committed.src \in Nat
      BY <2>0, <3>2, MapStoreAssumption DEF TypeOK, Version, Snapshot
    <3> QED BY <2>1, <3>1, <3>2, <3>3
  <2>3. src' = src
    BY <1>1, <2>2 DEF Next, Start, Acquire, Recover, Write, Sync, Load, Commit, Label, Release,
                      ReadStamp, Compare, Crawl, Die, PowerLoss, vars
  <2>4. Committed' # Committed
    BY <2>1, <2>3 DEF Misleads, CommittedFreshness, FreshnessOf
  <2>5. disk' \in {disk, view}
    <3>1. CASE PowerLoss
      BY <2>0, <3>1, LossIsOneOfTwo DEF Core
    <3>2. CASE ~PowerLoss
      BY <1>1, <3>2
      DEF Next, Start, Acquire, Recover, Write, Sync, Load, Commit, Label, Release,
          ReadStamp, Compare, Crawl, Die, Edit, vars, files
    <3> QED BY <3>1, <3>2
  <2>6. Committed = CommittedOf(disk) /\ Committed' = CommittedOf(disk')
    BY DEF Committed, CommittedOf, Nothing
  <2>7. PICK q \in Proc : pc[q] = "journal" /\ Committed' = snap[q]
    BY <1>1, <2>4, <2>5, <2>6, ViewIsStamped
  <2>8. Knows(q)
    BY <2>0, <2>7, BusyFacts DEF CommandsKnow
  <2>9. LabelsBlindly(q)
    BY <2>1, <2>3, <2>7, <2>8 DEF Knows, NoneIsWorse
  <2> QED BY <2>9
<1>2. Spec => []Aware
  BY AwareHolds
<1>3. Spec => [][Blamed]_vars
  BY <1>1, <1>2, PTL DEF Spec
<1> QED BY <1>3 DEF OldScreensStayOut

\* An incomplete scan is only merged into a map that is current at that moment,
\* although the scan learned so before its crawl.
THEOREM IncompleteStaysOut ==
  ASSUME ~EditsDuringScan, DeathsAreSynced PROVE Spec => IncompleteOnlyIntoCurrent
<1> DEFINE Merges ==
      \A p \in Proc :
        (Commit(p) /\ pc'[p] = "journal" /\ ~crawl[p].complete)
          => CommittedFreshness = "Current"
<1>1. Aware => Merges
  <2> SUFFICES ASSUME Aware, NEW p \in Proc, Commit(p), ~crawl[p].complete
               PROVE  CommittedFreshness = "Current"
    OBVIOUS
  <2>1. pc[p] = "body" /\ job[p] = "commit" /\ Busy(p)
    BY BusyFacts DEF Commit
  <2>2. Knows(p)
    BY <2>1 DEF Aware, SourceInv, CommandsKnow
  <2>3. Committed # Nothing /\ Stamped
    BY <2>1, <2>2 DEF Knows
  <2> QED BY <2>3 DEF Stamped, CommittedFreshness, FreshnessOf
<1>2. Spec => []Aware
  BY AwareHolds
<1>3. Spec => [][Merges]_vars
  BY <1>1, <1>2, PTL
<1> QED BY <1>3 DEF IncompleteOnlyIntoCurrent
=============================================================================
