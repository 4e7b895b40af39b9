----------------------------- MODULE ReproProofs -----------------------------
(***************************************************************************)
(* Proofs about ReproStore, for every set of commands and number of        *)
(* deaths: a required guard was earned, and it falls back to quarantine    *)
(* only in the ways that StatusIsKept names (from IInv); and commands that *)
(* do not overlap leave every kept guard whole (from Serial).              *)
(***************************************************************************)
EXTENDS ReproStore, TLAPS

\* Whatever says "required", in the store or in a command, was earned.
Earned ==
  /\ \A i \in Ids : meta[i].status = "required" => i \in earned
  /\ \A i \in Ids : last[i].status = "required" => i \in earned
  /\ \A p \in Procs : view[p].status = "required" => on[p] \in earned
  /\ \A p \in Procs : draft[p].status = "required" => on[p] \in earned

\* A meta that can be read is the last one that was written.
ReadsTheLast == \A i \in Ids : meta[i] \in Meta => meta[i] = last[i]

Saving == {"replay", "replaying", "save", "saving"}

Reads(p) == job[p] \in {"check", "keep", "strict"}

\* A command that is not behind has read the status that was last written of its
\* case, and no command saves less than it read.
ViewStands ==
  \A p \in Procs : Reads(p) /\ Running(p) =>
    /\ p \in behind \/ view[p] \in {NoMeta, PendingMeta} \/ view[p].status = last[on[p]].status
    /\ pc[p] \in Saving /\ view[p].status = "required" => draft[p].status = "required"

\* A command runs with the meta of a case,
RunsACase == \A p \in Procs : pc[p] = "run" => view[p] \in Meta

\* and a check has it for the next locale.
ChecksACase ==
  \A p \in Procs : job[p] = "check" /\ pc[p] \in Saving => view[p] \in Meta

\* Only a check can be of the simplified case, and what simplify has adopted.
OneCase ==
  \A p \in Procs :
    job[p] # "check" /\ (job[p] # "simplify" \/ pc[p] \in {"idle", "run"}) => on[p] = Old

IInv == TypeOK /\ Earned /\ ReadsTheLast /\ ViewStands /\ RunsACase /\ ChecksACase /\ OneCase

\* The two marks of a file without a meta are none, and a pending meta is one.
LEMMA MetaFacts ==
  /\ \A m \in Meta : m.status \in Status /\ m # NoMeta /\ m # TornMeta
  /\ NoMeta.status = "none" /\ TornMeta.status = "torn"
  /\ PendingMeta \in Meta /\ PendingMeta.status = "quarantined"
BY DEF Meta, Status, NoMeta, TornMeta, PendingMeta

\* What is loaded is what the store has, and an earned one at that.
LEMMA LoadedFacts ==
  ASSUME IInv, NEW i \in Ids
  PROVE  /\ Loaded(i) \in Meta \cup {NoMeta}
         /\ Loaded(i) # NoMeta => Loaded(i) = last[i]
         /\ Loaded(i).status = "required" => i \in earned
BY MetaFacts DEF IInv, Loaded, ReadsTheLast, Earned

\* Marking a result keeps what was required, and makes it so only on a pass.
LEMMA MarkedFacts ==
  ASSUME NEW was \in Meta, NEW outcome \in Outcome
  PROVE  /\ Marked(was, outcome) \in Meta
         /\ was.status = "required" => Marked(was, outcome).status = "required"
         /\ Marked(was, outcome).status = "required" =>
              was.status = "required" \/ outcome = "pass"
BY DEF Marked, Promotes, Meta, Status

\* Keeping a guard makes it required only if it was, or if the check is strict.
LEMMA KeptFacts ==
  ASSUME NEW p \in Procs, NEW existing \in Meta \cup {NoMeta}
  PROVE  /\ Kept(p, existing) \in Meta
         /\ existing.status = "required" => Kept(p, existing).status = "required"
         /\ Kept(p, existing).status = "required" =>
              existing.status = "required" \/ job[p] = "strict"
<1>1. CASE existing = NoMeta
  BY <1>1, MetaFacts DEF Kept, Meta, Status
<1>2. CASE existing \in Meta
  <2>1. existing # NoMeta
    BY <1>2, MetaFacts
  <2>2. Kept(p, existing) =
          [existing EXCEPT !.status = IF job[p] = "strict" THEN "required" ELSE @]
    BY <2>1 DEF Kept
  <2>3. QED
    BY <1>2, <2>2 DEF Meta, Status
<1>3. QED
  BY <1>1, <1>2

\* The store starts with the invariant.
LEMMA InvInit == Init => IInv
<1> SUFFICES ASSUME Init PROVE IInv
  OBVIOUS
<1>1. meta \in [Ids -> Meta \cup {NoMeta}]
  <2>1. [status : Status, stamped : {TRUE}] \subseteq Meta
    BY DEF Meta
  <2>2. QED
    BY <2>1 DEF Init
<1>2. TypeOK
  BY <1>1 DEF Init, TypeOK, File
<1>3. Earned
  BY <1>1, MetaFacts DEF Init, Earned
<1>4. ReadsTheLast /\ ViewStands /\ RunsACase /\ ChecksACase /\ OneCase
  BY DEF Init, ReadsTheLast, ViewStands, RunsACase, ChecksACase, Saving, OneCase, Running
<1>5. QED
  BY <1>2, <1>3, <1>4 DEF IInv

-----------------------------------------------------------------------------
(* One lemma per step of a command. *)

\* It is kept by a command that reads the meta it is about,
LEMMA ResolveKeeps ==
  ASSUME IInv, NEW p \in Procs, Resolve(p)
  PROVE  IInv'
<1> USE DEF IInv
<1>1. PICK found \in Referred(on[p]) :
        /\ view' = [view EXCEPT ![p] = found]
        /\ pc' = [pc EXCEPT ![p] = IF found # NoMeta THEN "run" ELSE "done"]
        /\ shared' \in BOOLEAN
  BY DEF Resolve, Begin, GoTo, TypeOK
<1>2. /\ found \in Meta \cup {NoMeta}
      /\ found \in {NoMeta, PendingMeta} \/ found = last[on[p]]
      /\ found.status = "required" => on[p] \in earned
  BY <1>1, LoadedFacts, MetaFacts DEF Referred, TypeOK
<1>3. UNCHANGED <<storeVars, job, on, draft, lost, asked, earned, last, behind>>
  BY DEF Resolve
<1>4. TypeOK'
  BY <1>1, <1>2, <1>3 DEF TypeOK, storeVars
<1>5. Earned'
  BY <1>1, <1>2, <1>3, MetaFacts DEF Earned, TypeOK, storeVars
<1>6. ReadsTheLast'
  BY <1>3 DEF ReadsTheLast, storeVars
<1>7. ViewStands'
  BY <1>1, <1>2, <1>3 DEF ViewStands, TypeOK, Running, Reads, Saving
<1>8. RunsACase' /\ ChecksACase' /\ OneCase'
  BY <1>1, <1>2, <1>3, MetaFacts
  DEF RunsACase, ChecksACase, Saving, OneCase, Resolve, Begin, TypeOK
<1>9. QED
  BY <1>4, <1>5, <1>6, <1>7, <1>8

\* by the runs of a check,
LEMMA CheckKeeps ==
  ASSUME IInv, NEW p \in Procs, Check(p)
  PROVE  IInv'
<1> USE DEF IInv
<1>1. UNCHANGED <<storeVars, job, on, view, lost, asked, last, behind, shared>>
  BY DEF Check
<1>2. CASE GoTo(p, "done") /\ UNCHANGED <<draft, earned>>
  BY <1>1, <1>2
  DEF GoTo, TypeOK, Earned, ReadsTheLast, ViewStands, RunsACase, ChecksACase, OneCase,
      storeVars, Running, Reads, Saving
<1>3. CASE /\ GoTo(p, "save")
           /\ \E outcome \in Outcome :
                /\ draft' = [draft EXCEPT ![p] = Marked(view[p], outcome)]
                /\ earned' = IF outcome = "pass" THEN earned \cup {on[p]} ELSE earned
  <2>1. PICK outcome \in Outcome :
          /\ draft' = [draft EXCEPT ![p] = Marked(view[p], outcome)]
          /\ earned' = IF outcome = "pass" THEN earned \cup {on[p]} ELSE earned
    BY <1>3
  <2>2. view[p] \in Meta /\ on[p] \in Ids
    BY DEF Check, RunsACase, TypeOK
  <2>3. PICK m \in Meta :
          /\ draft' = [draft EXCEPT ![p] = m]
          /\ view[p].status = "required" => m.status = "required"
          /\ m.status = "required" => on[p] \in earned'
    BY <2>1, <2>2, MarkedFacts DEF Earned
  <2>4. earned \subseteq earned' /\ earned' \subseteq Ids
    BY <2>1, <2>2 DEF TypeOK
  <2>5. pc' = [pc EXCEPT ![p] = "save"]
    BY <1>3 DEF GoTo
  <2> HIDE DEF IInv
  <2>6. TypeOK'
    BY <1>1, <2>3, <2>4, <2>5 DEF IInv, TypeOK, storeVars
  <2>7. Earned'
    BY <1>1, <2>3, <2>4 DEF IInv, TypeOK, Earned, storeVars
  <2>8. ReadsTheLast' /\ RunsACase' /\ ChecksACase'
    BY <1>1, <2>2, <2>5
    DEF IInv, TypeOK, ReadsTheLast, RunsACase, ChecksACase, Saving, storeVars
  <2>9. ViewStands' /\ OneCase'
    BY <1>1, <2>3, <2>5 DEF IInv, Check, TypeOK, ViewStands, OneCase, Running, Reads, Saving
  <2>10. QED
    BY <2>6, <2>7, <2>8, <2>9 DEF IInv
<1>4. QED
  BY <1>2, <1>3 DEF Check

\* by those of simplify,
LEMMA VerifyKeeps ==
  ASSUME IInv, NEW p \in Procs, Verify(p)
  PROVE  IInv'
<1>1. UNCHANGED <<storeVars, job, view, lost, last, behind, shared>> /\ job[p] = "simplify"
  BY DEF Verify
<1>2. CASE GoTo(p, "done") /\ UNCHANGED <<draft, on, asked, earned>>
  BY <1>1, <1>2
  DEF IInv, GoTo, TypeOK, Earned, ReadsTheLast, ViewStands, RunsACase, ChecksACase, OneCase,
      storeVars, Running, Reads, Saving
<1>3. CASE ~(GoTo(p, "done") /\ UNCHANGED <<draft, on, asked, earned>>)
  <2>1. PICK m \in Meta :
          /\ draft' = [draft EXCEPT ![p] = m]
          /\ m.status = view[p].status
    <3>1. view[p] \in Meta
      BY DEF Verify, IInv, RunsACase
    <3> DEFINE m == [status |-> view[p].status, stamped |-> TRUE]
    <3>2. m \in Meta /\ m.status = view[p].status
      BY <3>1 DEF Meta
    <3>3. QED
      BY <1>3, <3>2 DEF Verify
  <2>2. /\ on' = [on EXCEPT ![p] = New]
        /\ asked' = asked \cup {New}
        /\ earned' = IF view[p].status = "required" THEN earned \cup {New} ELSE earned
        /\ pc' = [pc EXCEPT ![p] = "replay"]
    BY <1>3 DEF Verify, GoTo
  <2>3. TypeOK'
    BY <1>1, <2>1, <2>2 DEF IInv, TypeOK, storeVars, Ids
  <2>4. Earned'
    BY <1>1, <2>1, <2>2 DEF IInv, TypeOK, Earned, storeVars, Ids
  <2>5. ReadsTheLast' /\ RunsACase' /\ ChecksACase'
    BY <1>1, <2>2 DEF IInv, TypeOK, ReadsTheLast, RunsACase, ChecksACase, Saving, storeVars
  <2>6. ViewStands' /\ OneCase'
    BY <1>1, <2>1, <2>2 DEF IInv, TypeOK, ViewStands, OneCase, Running, Reads, Saving
  <2>7. QED
    BY <2>3, <2>4, <2>5, <2>6 DEF IInv
<1>4. QED
  BY <1>2, <1>3

\* by a keep,
LEMMA KeepKeeps ==
  ASSUME IInv, NEW p \in Procs, Keep(p)
  PROVE  IInv'
<1>1. UNCHANGED <<storeVars, job, on, lost, last, behind>> /\ job[p] \in {"keep", "strict"}
  BY DEF Keep
<1>2. PICK found \in Meta \cup {NoMeta} :
        /\ found = Loaded(Old)
        /\ found # NoMeta => found = last[Old]
        /\ found.status = "required" => Old \in earned
  BY LoadedFacts DEF Ids
<1>3. PICK m \in Meta :
        /\ m = Kept(p, found)
        /\ found.status = "required" => m.status = "required"
        /\ m.status = "required" => found.status = "required" \/ job[p] = "strict"
  BY <1>2, KeptFacts
<1>4. /\ draft' = [draft EXCEPT ![p] = m]
      /\ view' = [view EXCEPT ![p] = found]
      /\ asked' = asked \cup {Old}
      /\ earned' = IF job[p] = "strict" THEN earned \cup {Old} ELSE earned
      /\ pc' = [pc EXCEPT ![p] = "replay"]
      /\ shared' \in BOOLEAN
  BY <1>2, <1>3 DEF Keep, Keeping, Begin, GoTo, IInv, TypeOK
<1>5. on[p] = Old
  BY DEF Keep, IInv, OneCase
<1>6. TypeOK'
  BY <1>1, <1>4 DEF IInv, TypeOK, storeVars, Ids
<1>7. Earned'
  BY <1>1, <1>2, <1>3, <1>4, <1>5 DEF IInv, TypeOK, Earned, storeVars, Ids
<1>8. ReadsTheLast' /\ RunsACase' /\ ChecksACase'
  BY <1>1, <1>4 DEF IInv, TypeOK, ReadsTheLast, RunsACase, ChecksACase, Saving, storeVars
<1>9. ViewStands' /\ OneCase'
  BY <1>1, <1>2, <1>3, <1>4, <1>5 DEF IInv, TypeOK, ViewStands, OneCase, Running, Reads, Saving
<1>10. QED
  BY <1>6, <1>7, <1>8, <1>9 DEF IInv

\* by a pull,
LEMMA PullKeeps ==
  ASSUME IInv, NEW p \in Procs, Pull(p)
  PROVE  IInv'
<1>1. PICK m \in Meta :
        /\ draft' = [draft EXCEPT ![p] = m]
        /\ m.status = "quarantined"
  <2> DEFINE m == [status |-> "quarantined", stamped |-> TRUE]
  <2>1. m \in Meta /\ m.status = "quarantined"
    BY DEF Meta, Status
  <2>2. QED
    BY <2>1 DEF Pull
<1>2. /\ job[p] = "pull"
      /\ pc' = [pc EXCEPT ![p] = "save"]
      /\ replay' = [replay EXCEPT ![Old] = "whole"]
      /\ asked' = asked \cup {Old}
      /\ shared' \in BOOLEAN
      /\ UNCHANGED <<meta, pending, job, on, view, lost, earned, last, behind>>
  BY DEF Pull, Begin, GoTo, IInv, TypeOK
<1>3. TypeOK'
  BY <1>1, <1>2 DEF IInv, TypeOK, Ids, File
<1>4. Earned' /\ ReadsTheLast' /\ RunsACase' /\ ChecksACase'
  BY <1>1, <1>2 DEF IInv, TypeOK, Earned, ReadsTheLast, RunsACase, ChecksACase, Saving
<1>5. ViewStands' /\ OneCase'
  BY <1>1, <1>2 DEF IInv, TypeOK, ViewStands, OneCase, Running, Reads, Saving
<1>6. QED
  BY <1>3, <1>4, <1>5 DEF IInv

\* The file operations before meta.json is written.
LEMMA FilesKeep ==
  ASSUME IInv, NEW p \in Procs, EmptyReplay(p) \/ WriteReplay(p) \/ EmptyMeta(p)
  PROVE  IInv'
<1>1. /\ UNCHANGED <<pending, localVars, historyVars>>
      /\ pc[p] \in Saving /\ pc' \in [Procs -> Saving \cup {pc[q] : q \in Procs}]
      /\ \E where \in Saving : pc' = [pc EXCEPT ![p] = where]
      /\ lost' \subseteq lost
      /\ replay' \in [Ids -> File]
      /\ meta' = meta \/ meta' = [meta EXCEPT ![on[p]] = TornMeta]
  BY DEF EmptyReplay, WriteReplay, EmptyMeta, GoTo, Saving, File, IInv, TypeOK
<1>2. TypeOK'
  BY <1>1 DEF IInv, TypeOK, localVars, historyVars, Saving
<1>3. Earned' /\ ReadsTheLast'
  BY <1>1, MetaFacts DEF IInv, TypeOK, Earned, ReadsTheLast, localVars, historyVars
<1>4. ViewStands' /\ OneCase' /\ RunsACase' /\ ChecksACase'
  BY <1>1
  DEF IInv, TypeOK, ViewStands, OneCase, RunsACase, ChecksACase, Running, Reads, Saving,
      localVars, historyVars
<1>5. QED
  BY <1>2, <1>3, <1>4 DEF IInv

\* by a meta that is written in place,
LEMMA WriteMetaKeeps ==
  ASSUME IInv, NEW p \in Procs, WriteMeta(p)
  PROVE  IInv'
<1>1. /\ UNCHANGED <<replay, pending, job, on, asked, earned, shared>>
      /\ pc[p] = "saving"
      /\ lost' = lost \ {p}
  BY DEF WriteMeta
<1>a. PICK where \in {"run", "retire", "done"} :
        /\ pc' = [pc EXCEPT ![p] = where]
        /\ view' = IF where = "run" THEN view ELSE [view EXCEPT ![p] = NoMeta]
        /\ where = "run" => job[p] = "check"
        /\ where = "retire" => job[p] = "simplify"
  BY DEF WriteMeta, Onwards, GoTo, IInv, TypeOK, Job
<1>b. draft' = [draft EXCEPT ![p] = NoMeta]
  BY DEF WriteMeta
<1>c. where = "run" => view[p] \in Meta
  BY <1>1, <1>a DEF IInv, ChecksACase, Saving
<1>d. OneCase' /\ RunsACase' /\ ChecksACase'
  BY <1>1, <1>a, <1>c DEF IInv, TypeOK, OneCase, RunsACase, ChecksACase, Saving
<1>2. CASE UNCHANGED <<meta, last, behind>>
  <2>1. TypeOK' /\ Earned' /\ ReadsTheLast'
    BY <1>1, <1>a, <1>b, <1>2, MetaFacts DEF IInv, TypeOK, Earned, ReadsTheLast
  <2>2. ViewStands'
    BY <1>1, <1>a, <1>b, <1>2 DEF IInv, TypeOK, ViewStands, Running, Reads, Saving
  <2>3. QED
    BY <1>d, <2>1, <2>2 DEF IInv
<1>3. CASE /\ behind' = behind \cup Overtaken(p)
           /\ last' = [last EXCEPT ![on[p]] = draft[p]]
           /\ \/ meta' = [meta EXCEPT ![on[p]] = draft[p]]
              \/ meta' = [meta EXCEPT ![on[p]] = TornMeta]
  <2>1. TypeOK'
    BY <1>1, <1>a, <1>b, <1>3 DEF IInv, TypeOK, Overtaken
  <2>2. Earned'
    BY <1>1, <1>a, <1>b, <1>3, MetaFacts DEF IInv, TypeOK, Earned
  <2>3. ReadsTheLast'
    BY <1>1, <1>3, MetaFacts DEF IInv, TypeOK, ReadsTheLast
  <2>4. ASSUME NEW q \in Procs, Reads(q), pc'[q] \notin {"idle", "done", "dead"},
               q \notin behind', view'[q] \notin {NoMeta, PendingMeta}
        PROVE  view'[q].status = last'[on[q]].status
    <3>1. Running(q) /\ q \notin behind /\ q \notin Overtaken(p) /\ view'[q] = view[q]
      BY <1>1, <1>a, <1>3, <2>4 DEF IInv, TypeOK, Running, Reads
    <3>2. view[q].status = last[on[q]].status
      BY <2>4, <3>1 DEF IInv, ViewStands
    <3>3. on[q] = on[p] => view[q].status = draft[p].status
      BY <3>1 DEF Overtaken
    <3>4. view'[q].status = view[q].status
      BY <3>1
    <3>5. CASE on[q] = on[p]
      <4>1. last'[on[q]] = draft[p]
        BY <1>3, <3>5 DEF IInv, TypeOK
      <4>2. QED
        BY <3>3, <3>4, <3>5, <4>1
    <3>6. CASE on[q] # on[p]
      <4>1. last'[on[q]] = last[on[q]]
        BY <1>3, <3>6 DEF IInv, TypeOK
      <4>2. QED
        BY <3>2, <3>4, <4>1
    <3>7. QED
      BY <3>5, <3>6
  <2>5. ViewStands'
    BY <1>1, <1>a, <1>b, <2>4 DEF IInv, TypeOK, ViewStands, Running, Reads, Saving
  <2>6. QED
    BY <1>d, <2>1, <2>2, <2>3, <2>5 DEF IInv
<1>4. QED
  BY <1>2, <1>3 DEF WriteMeta

\* by the removal of the case that is superseded,
LEMMA RetireKeeps ==
  ASSUME IInv, NEW p \in Procs, Retire(p) \/ RemoveDir(p)
  PROVE  IInv'
<1>1. /\ UNCHANGED <<pending, localVars, earned, last, behind, shared>>
      /\ pc[p] \in {"retire", "retiring"}
      /\ pc' = pc \/ \E where \in {"retiring", "done"} : pc' = [pc EXCEPT ![p] = where]
      /\ replay' \in [Ids -> File]
      /\ meta' = meta \/ meta' = [meta EXCEPT ![Old] = NoMeta]
      /\ asked' \subseteq asked /\ lost' \subseteq Procs
  <2>1. CASE Retire(p)
    BY <2>1 DEF Retire, GoTo, IInv, TypeOK, storeVars
  <2>2. CASE RemoveDir(p)
    BY <2>2 DEF RemoveDir, GoTo, IInv, TypeOK, File, historyVars
  <2>3. QED
    BY <2>1, <2>2
<1>2. TypeOK'
  BY <1>1 DEF IInv, TypeOK, localVars
<1>3. Earned' /\ ReadsTheLast'
  BY <1>1, MetaFacts DEF IInv, TypeOK, Earned, ReadsTheLast, localVars, Ids
<1>4. ViewStands' /\ OneCase' /\ RunsACase' /\ ChecksACase'
  BY <1>1
  DEF IInv, TypeOK, ViewStands, OneCase, RunsACase, ChecksACase, Running, Reads, Saving, localVars
<1>5. QED
  BY <1>2, <1>3, <1>4 DEF IInv

\* and by a kill.
LEMMA DieKeeps ==
  ASSUME IInv, NEW p \in Procs, Die(p)
  PROVE  IInv'
<1>1. /\ UNCHANGED <<storeVars, job, on, lost, asked, earned, last, behind>>
      /\ pc' = [pc EXCEPT ![p] = "dead"] /\ shared' = TRUE
      /\ view' = [view EXCEPT ![p] = NoMeta] /\ draft' = [draft EXCEPT ![p] = NoMeta]
      /\ pc[p] # "idle"
  BY DEF Die, GoTo, Running
<1>2. TypeOK' /\ Earned' /\ ReadsTheLast'
  BY <1>1, MetaFacts DEF IInv, TypeOK, Earned, ReadsTheLast, storeVars, localVars
<1>3. ViewStands' /\ OneCase' /\ RunsACase' /\ ChecksACase'
  BY <1>1
  DEF IInv, TypeOK, ViewStands, OneCase, RunsACase, ChecksACase, Running, Reads, Saving, localVars
<1>4. QED
  BY <1>2, <1>3 DEF IInv

\* So every step keeps it.
LEMMA NextKeeps == IInv /\ [Next]_vars => IInv'
<1>1. ASSUME IInv, Next PROVE IInv'
  <2>1. PICK p \in Procs :
          \/ Resolve(p) \/ Check(p) \/ Verify(p) \/ Keep(p) \/ Pull(p)
          \/ EmptyReplay(p) \/ WriteReplay(p) \/ EmptyMeta(p) \/ WriteMeta(p) \/ Retire(p)
          \/ RemoveDir(p) \/ Die(p)
    BY <1>1 DEF Next
  <2>2. QED
    BY <1>1, <2>1, ResolveKeeps, CheckKeeps, VerifyKeeps, KeepKeeps, PullKeeps, FilesKeep,
       WriteMetaKeeps, RetireKeeps, DieKeeps
<1>2. ASSUME IInv, UNCHANGED vars PROVE IInv'
  BY <1>2
  DEF vars, storeVars, localVars, writeVars, historyVars, IInv, TypeOK, Earned, ReadsTheLast,
      ViewStands, OneCase, RunsACase, ChecksACase, Running, Reads, Saving
<1>3. QED
  BY <1>1, <1>2

-----------------------------------------------------------------------------
(* The theorems. *)

\* The inductive invariant of the store and its commands holds for ever.
THEOREM StoreInvariant == Spec => []IInv
BY InvInit, NextKeeps, PTL DEF Spec

\* Every variable keeps its type, whatever commands overlap and die.
THEOREM StoreTypes == Spec => []TypeOK
<1>1. IInv => TypeOK
  BY DEF IInv
<1>2. QED
  BY <1>1, StoreInvariant, PTL

\* A guard is required only when it was green once, was kept with --strict, or
\* is the simplification of one that did.
THEOREM RequiredStaysEarned == Spec => []RequiredIsEarned
<1>1. IInv => RequiredIsEarned
  BY DEF IInv, Earned, RequiredIsEarned
<1>2. QED
  BY <1>1, StoreInvariant, PTL

\* A required guard falls back to quarantine only by a command whose status the
\* store has lost since it read it (to another, or to its own run in an earlier
\* locale), that was asked for the finding or found no readable meta.json, or that
\* does not read the guard it saves.
THEOREM StatusStays == Spec => StatusIsKept
<1> DEFINE Falls(i) == last[i].status = "required" /\ last'[i].status = "quarantined"
           Causes(p, i) ==
             pc[p] = "saving" /\ pc'[p] # "saving" /\ on[p] = i /\ Overwrites(p)
<1>1. ASSUME IInv, Next, NEW i \in Ids, Falls(i)
      PROVE  \E p \in Procs : Causes(p, i)
  <2>1. PICK p \in Procs : WriteMeta(p) /\ on[p] = i /\ last'[i] = draft[p]
    <3>1. last' # last
      BY <1>1
    <3>2. PICK p \in Procs : WriteMeta(p)
      BY <1>1, <3>1
      DEF Next, Resolve, Check, Verify, Keep, Pull, EmptyReplay, WriteReplay, EmptyMeta, Retire,
          RemoveDir, Die, historyVars
    <3>3. QED
      BY <1>1, <3>1, <3>2 DEF WriteMeta, IInv, TypeOK
  <2>2. pc[p] = "saving" /\ pc'[p] # "saving" /\ draft[p].status = "quarantined"
    BY <1>1, <2>1 DEF WriteMeta, Onwards, GoTo, IInv, TypeOK, Job
  <2>3. Overwrites(p)
    BY <1>1, <2>1, <2>2
    DEF IInv, TypeOK, ViewStands, Overwrites, Running, Reads, Saving, Job
  <2>4. QED
    BY <2>1, <2>2, <2>3
<1>2. IInv /\ [Next]_vars => [\A i \in Ids : Falls(i) => \E p \in Procs : Causes(p, i)]_vars
  BY <1>1
<1>3. QED
  BY <1>2, StoreInvariant, PTL DEF Spec, StatusIsKept

-----------------------------------------------------------------------------
(* Commands that run one at a time and to their end.                       *)

Whole(i) == meta[i] \in Meta /\ replay[i] = "whole"

\* What a command at work leaves of the repros that were asked for: all but the one
\* it is saving are whole, and of that one it has yet to write what is missing.
Leaves(p) ==
  /\ pc[p] \in Saving => draft[p] \in Meta
  /\ \A i \in asked : (pc[p] \in Saving => i # on[p]) => Whole(i)
  /\ pc[p] \in {"save", "saving"} /\ on[p] \in asked => replay[on[p]] = "whole"
  /\ pc[p] = "saving" => meta[on[p]] = TornMeta
  /\ pc[p] = "retiring" => Old \notin asked

\* At most one command is at work, and when none is every repro is whole.
Serial ==
  /\ lost = {}
  /\ \A p, q \in Procs : Running(p) /\ Running(q) => p = q
  /\ (\A p \in Procs : ~Running(p)) => \A i \in asked : Whole(i)
  /\ \A p \in Procs : Running(p) => Leaves(p)

\* Every kept repro starts whole.
LEMMA SerialInit == Init => (~shared => Serial)
<1> SUFFICES ASSUME Init PROVE Serial
  OBVIOUS
<1>1. \A p \in Procs : ~Running(p)
  BY DEF Init, Running
<1>2. ASSUME NEW i \in asked PROVE Whole(i)
  <2>1. meta[i] \in Meta /\ meta[i] # NoMeta
    BY MetaFacts DEF Init, Meta
  <2> QED BY <2>1 DEF Init, Whole
<1>3. lost = {}
  BY DEF Init
<1> QED BY <1>1, <1>2, <1>3 DEF Serial

\* A command that begins while none is at work finds every repro whole.
LEMMA BeginsAlone ==
  ASSUME ~shared => Serial, NEW p \in Procs, NEW where, Begin(p, where), ~shared'
  PROVE  /\ lost = {} /\ \A i \in asked : Whole(i)
         /\ \A q \in Procs : ~Running(q)
BY DEF Begin, Serial

\* A command that goes on is the only one at work.
LEMMA GoesOnAlone ==
  ASSUME Serial, NEW p \in Procs, Running(p)
  PROVE  lost = {} /\ Leaves(p) /\ \A q \in Procs \ {p} : ~Running(q)
BY DEF Serial

\* So after a step of p only p can be at work.
LEMMA OneIsEnough ==
  ASSUME TypeOK, NEW p \in Procs, NEW where, pc' = [pc EXCEPT ![p] = where],
         \A q \in Procs \ {p} : ~Running(q),
         lost' = {},
         Running(p)' => Leaves(p)',
         ~Running(p)' => \A i \in asked' : Whole(i)'
  PROVE  Serial'
<1>1. \A q \in Procs : Running(q)' => q = p
  BY DEF Running, TypeOK
<1>2. (\A q \in Procs : ~Running(q)') => \A i \in asked' : Whole(i)'
  OBVIOUS
<1>3. \A q \in Procs : Running(q)' => Leaves(q)'
  <2> SUFFICES ASSUME NEW q \in Procs, Running(q)' PROVE Leaves(q)'
    OBVIOUS
  <2>1. q = p
    BY <1>1
  <2> QED BY <2>1 DEF Running, Leaves
<1> QED BY <1>1, <1>2, <1>3 DEF Serial

\* Each step of the only command at work keeps it: what it empties it fills again
\* before it ends.
LEMMA SerialStep ==
  ASSUME IInv, ~shared => Serial, Next, ~shared'
  PROVE  Serial'
<1> USE DEF GoTo
<1>1. TypeOK
  BY DEF IInv
<1>2. PICK p \in Procs :
        \/ Resolve(p) \/ Check(p) \/ Verify(p) \/ Keep(p) \/ Pull(p)
        \/ EmptyReplay(p) \/ WriteReplay(p) \/ EmptyMeta(p) \/ WriteMeta(p) \/ Retire(p)
        \/ RemoveDir(p) \/ Die(p)
  BY DEF Next
<1>3. CASE Resolve(p)
  <2>1. PICK where \in {"run", "done"} : Begin(p, where)
    BY <1>3 DEF Resolve
  <2>2. /\ lost = {} /\ \A i \in asked : Whole(i)
        /\ \A q \in Procs : ~Running(q)
    BY <2>1, BeginsAlone
  <2>3. pc' = [pc EXCEPT ![p] = where] /\ UNCHANGED <<meta, replay, asked, lost>>
    BY <1>3, <2>1 DEF Begin, Resolve, storeVars
  <2>4. Leaves(p)' /\ \A i \in asked' : Whole(i)'
    BY <1>1, <2>1, <2>2, <2>3 DEF Leaves, Whole, Saving, TypeOK
  <2> QED BY <1>1, <2>2, <2>3, <2>4, OneIsEnough
<1>4. CASE Keep(p) \/ Pull(p)
  <2>1. PICK where \in {"replay", "save"} :
          /\ Begin(p, where)
          /\ where = "save" => replay' = [replay EXCEPT ![Old] = "whole"]
          /\ where = "replay" => replay' = replay
    BY <1>4 DEF Keep, Keeping, Pull, storeVars
  <2>2. /\ lost = {} /\ \A i \in asked : Whole(i)
        /\ \A q \in Procs : ~Running(q)
    BY <2>1, BeginsAlone
  <2>3. /\ pc' = [pc EXCEPT ![p] = where] /\ asked' = asked \cup {Old}
        /\ UNCHANGED <<meta, on, lost>>
    BY <1>4, <2>1 DEF Begin, Keep, Keeping, Pull, storeVars
  <2>4. on[p] = Old
    BY <1>4 DEF Keep, Pull, IInv, OneCase
  <2>5. draft'[p] \in Meta
    <3>1. CASE Keep(p)
      <4>1. Kept(p, Loaded(Old)) \in Meta
        BY LoadedFacts, KeptFacts DEF Ids
      <4> QED BY <1>1, <3>1, <4>1 DEF Keep, Keeping, TypeOK
    <3>2. CASE Pull(p)
      BY <1>1, <3>2 DEF Pull, TypeOK, Meta, Status
    <3> QED BY <1>4, <3>1, <3>2
  <2>6. Leaves(p)'
    BY <1>1, <2>1, <2>2, <2>3, <2>4, <2>5 DEF Leaves, Whole, Saving, TypeOK, Ids
  <2>7. Running(p)'
    BY <1>1, <2>1, <2>3 DEF Running, TypeOK
  <2> QED BY <1>1, <2>2, <2>3, <2>6, <2>7, OneIsEnough
<1>5. ASSUME Running(p), shared' = shared
      PROVE  Serial /\ lost = {} /\ Leaves(p) /\ \A q \in Procs \ {p} : ~Running(q)
  BY <1>5, GoesOnAlone
<1>6. CASE Check(p)
  <2>1. Running(p) /\ UNCHANGED <<meta, replay, on, asked, lost, shared>>
    BY <1>6 DEF Check, Running, storeVars
  <2>2. \A i \in asked : Whole(i)
    BY <1>5, <1>6, <2>1 DEF Check, Leaves, Saving
  <2>3. PICK where \in {"done", "save"} :
          /\ pc' = [pc EXCEPT ![p] = where]
          /\ where = "save" => draft'[p] \in Meta
    <3>1. view[p] \in Meta
      BY <1>6 DEF Check, IInv, RunsACase
    <3>2. \A outcome \in Outcome : Marked(view[p], outcome) \in Meta
      BY <3>1, MarkedFacts
    <3> QED BY <1>1, <1>6, <3>2 DEF Check, TypeOK
  <2>4. Running(p)' => Leaves(p)'
    BY <1>1, <2>1, <2>2, <2>3 DEF Leaves, Running, Whole, Saving, TypeOK
  <2>5. \A i \in asked' : Whole(i)'
    BY <2>1, <2>2 DEF Whole
  <2> QED BY <1>1, <1>5, <2>1, <2>3, <2>4, <2>5, OneIsEnough
<1>7. CASE Verify(p)
  <2>1. Running(p) /\ UNCHANGED <<meta, replay, lost, shared>>
    BY <1>7 DEF Verify, Running, storeVars
  <2>2. \A i \in asked : Whole(i)
    BY <1>5, <1>7, <2>1 DEF Verify, Leaves, Saving
  <2>3. CASE pc' = [pc EXCEPT ![p] = "done"] /\ asked' = asked
    <3>1. ~Running(p)' /\ \A i \in asked' : Whole(i)'
      BY <1>1, <2>1, <2>2, <2>3 DEF Running, Whole, TypeOK
    <3> QED BY <1>1, <1>5, <2>1, <2>3, <3>1, OneIsEnough
  <2>4. CASE /\ pc' = [pc EXCEPT ![p] = "replay"] /\ asked' = asked \cup {New}
             /\ on' = [on EXCEPT ![p] = New]
             /\ draft' = [draft EXCEPT ![p] =
                            [status |-> view[p].status, stamped |-> TRUE]]
    <3>1. draft'[p] \in Meta
      <4>1. view[p] \in Meta
        BY <1>7 DEF Verify, IInv, RunsACase
      <4> QED BY <1>1, <2>4, <4>1 DEF TypeOK, Meta
    <3>2. Leaves(p)' /\ Running(p)'
      BY <1>1, <2>1, <2>2, <2>4, <3>1 DEF Leaves, Running, Whole, Saving, TypeOK
    <3> QED BY <1>1, <1>5, <2>1, <2>4, <3>2, OneIsEnough
  <2> QED BY <1>7, <2>3, <2>4 DEF Verify
<1>8. CASE EmptyReplay(p) \/ WriteReplay(p)
  <2>1. /\ Running(p) /\ pc[p] \in {"replay", "replaying"}
        /\ UNCHANGED <<meta, on, draft, asked, shared>>
    BY <1>8 DEF EmptyReplay, WriteReplay, Running, localVars, historyVars
  <2>2. lost = {} /\ Leaves(p)
    BY <1>5, <2>1
  <2>3. PICK where \in {"replaying", "save"} :
          /\ pc' = [pc EXCEPT ![p] = where] /\ lost' = {}
          /\ replay' = [replay EXCEPT ![on[p]] = IF where = "save" THEN "whole" ELSE "torn"]
    BY <1>8, <2>2 DEF EmptyReplay, WriteReplay
  <2>4. Leaves(p)' /\ Running(p)'
    BY <1>1, <2>1, <2>2, <2>3 DEF Leaves, Running, Whole, Saving, TypeOK
  <2> QED BY <1>1, <1>5, <2>1, <2>3, <2>4, OneIsEnough
<1>9. CASE EmptyMeta(p)
  <2>1. /\ Running(p) /\ pc[p] = "save" /\ pc' = [pc EXCEPT ![p] = "saving"]
        /\ meta' = [meta EXCEPT ![on[p]] = TornMeta]
        /\ UNCHANGED <<replay, on, draft, asked, lost, shared>>
    BY <1>9 DEF EmptyMeta, Running, localVars, historyVars
  <2>2. lost = {} /\ Leaves(p)
    BY <1>5, <2>1
  <2>3. Leaves(p)' /\ Running(p)'
    BY <1>1, <2>1, <2>2 DEF Leaves, Running, Whole, Saving, TypeOK
  <2> QED BY <1>1, <1>5, <2>1, <2>2, <2>3, OneIsEnough
<1>10. CASE WriteMeta(p)
  <2>1. /\ Running(p) /\ pc[p] = "saving"
        /\ UNCHANGED <<replay, on, asked, shared>>
    BY <1>10 DEF WriteMeta, Running
  <2>2. lost = {} /\ Leaves(p)
    BY <1>5, <2>1
  <2>3. meta[on[p]] = TornMeta /\ draft[p] \in Meta
    BY <2>1, <2>2 DEF Leaves, Saving
  <2>4. meta' = [meta EXCEPT ![on[p]] = draft[p]] /\ lost' = {}
    BY <1>10, <2>2, <2>3, MetaFacts DEF WriteMeta
  <2>5. \A i \in asked' : Whole(i)'
    BY <1>1, <2>1, <2>2, <2>3, <2>4 DEF Leaves, Whole, Saving, TypeOK
  <2>6. PICK where \in {"run", "retire", "done"} : pc' = [pc EXCEPT ![p] = where]
    BY <1>10 DEF WriteMeta, Onwards, IInv, TypeOK, Job
  <2>7. Running(p)' => Leaves(p)'
    BY <1>1, <2>1, <2>5, <2>6 DEF Leaves, Running, Saving, TypeOK
  <2> QED BY <1>1, <1>5, <2>1, <2>4, <2>5, <2>6, <2>7, OneIsEnough
<1>11. CASE Retire(p)
  <2>1. /\ Running(p) /\ pc[p] = "retire" /\ lost' = lost
        /\ UNCHANGED <<meta, replay, shared>>
    BY <1>11 DEF Retire, Running, storeVars
  <2>2. lost = {} /\ \A i \in asked : Whole(i)
    BY <1>5, <2>1 DEF Leaves, Saving
  <2>3. PICK where \in {"retiring", "done"} :
          /\ pc' = [pc EXCEPT ![p] = where]
          /\ asked' \subseteq asked
          /\ where = "retiring" => Old \notin asked'
    BY <1>11 DEF Retire
  <2>4. \A i \in asked' : Whole(i)'
    BY <2>1, <2>2, <2>3 DEF Whole
  <2>5. Leaves(p)'
    BY <1>1, <2>3, <2>4 DEF Leaves, Saving, TypeOK
  <2> QED BY <1>1, <1>5, <2>1, <2>2, <2>3, <2>4, <2>5, OneIsEnough
<1>13. CASE RemoveDir(p)
  <2>1. Running(p) /\ pc[p] = "retiring" /\ UNCHANGED <<on, asked, shared>>
    BY <1>13 DEF RemoveDir, Running, localVars, historyVars
  <2>2. lost = {} /\ Old \notin asked /\ \A i \in asked : Whole(i)
    BY <1>5, <2>1 DEF Leaves, Saving
  <2>3. \A q \in Procs : pc[q] \notin {"replaying", "saving"}
    BY <1>5, <2>1 DEF Running
  <2>4. /\ lost' = {}
        /\ \A i \in Ids \ {Old} : meta'[i] = meta[i] /\ replay'[i] = replay[i]
    BY <1>1, <1>13, <2>2, <2>3 DEF RemoveDir, TypeOK
  <2>5. PICK where \in {"retiring", "done"} : pc' = [pc EXCEPT ![p] = where]
    BY <1>1, <1>13, <2>1 DEF RemoveDir, TypeOK
  <2>6. \A i \in asked' : Whole(i)'
    BY <1>1, <2>1, <2>2, <2>4 DEF Whole, TypeOK
  <2>7. Leaves(p)'
    BY <1>1, <2>1, <2>2, <2>5, <2>6 DEF Leaves, Saving, TypeOK
  <2> QED BY <1>1, <1>5, <2>1, <2>4, <2>5, <2>6, <2>7, OneIsEnough
<1>12. CASE Die(p)
  BY <1>12 DEF Die
<1> QED
  BY <1>2, <1>3, <1>4, <1>6, <1>7, <1>8, <1>9, <1>10, <1>11, <1>12, <1>13

\* As long as commands run one at a time and to their end, every guard that was
\* asked for has a whole meta and a whole replay between them.
THEOREM KeptStaysWhole == Spec => []KeptIsWhole
<1> DEFINE Inv == ~shared => Serial
<1>1. IInv /\ Inv /\ [Next]_vars => Inv'
  <2>1. ASSUME IInv, Inv, Next PROVE Inv'
    BY <2>1, SerialStep
  <2>2. ASSUME Inv, UNCHANGED vars PROVE Inv'
    BY <2>2
    DEF vars, storeVars, localVars, writeVars, historyVars, Serial, Running, Leaves, Whole
  <2> QED BY <2>1, <2>2
<1>2. Inv => KeptIsWhole
  BY DEF Serial, KeptIsWhole, Whole
<1> HIDE DEF Inv
<1>3. Init => Inv
  BY SerialInit DEF Inv
<1> QED BY <1>1, <1>2, <1>3, StoreInvariant, PTL DEF Spec
=============================================================================
