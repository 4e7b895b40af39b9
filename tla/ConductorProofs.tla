-------------------------- MODULE ConductorProofs ---------------------------
(***************************************************************************)
(* Proofs about the conductor for any number of actors and any script: its *)
(* type invariant under every fault; the safety of a uniform fleet, from   *)
(* the inductive invariant IInv; what a fault costs in every fleet, from   *)
(* FInv; and which fleets keep their roles distinct, from RInv.            *)
(***************************************************************************)
EXTENDS Conductor, FiniteSetTheorems, TLAPS

-----------------------------------------------------------------------------
(* Constants. *)

\* The script's length is a number and every step has an owner.
LEMMA ScriptFacts ==
  /\ N \in Nat \ {0}
  /\ Steps \in Nat
  /\ 0 \in Role
  /\ \A s \in Nat : s < Steps => Owner(s) \in Role
BY ConductorAssumption DEF ConductorAssumption, Role, Steps, Owner

\* Roles are as many as devices, so once every role is some device's, every
\* device has a role.
LEMMA EveryRoleHeld ==
  ASSUME NEW f \in [Device -> Role \cup {NoRole}],
         \A r \in Role : \E d \in Device : f[d] = r
  PROVE  \A d \in Device : f[d] # NoRole
<1> SUFFICES ASSUME NEW e \in Device, f[e] = NoRole
             PROVE  FALSE
  OBVIOUS
<1> DEFINE Others == Device \ {e}
           holder == [r \in Role |-> CHOOSE d \in Others : f[d] = r]
<1>1. IsFiniteSet(Device) /\ Cardinality(Device) = N
  <2>1. IsFiniteSet(0 .. N - 1) /\ Cardinality(0 .. N - 1) = N
    BY FS_Interval, ScriptFacts
  <2>2. QED BY <2>1 DEF Device
<1>2. IsFiniteSet(Others) /\ Cardinality(Others) = N - 1
  BY <1>1, FS_RemoveElement
<1>3. \A r \in Role : \E d \in Others : f[d] = r
  BY DEF Role, NoRole
<1>4. \A r \in Role : holder[r] \in Others /\ f[holder[r]] = r
  BY <1>3
<1>5. holder \in [Role -> Others]
  BY <1>4
<1>6. IsFiniteSet(Role) /\ Cardinality(Role) = N
  BY <1>1 DEF Role, Device
<1>7. Cardinality(Others) < Cardinality(Role)
  BY <1>2, <1>6, ScriptFacts
<1> HIDE DEF holder, Others
<1>8. \E q, r \in Role : q # r /\ holder[q] = holder[r]
  BY <1>2, <1>5, <1>6, <1>7, FS_PigeonHole
<1>9. QED BY <1>4, <1>8

-----------------------------------------------------------------------------
(* The type invariant, whatever the labels and the faults. *)

\* The initial state is typed.
LEMMA TypeInit == Init => TypeOK
<1> SUFFICES ASSUME Init PROVE TypeOK OBVIOUS
<1>1. cursor \in 0 .. Steps /\ dropped \in 0 .. MaxUnanswered
  BY ScriptFacts, ConductorAssumption DEF ConductorAssumption, Init
<1>2. role \in [Device -> Role \cup {NoRole}]
  BY DEF Init, Device, Role
<1>3. step \in [Device -> 0 .. Steps]
  BY ScriptFacts DEF Init
<1>4. \A d \in Device : pc[d] # "claim" => role[d] \in Role
  BY DEF Init, Device, Role
<1>5. played \in Seq(0 .. Steps) /\ stray = {}
  BY DEF Init
<1>6. QED BY <1>1, <1>2, <1>3, <1>4, <1>5 DEF Init, TypeOK

\* What /next does to the server: one more role joined, and the current step
\* served if that opens the barrier for its owner.
LEMMA NextEffect ==
  ASSUME TypeOK, NEW r \in Role, NextHandled(r)
  PROVE  /\ joined' \in [Role -> BOOLEAN]
         /\ served' \in BOOLEAN
         /\ cursor' = cursor
BY DEF TypeOK, NextHandled, MayAct, AllJoined

\* What /done does to the server: the cursor moves by one, if at all, and never
\* past the end of the script.
LEMMA DoneEffect ==
  ASSUME TypeOK, NEW r \in Role, DoneHandled(r)
  PROVE  /\ cursor' \in 0 .. Steps
         /\ served' \in BOOLEAN
         /\ joined' = joined
<1>1. CASE MayAct(r) /\ served
  <2>1. cursor' = cursor + 1
    BY <1>1 DEF DoneHandled
  <2>2. served' \in BOOLEAN /\ joined' = joined
    BY <1>1 DEF DoneHandled
  <2>3. cursor < Steps
    BY <1>1 DEF MayAct
  <2>4. cursor \in 0 .. Steps
    BY DEF TypeOK
  <2>5. cursor' \in 0 .. Steps
    BY <2>1, <2>3, <2>4, ScriptFacts
  <2>6. QED BY <2>2, <2>5
<1>2. CASE ~(MayAct(r) /\ served)
  <2>1. UNCHANGED <<cursor, served, joined>>
    BY <1>2 DEF DoneHandled
  <2>2. QED BY <2>1 DEF TypeOK
<1>3. QED BY <1>1, <1>2

\* Every step keeps the types.
LEMMA TypeStep == TypeOK /\ [Next]_vars => TypeOK'
<1> SUFFICES ASSUME TypeOK, [Next]_vars PROVE TypeOK' OBVIOUS
<1> USE ScriptFacts DEF TypeOK, serverVars, clientVars, faultVars, GoTo, Running
<1>1. ASSUME NEW d \in Device, Claim(d) PROVE TypeOK'
  <2>1. PICK r \in Role : role' = [role EXCEPT ![d] = r]
    BY <1>1 DEF Claim
  <2>2. joined' \in [Role -> BOOLEAN] /\ UNCHANGED <<cursor, served>>
    BY <1>1 DEF Claim, ClaimGrants, ClaimRefused
  <2>3. pc' = [pc EXCEPT ![d] = "poll"]
    BY <1>1 DEF Claim
  <2>4. QED BY <1>1, <2>1, <2>2, <2>3 DEF Claim
<1>2. ASSUME NEW d \in Device, Poll(d) PROVE TypeOK'
  <2>1. role[d] \in Role
    BY <1>2 DEF Poll
  <2>2. joined' \in [Role -> BOOLEAN] /\ served' \in BOOLEAN /\ cursor' = cursor
    BY <1>2, <2>1, NextEffect DEF Poll
  <2>3. pc' \in [Device -> {"claim", "poll", "act", "ack", "finished"}]
    BY <1>2 DEF Poll, PollDone, PollWait, PollAct
  <2>4. step' \in [Device -> 0 .. Steps]
    BY <1>2 DEF Poll, PollDone, PollWait, PollAct
  <2>5. \A e \in Device : pc'[e] # "claim" => role'[e] \in Role
    BY <1>2 DEF Poll, PollDone, PollWait, PollAct
  <2>6. QED BY <1>2, <2>2, <2>3, <2>4, <2>5 DEF Poll
<1>3. ASSUME NEW d \in Device, Execute(d) PROVE TypeOK'
  BY <1>3 DEF Execute
<1>4. ASSUME NEW d \in Device, Acknowledge(d) PROVE TypeOK'
  <2>1. cursor' \in 0 .. Steps /\ served' \in BOOLEAN /\ joined' = joined
    BY <1>4, DoneEffect DEF Acknowledge
  <2>2. QED BY <1>4, <2>1 DEF Acknowledge
<1>5. ASSUME NEW d \in Device, Unanswered(d) PROVE TypeOK'
  <2> DEFINE m == [verb |-> VerbAt[pc[d]], role |-> role[d], id |-> dropped]
  <2>1. pc[d] \in {"claim", "poll", "ack"} /\ VerbAt[pc[d]] \in Verb
    BY <1>5 DEF Unanswered, VerbAt, Verb
  <2>2. m.verb # "claim" => role[d] \in Role
    BY <2>1 DEF VerbAt
  <2>3. dropped' \in 0 .. MaxUnanswered /\ m \in Request
    BY <1>5, <2>1, ConductorAssumption DEF ConductorAssumption, Unanswered, Request
  <2>4. stray' = stray \cup {m}
    BY <1>5 DEF Unanswered
  <2>5. role' \in [Device -> Role \cup {NoRole}]
    BY <1>5 DEF Unanswered
  <2>6. pc' \in [Device -> {"claim", "poll", "act", "ack", "finished"}]
    BY <1>5 DEF Unanswered
  <2>7. \A e \in Device : pc'[e] # "claim" => role'[e] \in Role
    BY <1>5 DEF Unanswered
  <2>8. QED BY <1>5, <2>2, <2>3, <2>4, <2>5, <2>6, <2>7 DEF Unanswered
<1>6. ASSUME NEW m \in stray, HandleStray(m) PROVE TypeOK'
  <2>1. CASE m.verb = "claim"
    BY <1>6, <2>1 DEF HandleStray, ClaimGrants, ClaimRefused
  <2>2. CASE m.verb = "next"
    <3>1. joined' \in [Role -> BOOLEAN] /\ served' \in BOOLEAN /\ cursor' = cursor
      BY <1>6, <2>2, NextEffect DEF HandleStray
    <3>2. QED BY <1>6, <3>1 DEF HandleStray
  <2>3. CASE m.verb = "done"
    <3>1. cursor' \in 0 .. Steps /\ served' \in BOOLEAN /\ joined' = joined
      BY <1>6, <2>3, DoneEffect DEF HandleStray
    <3>2. QED BY <1>6, <3>1 DEF HandleStray
  <2>4. QED BY <1>6, <2>1, <2>2, <2>3 DEF HandleStray
<1>7. ASSUME NEW d \in Device, Crash(d) PROVE TypeOK'
  BY <1>7 DEF Crash
<1>8. CASE UNCHANGED vars
  BY <1>8 DEF vars
<1>9. QED BY <1>1, <1>2, <1>3, <1>4, <1>5, <1>6, <1>7, <1>8 DEF Next

\* Whatever is lost, late or dead, every variable keeps its type: the cursor
\* never runs past the script and nobody acts without a role.
THEOREM TypeCorrect == Spec => []TypeOK
BY TypeInit, TypeStep, PTL DEF Spec

-----------------------------------------------------------------------------
(* A uniform fleet: the inductive invariant, one lemma per action. *)

\* The server's share of the invariant survives a poll: what was joined or served
\* stays so, and a step is served only with everybody there.
LEMMA NextKeeps ==
  ASSUME TypeOK, ServedOnceJoined, NEW r \in Role, NextHandled(r)
  PROVE  /\ \A q \in Role : joined'[q] <=> joined[q] \/ q = r
         /\ cursor' = cursor
         /\ served => served'
         /\ ServedOnceJoined'
<1>1. \A q \in Role : joined'[q] <=> joined[q] \/ q = r
  BY DEF NextHandled, TypeOK
<1>2. cursor' = cursor
  BY DEF NextHandled
<1>3. served => served'
  BY DEF NextHandled
<1>4. AllJoined => AllJoined'
  BY <1>1 DEF AllJoined
<1>5. served' => served \/ AllJoined'
  BY DEF NextHandled
<1>6. ServedOnceJoined'
  BY <1>2, <1>4, <1>5 DEF ServedOnceJoined
<1>7. QED BY <1>1, <1>2, <1>3, <1>6

\* The part about roles survives a step that joins a held role and leaves the
\* devices' roles, and who is still claiming, alone.
LEMMA RolesKept ==
  ASSUME TypeOK, DistinctRoles, RolesAreJoined,
         NEW r \in Role, \E d \in Device : role[d] = r,
         \A q \in Role : joined'[q] <=> joined[q] \/ q = r,
         role' = role,
         \A d \in Device : pc'[d] = "claim" <=> pc[d] = "claim"
  PROVE  RolesAreJoined' /\ DistinctRoles'
<1>1. DistinctRoles'
  BY DEF DistinctRoles
<1>2. RolesAreJoined'
  <2>1. \A d \in Device : role[d] # NoRole => role[d] \in Role
    BY DEF TypeOK
  <2>2. QED BY <2>1 DEF RolesAreJoined
<1>3. QED BY <1>1, <1>2

\* Every fleet starts with the invariant.
LEMMA InvInit == Uniform /\ Init => IInv
<1> SUFFICES ASSUME Uniform, Init PROVE IInv OBVIOUS
<1>1. TypeOK
  BY TypeInit
<1>2. Labelled = {} \/ Labelled = Device
  BY DEF Uniform
<1>3. DistinctRoles
  BY <1>2 DEF Init, DistinctRoles
<1>4. RolesAreJoined
  <2>1. \A d \in Device : d # NoRole
    BY ScriptFacts DEF Device, NoRole
  <2>2. \A d \in Device : pc[d] = "claim" <=> role[d] = NoRole
    BY <2>1 DEF Init
  <2>3. QED BY <1>2, <2>2 DEF Init, RolesAreJoined
<1>5. OnlyPollsAreStray /\ PlayedInOrderOnce
  BY DEF Init, OnlyPollsAreStray, PlayedInOrderOnce
<1>6. ServedOnceJoined
  BY DEF Init, ServedOnceJoined
<1>7. \A d \in Device : pc[d] \notin {"act", "ack"}
  BY DEF Init
<1>8. HolderIsServed /\ PlayedSoFar
  BY <1>7 DEF Init, HolderIsServed, Holding, PlayedSoFar
<1>9. QED BY <1>1, <1>3, <1>4, <1>5, <1>6, <1>8 DEF IInv

\* While somebody is still claiming, some role has not joined and nothing has been
\* served.
LEMMA UnjoinedBeforeTheLastClaim ==
  ASSUME TypeOK, RolesAreJoined, ServedOnceJoined, NEW d \in Device, pc[d] = "claim"
  PROVE  ~AllJoined /\ ~served /\ cursor = 0
<1>1. role \in [Device -> Role \cup {NoRole}]
  BY DEF TypeOK
<1>2. role[d] = NoRole
  BY DEF RolesAreJoined
<1>3. ~AllJoined
  <2> SUFFICES ASSUME AllJoined PROVE FALSE OBVIOUS
  <2>1. \A r \in Role : \E e \in Device : role[e] = r
    BY DEF AllJoined, RolesAreJoined
  <2>2. QED BY <1>1, <1>2, <2>1, EveryRoleHeld
<1>4. ~served /\ ~(cursor > 0)
  BY <1>3 DEF ServedOnceJoined
<1>5. cursor = 0
  BY <1>4, ScriptFacts DEF TypeOK
<1> QED BY <1>3, <1>4, <1>5

\* So a claimant is granted a role that no device had, and keeps the part of the
\* invariant about roles.
LEMMA ClaimGivesRole ==
  ASSUME TypeOK, DistinctRoles, RolesAreJoined, ServedOnceJoined,
         NEW d \in Device, Claim(d)
  PROVE  /\ DistinctRoles' /\ RolesAreJoined' /\ ServedOnceJoined'
         /\ \A r \in Role : (\E e \in Device : role[e] = r) => \E e \in Device : role'[e] = r
<1> USE DEF Running, GoTo, serverVars, faultVars
<1>1. pc[d] = "claim" /\ pc' = [pc EXCEPT ![d] = "poll"]
  BY DEF Claim
<1>2. ~AllJoined /\ ~served /\ cursor = 0
  BY <1>1, UnjoinedBeforeTheLastClaim
<1>3. PICK r \in Role : ClaimGrants(r) /\ role' = [role EXCEPT ![d] = r]
  BY <1>2 DEF Claim, ClaimRefused
<1>4. /\ ~joined[r] /\ joined' = [joined EXCEPT ![r] = TRUE]
      /\ UNCHANGED <<cursor, served>>
  BY <1>3 DEF ClaimGrants, IsLowestFree
<1>5. \A e \in Device : role[e] # r
  <2>1. Labelled = {}
    BY <1>1 DEF RolesAreJoined
  <2>2. r # NoRole
    BY DEF Role, NoRole
  <2> QED BY <1>4, <2>1, <2>2 DEF RolesAreJoined
<1>6. DistinctRoles'
  BY <1>3, <1>5 DEF DistinctRoles, TypeOK
<1>7. ASSUME NEW q \in Role, NEW e \in Device, role[e] = q PROVE role'[e] = q
  <2>1. e # d
    BY <1>1, <1>7 DEF RolesAreJoined, Role, NoRole
  <2> QED BY <1>3, <1>7, <2>1 DEF TypeOK
<1>8. RolesAreJoined'
  <2>1. \A e \in Device : pc'[e] = "claim" <=> role'[e] = NoRole
    BY <1>1, <1>3 DEF RolesAreJoined, TypeOK, Role, NoRole
  <2>2. \A q \in Role : joined'[q] => \E e \in Device : role'[e] = q
    <3> SUFFICES ASSUME NEW q \in Role, joined'[q] PROVE \E e \in Device : role'[e] = q
      OBVIOUS
    <3>1. CASE q = r
      BY <1>3, <3>1 DEF TypeOK
    <3>2. CASE q # r
      BY <1>4, <1>7, <3>2 DEF RolesAreJoined, TypeOK
    <3> QED BY <3>1, <3>2
  <2>3. Labelled = {}
    BY <1>1 DEF RolesAreJoined
  <2>4. \A e \in Device : role'[e] # NoRole => joined'[role'[e]]
    BY <1>3, <1>4, <2>3 DEF RolesAreJoined, TypeOK
  <2> QED BY <2>1, <2>2, <2>3, <2>4 DEF RolesAreJoined
<1>9. ServedOnceJoined'
  BY <1>2, <1>4 DEF ServedOnceJoined
<1> QED BY <1>6, <1>7, <1>8, <1>9

\* And nobody holds an action yet.
LEMMA NothingBeforeTheLastClaim ==
  ASSUME IInv, NEW d \in Device, pc[d] = "claim"
  PROVE  ~AllJoined /\ ~served /\ cursor = 0 /\ Holding = {}
<1>1. ~AllJoined /\ ~served /\ cursor = 0
  BY UnjoinedBeforeTheLastClaim DEF IInv
<1>2. Holding = {}
  BY <1>1 DEF IInv, HolderIsServed, Holding
<1> QED BY <1>1, <1>2

\* A claim is granted a role nobody has, and that role has joined.
LEMMA ClaimKeeps ==
  ASSUME IInv, TypeOK', NEW d \in Device, Claim(d)
  PROVE  IInv'
<1> USE DEF IInv
<1>1. pc[d] = "claim" /\ pc' = [pc EXCEPT ![d] = "poll"]
  BY DEF Claim, Running, GoTo
<1>2. cursor = 0 /\ Holding = {}
  BY <1>1, NothingBeforeTheLastClaim
<1>3. UNCHANGED <<cursor, stray, played>>
  BY DEF Claim, ClaimGrants, ClaimRefused, serverVars, faultVars
<1>4. /\ DistinctRoles' /\ RolesAreJoined' /\ ServedOnceJoined'
      /\ \A r \in Role : (\E e \in Device : role[e] = r) => \E e \in Device : role'[e] = r
  BY ClaimGivesRole
<1>5. OnlyPollsAreStray'
  BY <1>3, <1>4 DEF OnlyPollsAreStray, TypeOK
<1>6. \A e \in Device : pc'[e] \notin {"act", "ack"}
  BY <1>1, <1>2 DEF Holding, TypeOK
<1>7. HolderIsServed'
  BY <1>6 DEF HolderIsServed, Holding
<1>8. PlayedSoFar' /\ PlayedInOrderOnce'
  BY <1>2, <1>3, <1>6 DEF PlayedSoFar, PlayedInOrderOnce, Holding
<1> QED BY <1>4, <1>5, <1>7, <1>8

\* A poll hands out the current step, to the role it belongs to.
LEMMA PollKeeps ==
  ASSUME IInv, TypeOK', NEW d \in Device, Poll(d)
  PROVE  IInv'
<1> USE DEF IInv
<1>1. pc[d] = "poll" /\ NextHandled(role[d])
  BY DEF Poll, Running
<1>2. UNCHANGED <<role, stray, played>>
  BY DEF Poll, faultVars
<1>3. role[d] \in Role
  BY <1>1 DEF TypeOK
<1>4. /\ \A q \in Role : joined'[q] <=> joined[q] \/ q = role[d]
      /\ cursor' = cursor
      /\ served => served'
      /\ ServedOnceJoined'
  BY <1>1, <1>3, NextKeeps
<1>5. /\ pc'[d] \in {"poll", "act", "finished"}
      /\ \A e \in Device : e # d => pc'[e] = pc[e] /\ step'[e] = step[e]
  BY <1>1 DEF Poll, PollDone, PollWait, PollAct, GoTo, TypeOK
<1>6. pc'[d] = "act" => step'[d] = cursor /\ MayAct(role[d]) /\ AllJoined'
  BY <1>1 DEF Poll, PollDone, PollWait, PollAct, GoTo, TypeOK
<1>7. RolesAreJoined' /\ DistinctRoles'
  BY <1>1, <1>2, <1>3, <1>4, <1>5, RolesKept
<1>8. OnlyPollsAreStray'
  BY <1>2 DEF OnlyPollsAreStray
<1>9. HolderIsServed'
  <2> SUFFICES ASSUME NEW e \in Device, pc'[e] \in {"act", "ack"}
               PROVE  step'[e] = cursor' /\ served' /\ MayAct(role[e])'
    BY DEF HolderIsServed, Holding
  <2>1. CASE e = d
    <3>1. step'[d] = cursor /\ MayAct(role[d]) /\ AllJoined'
      BY <1>5, <1>6, <2>1
    <3>2. served'
      BY <1>1, <3>1 DEF NextHandled
    <3>3. QED BY <1>2, <1>4, <2>1, <3>1, <3>2 DEF MayAct
  <2>2. CASE e # d
    <3>1. e \in Holding /\ step'[e] = step[e]
      BY <1>5, <2>2 DEF Holding
    <3>2. step[e] = cursor /\ served /\ MayAct(role[e])
      BY <3>1 DEF HolderIsServed
    <3>3. QED BY <1>2, <1>4, <3>1, <3>2 DEF MayAct
  <2>3. QED BY <2>1, <2>2
<1>10. \A e \in Device : pc'[e] = "ack" <=> pc[e] = "ack"
  BY <1>1, <1>5
<1>11. PlayedSoFar' /\ PlayedInOrderOnce'
  BY <1>2, <1>4, <1>10 DEF PlayedSoFar, PlayedInOrderOnce
<1>12. QED BY <1>4, <1>7, <1>8, <1>9, <1>11

\* A device that holds an action is the only one that does: it owns the current
\* step, and no other device has its role.
LEMMA HolderIsAlone ==
  ASSUME IInv, NEW d \in Holding
  PROVE  /\ Holding = {d} /\ step[d] = cursor /\ served
         /\ cursor < Steps /\ role[d] = Owner(cursor)
<1>1. \A e \in Holding : step[e] = cursor /\ served /\ cursor < Steps /\ role[e] = Owner(cursor)
  BY DEF IInv, HolderIsServed, MayAct
<1>2. \A e \in Holding : e \in Device /\ role[e] # NoRole
  BY DEF Holding, IInv, RolesAreJoined
<1>3. \A e \in Holding : e = d
  BY <1>1, <1>2 DEF IInv, DistinctRoles
<1>4. QED BY <1>1, <1>3

\* Executing a step moves the history one ahead of the cursor.
LEMMA ExecuteKeeps ==
  ASSUME IInv, TypeOK', NEW d \in Device, Execute(d)
  PROVE  IInv'
<1> USE DEF IInv
<1>1. pc[d] = "act" /\ pc' = [pc EXCEPT ![d] = "ack"] /\ played' = Append(played, step[d])
  BY DEF Execute, Running, GoTo
<1>2. UNCHANGED <<cursor, served, joined, role, step, stray>>
  BY DEF Execute, serverVars, faultVars
<1>3. d \in Holding
  BY <1>1 DEF Holding
<1>4. Holding = {d} /\ step[d] = cursor
  BY <1>3, HolderIsAlone
<1>5. \A e \in Device : pc[e] # "ack"
  BY <1>1, <1>4 DEF Holding
<1>6. pc'[d] = "ack"
  BY <1>1 DEF TypeOK
<1>7. Holding' = Holding
  BY <1>1 DEF Holding, TypeOK
<1>8. HolderIsServed' /\ OnlyPollsAreStray' /\ DistinctRoles'
  BY <1>2, <1>7 DEF HolderIsServed, MayAct, OnlyPollsAreStray, DistinctRoles
<1>9. RolesAreJoined'
  <2>1. \A e \in Device : pc'[e] = "claim" <=> pc[e] = "claim"
    BY <1>1 DEF TypeOK
  <2>2. QED BY <1>2, <2>1 DEF RolesAreJoined
<1>10. ServedOnceJoined'
  BY <1>2 DEF ServedOnceJoined, AllJoined
<1>11. PlayedSoFar' /\ PlayedInOrderOnce'
  <2>1. Len(played) = cursor
    BY <1>5 DEF PlayedSoFar
  <2>2. played \in Seq(0 .. Steps) /\ cursor \in Nat
    BY ScriptFacts DEF TypeOK
  <2>3. played' = Append(played, cursor)
    BY <1>1, <1>4
  <2>4. Len(played') = cursor + 1
    BY <2>1, <2>2, <2>3
  <2>5. PlayedSoFar'
    BY <1>2, <1>6, <2>4 DEF PlayedSoFar
  <2>6. \A i \in 1 .. cursor + 1 : played'[i] = i - 1
    BY <2>1, <2>2, <2>3 DEF PlayedInOrderOnce
  <2>7. DOMAIN played' = 1 .. cursor + 1
    BY <2>1, <2>2, <2>3
  <2>8. QED BY <2>5, <2>6, <2>7 DEF PlayedInOrderOnce
<1>12. QED BY <1>8, <1>9, <1>10, <1>11

\* Acknowledging it moves the cursor after the history.
LEMMA AcknowledgeKeeps ==
  ASSUME IInv, TypeOK', NEW d \in Device, Acknowledge(d)
  PROVE  IInv'
<1> USE DEF IInv
<1>1. pc[d] = "ack" /\ pc' = [pc EXCEPT ![d] = "poll"] /\ DoneHandled(role[d])
  BY DEF Acknowledge, Running, GoTo
<1>2. UNCHANGED <<role, step, stray, played>>
  BY DEF Acknowledge, faultVars
<1>3. d \in Holding
  BY <1>1 DEF Holding
<1>4. Holding = {d} /\ served /\ MayAct(role[d])
  BY <1>3, HolderIsAlone DEF HolderIsServed
<1>5. cursor' = cursor + 1 /\ served' = FALSE /\ joined' = joined
  BY <1>1, <1>4 DEF DoneHandled
<1>6. \A e \in Device : pc'[e] \notin {"act", "ack"}
  BY <1>1, <1>4 DEF Holding, TypeOK
<1>7. HolderIsServed' /\ OnlyPollsAreStray' /\ DistinctRoles'
  BY <1>2, <1>6 DEF HolderIsServed, Holding, OnlyPollsAreStray, DistinctRoles
<1>8. RolesAreJoined'
  <2>1. \A e \in Device : pc'[e] = "claim" <=> pc[e] = "claim"
    BY <1>1 DEF TypeOK
  <2>2. QED BY <1>2, <1>5, <2>1 DEF RolesAreJoined
<1>9. ServedOnceJoined'
  BY <1>4, <1>5 DEF ServedOnceJoined, AllJoined
<1>10. PlayedSoFar' /\ PlayedInOrderOnce'
  BY <1>1, <1>2, <1>5, <1>6 DEF PlayedSoFar, PlayedInOrderOnce
<1>11. QED BY <1>7, <1>8, <1>9, <1>10

\* The only answers that fail to arrive are answers to a poll: the device polls
\* again, and the poll is left for the server to handle.
LEMMA UnansweredKeeps ==
  ASSUME Uniform, IInv, TypeOK', NEW d \in Device, Unanswered(d)
  PROVE  IInv'
<1> USE DEF IInv
<1>1. pc[d] = "poll"
  BY DEF Unanswered, Uniform, VerbAt
<1>2. pc' = pc /\ role' = role
  BY <1>1 DEF Unanswered, GoTo, TypeOK
<1>3. UNCHANGED <<cursor, served, joined, step, played>>
  BY DEF Unanswered, serverVars
<1>4. stray' = stray \cup {[verb |-> "next", role |-> role[d], id |-> dropped]}
  BY <1>1 DEF Unanswered, VerbAt
<1>5. OnlyPollsAreStray'
  BY <1>2, <1>4 DEF OnlyPollsAreStray
<1>6. HolderIsServed' /\ DistinctRoles' /\ RolesAreJoined'
  BY <1>2, <1>3 DEF HolderIsServed, Holding, MayAct, DistinctRoles, RolesAreJoined
<1>7. ServedOnceJoined' /\ PlayedSoFar' /\ PlayedInOrderOnce'
  BY <1>2, <1>3 DEF ServedOnceJoined, AllJoined, PlayedSoFar, PlayedInOrderOnce
<1>8. QED BY <1>5, <1>6, <1>7

\* A late poll changes no more than a poll of the same role would.
LEMMA HandleStrayKeeps ==
  ASSUME IInv, TypeOK', NEW m \in stray, HandleStray(m)
  PROVE  IInv'
<1> USE DEF IInv
<1>1. m.verb = "next" /\ m.role \in Role /\ \E d \in Device : role[d] = m.role
  BY DEF OnlyPollsAreStray, TypeOK
<1>2. NextHandled(m.role) /\ stray' \subseteq stray
  BY <1>1 DEF HandleStray
<1>3. UNCHANGED <<pc, role, step, played>>
  BY DEF HandleStray, clientVars
<1>4. /\ \A q \in Role : joined'[q] <=> joined[q] \/ q = m.role
      /\ cursor' = cursor
      /\ served => served'
      /\ ServedOnceJoined'
  BY <1>1, <1>2, NextKeeps
<1>5. RolesAreJoined' /\ DistinctRoles'
  BY <1>1, <1>3, <1>4, RolesKept
<1>6. OnlyPollsAreStray'
  BY <1>2, <1>3 DEF OnlyPollsAreStray
<1>7. HolderIsServed'
  BY <1>3, <1>4 DEF HolderIsServed, Holding, MayAct
<1>8. PlayedSoFar' /\ PlayedInOrderOnce'
  BY <1>3, <1>4 DEF PlayedSoFar, PlayedInOrderOnce
<1>9. QED BY <1>4, <1>5, <1>6, <1>7, <1>8

\* A death, or no step at all, changes nothing the invariant speaks of but types.
LEMMA RestKeeps ==
  ASSUME IInv, TypeOK', UNCHANGED <<serverVars, clientVars, stray, played>>
  PROVE  IInv'
<1> USE DEF serverVars, clientVars, IInv
<1>1. OnlyPollsAreStray' /\ HolderIsServed' /\ DistinctRoles' /\ RolesAreJoined'
  BY DEF OnlyPollsAreStray, HolderIsServed, Holding, MayAct, DistinctRoles, RolesAreJoined
<1>2. ServedOnceJoined' /\ PlayedSoFar' /\ PlayedInOrderOnce'
  BY DEF ServedOnceJoined, AllJoined, PlayedSoFar, PlayedInOrderOnce
<1>3. QED BY <1>1, <1>2

\* Every step of a uniform fleet keeps the invariant.
LEMMA InvStep == Uniform /\ IInv /\ [Next]_vars => IInv'
<1> SUFFICES ASSUME Uniform, IInv, [Next]_vars PROVE IInv' OBVIOUS
<1>1. TypeOK'
  BY TypeStep DEF IInv
<1>2. CASE \E d \in Device : Claim(d)
  BY <1>1, <1>2, ClaimKeeps
<1>3. CASE \E d \in Device : Poll(d)
  BY <1>1, <1>3, PollKeeps
<1>4. CASE \E d \in Device : Execute(d)
  BY <1>1, <1>4, ExecuteKeeps
<1>5. CASE \E d \in Device : Acknowledge(d)
  BY <1>1, <1>5, AcknowledgeKeeps
<1>6. CASE \E d \in Device : Unanswered(d)
  BY <1>1, <1>6, UnansweredKeeps
<1>7. CASE \E m \in stray : HandleStray(m)
  BY <1>1, <1>7, HandleStrayKeeps
<1>8. CASE \E d \in Device : Crash(d)
  BY <1>1, <1>8, RestKeeps DEF Crash
<1>9. CASE UNCHANGED vars
  BY <1>1, <1>9, RestKeeps DEF vars, faultVars
<1>10. QED BY <1>2, <1>3, <1>4, <1>5, <1>6, <1>7, <1>8, <1>9 DEF Next

\* In a uniform fleet the invariant holds for ever.
THEOREM UniformInvariant == Uniform => (Spec => []IInv)
<1> SUFFICES ASSUME Uniform PROVE Spec => []IInv
  OBVIOUS
<1>1. Init => IInv
  BY InvInit
<1>2. IInv /\ [Next]_vars => IInv'
  BY InvStep
<1>3. QED BY <1>1, <1>2, PTL DEF Spec

-----------------------------------------------------------------------------
(* What the invariant says about the properties. *)

\* Two who act would both have the current step, and the same role.
LEMMA InvGivesOneActor == IInv => OneActorAtATime
BY HolderIsAlone DEF OneActorAtATime, IInv, HolderIsServed

\* Once every role has joined, every device has one.
LEMMA InvGivesBarrier == TypeOK /\ RolesAreJoined /\ ServedOnceJoined => BarrierHolds
<1> SUFFICES ASSUME TypeOK, RolesAreJoined, ServedOnceJoined, served \/ cursor > 0
             PROVE  \A d \in Device : role[d] # NoRole
  BY DEF BarrierHolds
<1>1. \A r \in Role : \E d \in Device : role[d] = r
  BY DEF ServedOnceJoined, AllJoined, RolesAreJoined
<1>2. role \in [Device -> Role \cup {NoRole}]
  BY DEF TypeOK
<1>3. QED BY <1>1, <1>2, EveryRoleHeld

\* What is behind the cursor is in the history, in order.
LEMMA InvGivesAckedPlayed == IInv => AckedStepsWerePlayed
<1> SUFFICES ASSUME IInv, NEW s \in 0 .. cursor - 1
             PROVE  \E i \in DOMAIN played : played[i] = s
  BY DEF AckedStepsWerePlayed
<1>1. played \in Seq(0 .. Steps) /\ cursor \in Nat
  BY ScriptFacts DEF IInv, TypeOK
<1>2. Len(played) \in {cursor, cursor + 1}
  BY DEF IInv, PlayedSoFar
<1>3. s + 1 \in DOMAIN played
  BY <1>1, <1>2
<1>4. played[s + 1] = s
  BY <1>1, <1>3 DEF IInv, PlayedInOrderOnce
<1>5. QED BY <1>3, <1>4

\* A dead device that holds a step holds the one the server names.
LEMMA InvGivesDeadNamed == IInv => DeadActorIsNamed
<1> SUFFICES ASSUME IInv, NEW d \in Holding \ alive
             PROVE  Diagnosis = [stage |-> "Stalled", dev |-> role[d], at |-> step[d]]
  BY DEF DeadActorIsNamed
<1>1. step[d] = cursor /\ served /\ cursor < Steps /\ role[d] = Owner(cursor)
  BY HolderIsAlone
<1>2. Missing = {}
  BY <1>1 DEF IInv, ServedOnceJoined, AllJoined, Missing
<1>3. ~(cursor >= Steps)
  BY <1>1, ScriptFacts DEF IInv, TypeOK
<1>4. QED BY <1>1, <1>2, <1>3 DEF Diagnosis

\* Two devices of a uniform fleet never drive the same actor.
THEOREM RolesStayDistinct == Uniform => (Spec => []DistinctRoles)
BY UniformInvariant, PTL DEF IInv

\* At most one device holds an action, and it is the current step's owner.
THEOREM OneActorActs == Uniform => (Spec => []OneActorAtATime)
BY UniformInvariant, InvGivesOneActor, PTL

\* No action is handed out before every device has its role.
THEOREM BarrierIsKept == Uniform => (Spec => []BarrierHolds)
BY UniformInvariant, InvGivesBarrier, PTL DEF IInv

\* The script is executed in order, no step twice and none skipped.
THEOREM ScriptIsPlayed ==
  Uniform => (Spec => [](PlayedInOrderOnce /\ AckedStepsWerePlayed))
<1>1. IInv => PlayedInOrderOnce /\ AckedStepsWerePlayed
  BY InvGivesAckedPlayed DEF IInv
<1>2. QED BY <1>1, UniformInvariant, PTL

\* A device that dies with an action in hand is the one diagnose() names.
THEOREM TheDeadAreNamed == Uniform => (Spec => []DeadActorIsNamed)
BY UniformInvariant, InvGivesDeadNamed, PTL

-----------------------------------------------------------------------------
(* Refinement: the conductor plays the abstract scenario. *)

\* The device that holds an action, with its role, as the abstract scenario
\* sees it.
Performing == {<<d, role[d]>> : d \in Holding}

\* Nothing is performed at the start.
LEMMA InitRefines == Init => Abstract!Init
BY DEF Init, Holding, Abstract!Init

\* Each step moves the script of the abstract scenario on, or leaves it alone.
LEMMA StepRefines ==
  Uniform /\ IInv /\ IInv' /\ [Next]_vars => [Abstract!Next]_<<cursor, Performing>>
<1> SUFFICES ASSUME Uniform, IInv, IInv', [Next]_vars
             PROVE  [Abstract!Next]_<<cursor, Performing>>
  OBVIOUS
<1>1. ASSUME NEW d \in Device, Claim(d) PROVE UNCHANGED <<cursor, Performing>>
  <2>1. pc[d] = "claim" /\ Holding = {}
    BY <1>1, NothingBeforeTheLastClaim DEF Claim, Running
  <2>2. Holding' = {}
    BY <1>1, <2>1 DEF Claim, GoTo, Holding, IInv, TypeOK
  <2>3. cursor' = cursor
    BY <1>1 DEF Claim, ClaimGrants, ClaimRefused, serverVars
  <2>4. QED BY <2>1, <2>2, <2>3 DEF Performing
<1>2. ASSUME NEW d \in Device, Poll(d)
      PROVE  Abstract!Begin \/ UNCHANGED <<cursor, Performing>>
  <2>1. pc[d] = "poll" /\ cursor' = cursor /\ role' = role
    BY <1>2 DEF Poll, Running, NextHandled
  <2>2. CASE pc'[d] \in {"act", "ack"}
    <3>1. d \in Holding' /\ d \notin Holding
      BY <2>1, <2>2 DEF Holding
    <3>2. Holding' = {d} /\ cursor < Steps /\ role[d] = Owner(cursor)
      <4>1. OneActorAtATime'
        BY InvGivesOneActor, PTL
      <4>2. QED BY <2>1, <3>1, <4>1 DEF OneActorAtATime, MayAct
    <3>3. Holding = {}
      <4>1. Holding \subseteq Holding'
        BY <1>2, <2>1 DEF Poll, PollDone, PollWait, PollAct, GoTo, Holding, IInv, TypeOK
      <4>2. QED BY <3>1, <3>2, <4>1
    <3>4. Performing = {} /\ Performing' = {<<d, Owner(cursor)>>}
      BY <2>1, <3>2, <3>3 DEF Performing
    <3>5. QED BY <2>1, <3>2, <3>4 DEF Abstract!Begin, Performing, Steps, Owner
  <2>3. CASE pc'[d] \notin {"act", "ack"}
    <3>1. Holding' = Holding
      BY <1>2, <2>1, <2>3 DEF Poll, PollDone, PollWait, PollAct, GoTo, Holding, IInv, TypeOK
    <3>2. QED BY <2>1, <3>1 DEF Performing
  <2>4. QED BY <2>2, <2>3
<1>3. ASSUME NEW d \in Device, Execute(d) PROVE UNCHANGED <<cursor, Performing>>
  <2>1. Holding' = Holding
    BY <1>3 DEF Execute, Running, GoTo, Holding, IInv, TypeOK
  <2>2. QED BY <1>3, <2>1 DEF Execute, serverVars, Performing
<1>4. ASSUME NEW d \in Device, Acknowledge(d) PROVE Abstract!Complete
  <2>1. d \in Holding /\ role' = role
    BY <1>4 DEF Acknowledge, Running, Holding
  <2>2. Holding = {d} /\ served /\ MayAct(role[d])
    BY <2>1, HolderIsAlone DEF MayAct
  <2>3. cursor' = cursor + 1
    BY <1>4, <2>2 DEF Acknowledge, DoneHandled
  <2>4. Holding' = {}
    BY <1>4, <2>2 DEF Acknowledge, GoTo, Holding, IInv, TypeOK
  <2>5. QED BY <2>1, <2>2, <2>3, <2>4 DEF Abstract!Complete
<1>5. ASSUME NEW d \in Device, Unanswered(d) PROVE UNCHANGED <<cursor, Performing>>
  <2>1. pc[d] = "poll"
    BY <1>5 DEF Unanswered, Uniform, VerbAt
  <2>2. pc' = pc /\ role' = role /\ cursor' = cursor
    BY <1>5, <2>1 DEF Unanswered, GoTo, serverVars, IInv, TypeOK
  <2>3. QED BY <2>2 DEF Performing, Holding
<1>6. ASSUME NEW m \in stray, HandleStray(m) PROVE UNCHANGED <<cursor, Performing>>
  <2>1. m.verb = "next"
    BY DEF IInv, OnlyPollsAreStray
  <2>2. QED BY <1>6, <2>1 DEF HandleStray, NextHandled, clientVars, Performing, Holding
<1>7. ASSUME NEW d \in Device, Crash(d) PROVE UNCHANGED <<cursor, Performing>>
  BY <1>7 DEF Crash, serverVars, clientVars, Performing, Holding
<1>8. CASE UNCHANGED vars
  BY <1>8 DEF vars, serverVars, clientVars, Performing, Holding
<1>9. QED BY <1>1, <1>2, <1>3, <1>4, <1>5, <1>6, <1>7, <1>8 DEF Next, Abstract!Next

\* A uniform fleet implements the abstract scenario: one step at a time, in
\* script order, each once, each by a device that holds the step's role.
THEOREM Implements == Uniform => (Spec => ImplementsScenario)
<1> SUFFICES ASSUME Uniform PROVE Spec => ImplementsScenario
  OBVIOUS
<1>1. Spec => []IInv
  BY UniformInvariant
<1>2. IInv /\ IInv' /\ [Next]_vars => [Abstract!Next]_<<cursor, Performing>>
  BY StepRefines
<1>3. QED BY <1>1, <1>2, InitRefines, PTL
          DEF Spec, ImplementsScenario, Abstract!Spec, Abstract!vars, Performing

-----------------------------------------------------------------------------
(* Any fleet, any verb unanswered: what a fault costs while roles are      *)
(* distinct.                                                               *)

Executed == {played[i] : i \in DOMAIN played}

Held(s) == \E d \in Holding : step[d] = s

\* The steps behind the cursor that may be missing: not executed, or still in
\* somebody's hand after a late /done moved the cursor past them.
Loose == {s \in 0 .. cursor - 1 : s \notin Executed \/ Held(s)}

\* The steps that may be executed again: handed out again, or about to be because
\* their /done was not handled.
Repeatable ==
  {s \in Executed : \/ \E d \in Device : pc[d] = "act" /\ step[d] = s
                    \/ s = cursor /\ ~Held(s)}

\* A device is without a role until its claim is over.
Roleless == \A d \in Device : pc[d] = "claim" <=> role[d] = NoRole

\* Whoever holds an action owns its step, and has executed it when it comes to
\* acknowledge it; the cursor has not fallen behind it.
HoldsItsStep ==
  \A d \in Holding :
    /\ step[d] <= cursor /\ step[d] < Steps
    /\ Owner(step[d]) = role[d]
    /\ step[d] = cursor => served
    /\ pc[d] = "ack" => step[d] \in Executed

ExecutedSoFar == \A s \in Executed : s <= cursor

\* A request that is still on its way was paid for by the fault that left it.
StrayAreOld == IsFiniteSet(stray) /\ \A m \in stray : m.id < dropped

SkipsArePaid == Cardinality(Loose) + Cardinality(stray) <= dropped

RepeatsArePaid == Len(played) + Cardinality(Repeatable) <= Cardinality(Executed) + dropped

\* The invariant of every fleet.
FInv ==
  /\ TypeOK /\ Roleless /\ HoldsItsStep /\ ExecutedSoFar /\ StrayAreOld
  /\ DistinctRoles => SkipsArePaid /\ RepeatsArePaid

\* What a sequence over a set has is in the set.
LEMMA ElementsAreIn ==
  ASSUME NEW S, NEW q \in Seq(S)
  PROVE  \A i \in DOMAIN q : q[i] \in S
OBVIOUS

\* The sets that are counted are finite.
LEMMA CountedAreFinite ==
  ASSUME TypeOK
  PROVE  /\ Executed \subseteq 0 .. Steps /\ IsFiniteSet(Executed)
         /\ IsFiniteSet(Loose) /\ IsFiniteSet(Repeatable)
         /\ Cardinality(Executed) \in Nat /\ Cardinality(Loose) \in Nat
         /\ Cardinality(Repeatable) \in Nat
         /\ Len(played) \in Nat /\ dropped \in Nat /\ cursor \in Nat
<1>1. Executed \subseteq 0 .. Steps
  <2>1. played \in Seq(0 .. Steps)
    BY DEF TypeOK
  <2>2. \A i \in DOMAIN played : played[i] \in 0 .. Steps
    BY <2>1, ElementsAreIn
  <2> QED BY <2>2 DEF Executed
<1>2. cursor \in 0 .. Steps /\ dropped \in Nat
  BY ConductorAssumption DEF ConductorAssumption, TypeOK
<1>3. IsFiniteSet(0 .. Steps) /\ IsFiniteSet(0 .. cursor - 1)
  BY <1>2, FS_Interval, ScriptFacts
<1>4. Loose \subseteq 0 .. cursor - 1 /\ Repeatable \subseteq Executed
  BY DEF Loose, Repeatable
<1>5. IsFiniteSet(Executed) /\ IsFiniteSet(Loose)
  BY <1>1, <1>3, <1>4, FS_Subset
<1>6. IsFiniteSet(Repeatable)
  BY <1>4, <1>5, FS_Subset
<1>7. Len(played) \in Nat /\ cursor \in Nat
  BY <1>2, ScriptFacts DEF TypeOK
<1> QED BY <1>1, <1>2, <1>5, <1>6, <1>7, FS_CardinalityType

\* Counting: a set that lost nothing but may have gained one element.
LEMMA AtMostOneMore ==
  ASSUME NEW S, IsFiniteSet(S), NEW x, NEW T \in SUBSET (S \cup {x})
  PROVE  Cardinality(T) <= Cardinality(S) + 1
<1>1. IsFiniteSet(S \cup {x}) /\ Cardinality(S \cup {x}) <= Cardinality(S) + 1
  <2>1. /\ IsFiniteSet(S \cup {x})
        /\ Cardinality(S \cup {x}) =
             IF x \in S THEN Cardinality(S) ELSE Cardinality(S) + 1
    BY FS_AddElement
  <2>2. Cardinality(S) \in Nat
    BY FS_CardinalityType
  <2> QED BY <2>1, <2>2
<1>2. Cardinality(T) <= Cardinality(S \cup {x}) /\ IsFiniteSet(T)
  BY <1>1, FS_Subset
<1> QED BY <1>1, <1>2, FS_CardinalityType

\* And one that lost an element for it.
LEMMA OneForOne ==
  ASSUME NEW S, IsFiniteSet(S), NEW x \in S, NEW y, NEW T \in SUBSET ((S \ {x}) \cup {y})
  PROVE  Cardinality(T) <= Cardinality(S)
<1>1. IsFiniteSet(S \ {x}) /\ Cardinality(S \ {x}) = Cardinality(S) - 1
  BY FS_RemoveElement
<1>2. Cardinality(T) <= Cardinality(S \ {x}) + 1
  BY <1>1, AtMostOneMore
<1> QED BY <1>1, <1>2, FS_CardinalityType

\* With distinct roles a step is in the hand of at most one device.
LEMMA OneHolder ==
  ASSUME TypeOK, Roleless, HoldsItsStep, DistinctRoles,
         NEW d \in Holding, NEW e \in Holding, step[d] = step[e]
  PROVE  d = e
BY DEF HoldsItsStep, DistinctRoles, Roleless, Holding

\* A role that was had is kept, so roles that are distinct were so before.
LEMMA DistinctBefore ==
  ASSUME TypeOK, Roleless, [Next]_vars, DistinctRoles'
  PROVE  DistinctRoles
<1>1. \A d \in Device : role[d] # NoRole => role'[d] = role[d]
  <2> USE DEF TypeOK, Roleless
  <2>1. ASSUME NEW d \in Device, Claim(d) PROVE <1>1
    BY <2>1 DEF Claim, Running
  <2>2. ASSUME NEW d \in Device, Unanswered(d) PROVE <1>1
    BY <2>2 DEF Unanswered
  <2>3. CASE UNCHANGED role
    BY <2>3
  <2> QED
    BY <2>1, <2>2, <2>3
    DEF Next, Poll, Execute, Acknowledge, HandleStray, Crash, clientVars, vars
<1> QED BY <1>1 DEF DistinctRoles

\* A step that executes nothing and is no fault, and at most replaces one loose
\* step by another.
LEMMA CostsNothing ==
  ASSUME FInv, DistinctRoles, UNCHANGED <<played, stray, dropped>>,
         NEW x, NEW y,
         \/ Loose' \subseteq Loose
         \/ x \in Loose /\ Loose' \subseteq (Loose \ {x}) \cup {y},
         Repeatable' \subseteq Repeatable
  PROVE  SkipsArePaid' /\ RepeatsArePaid'
<1>1. Cardinality(Loose') <= Cardinality(Loose)
  BY CountedAreFinite, OneForOne, FS_Subset DEF FInv
<1>2. Cardinality(Repeatable') <= Cardinality(Repeatable)
  BY CountedAreFinite, FS_Subset DEF FInv
<1>3. Cardinality(Loose') \in Nat
  <2>1. IsFiniteSet(Loose')
    <3>1. IsFiniteSet((Loose \ {x}) \cup {y})
      BY CountedAreFinite, FS_RemoveElement, FS_AddElement DEF FInv
    <3> QED BY <3>1, CountedAreFinite, FS_Subset DEF FInv
  <2> QED BY <2>1, FS_CardinalityType
<1>4. Cardinality(Repeatable') \in Nat
  BY CountedAreFinite, FS_Subset, FS_CardinalityType DEF FInv
<1>5. Executed' = Executed
  BY DEF Executed
<1>6. Cardinality(stray) \in Nat
  BY FS_CardinalityType DEF FInv, StrayAreOld
<1>7. SkipsArePaid /\ RepeatsArePaid
  BY DEF FInv
<1>8. SkipsArePaid'
  BY <1>1, <1>3, <1>6, <1>7, CountedAreFinite DEF FInv, SkipsArePaid
<1>9. RepeatsArePaid'
  <2>1. Cardinality(Executed') = Cardinality(Executed) /\ Len(played') = Len(played)
    BY <1>5
  <2> QED BY <1>2, <1>4, <1>7, <2>1, CountedAreFinite DEF FInv, RepeatsArePaid
<1> QED BY <1>8, <1>9

\* A late request is paid for already: handling it may skip a step.
LEMMA StrayPays ==
  ASSUME FInv, DistinctRoles, UNCHANGED <<played, dropped>>,
         NEW m \in stray, stray' = stray \ {m},
         NEW x, Loose' \subseteq Loose \cup {x},
         Repeatable' \subseteq Repeatable
  PROVE  SkipsArePaid' /\ RepeatsArePaid'
<1>1. Cardinality(Loose') <= Cardinality(Loose) + 1
  BY CountedAreFinite, AtMostOneMore DEF FInv
<1>2. Cardinality(Loose') \in Nat
  BY CountedAreFinite, FS_AddElement, FS_Subset, FS_CardinalityType DEF FInv
<1>3. Cardinality(stray') = Cardinality(stray) - 1 /\ Cardinality(stray) \in Nat
  BY FS_RemoveElement, FS_CardinalityType DEF FInv, StrayAreOld
<1>4. Cardinality(Repeatable') <= Cardinality(Repeatable) /\ Cardinality(Repeatable') \in Nat
  BY CountedAreFinite, FS_Subset, FS_CardinalityType DEF FInv
<1>5. SkipsArePaid /\ RepeatsArePaid
  BY DEF FInv
<1>6. SkipsArePaid'
  BY <1>1, <1>2, <1>3, <1>5, CountedAreFinite DEF FInv, SkipsArePaid
<1>7. RepeatsArePaid'
  <2>1. Cardinality(Executed') = Cardinality(Executed) /\ Len(played') = Len(played)
    BY DEF Executed
  <2> QED BY <1>4, <1>5, <2>1, CountedAreFinite DEF FInv, RepeatsArePaid
<1> QED BY <1>6, <1>7

\* A new fault pays for the request it leaves, and for a step executed again.
LEMMA FaultPays ==
  ASSUME FInv, DistinctRoles, UNCHANGED played, dropped' = dropped + 1,
         NEW m, m \notin stray, stray' = stray \cup {m},
         Loose' \subseteq Loose,
         NEW y, Repeatable' \subseteq Repeatable \cup {y}
  PROVE  SkipsArePaid' /\ RepeatsArePaid'
<1>1. Cardinality(Loose') <= Cardinality(Loose) /\ Cardinality(Loose') \in Nat
  BY CountedAreFinite, FS_Subset, FS_CardinalityType DEF FInv
<1>2. Cardinality(stray') = Cardinality(stray) + 1 /\ Cardinality(stray) \in Nat
  BY FS_AddElement, FS_CardinalityType DEF FInv, StrayAreOld
<1>3. Cardinality(Repeatable') <= Cardinality(Repeatable) + 1
  BY CountedAreFinite, AtMostOneMore DEF FInv
<1>4. Cardinality(Repeatable') \in Nat
  BY CountedAreFinite, FS_AddElement, FS_Subset, FS_CardinalityType DEF FInv
<1>5. SkipsArePaid /\ RepeatsArePaid
  BY DEF FInv
<1>6. SkipsArePaid'
  BY <1>1, <1>2, <1>5, CountedAreFinite DEF FInv, SkipsArePaid
<1>7. RepeatsArePaid'
  <2>1. Cardinality(Executed') = Cardinality(Executed) /\ Len(played') = Len(played)
    BY DEF Executed
  <2> QED BY <1>3, <1>4, <1>5, <2>1, CountedAreFinite DEF FInv, RepeatsArePaid
<1> QED BY <1>6, <1>7

\* Executing a loose step settles it, or executing a repeatable one uses it up.
LEMMA ExecuteCosts ==
  ASSUME FInv, TypeOK', NEW d \in Device, Execute(d)
  PROVE  FInv'
<1> DEFINE s == step[d]
<1>1. /\ pc[d] = "act" /\ pc' = [pc EXCEPT ![d] = "ack"] /\ played' = Append(played, s)
      /\ UNCHANGED <<cursor, served, joined, role, step, alive, stray, dropped>>
  BY DEF Execute, Running, GoTo, serverVars, faultVars
<1>2. /\ played \in Seq(0 .. Steps) /\ s \in 0 .. Steps
      /\ pc \in [Device -> {"claim", "poll", "act", "ack", "finished"}]
  BY DEF FInv, TypeOK
<1>3. Executed' = Executed \cup {s} /\ Len(played') = Len(played) + 1
  <2>1. DOMAIN played = 1 .. Len(played) /\ DOMAIN played' = 1 .. Len(played) + 1
    BY <1>1, <1>2
  <2>2. \A i \in DOMAIN played : played'[i] = played[i]
    BY <1>1, <1>2
  <2>3. played'[Len(played) + 1] = s
    BY <1>1, <1>2
  <2>4. /\ Len(played) + 1 \in DOMAIN played'
        /\ DOMAIN played' = DOMAIN played \cup {Len(played) + 1}
    BY <1>2, <2>1
  <2> QED BY <1>1, <1>2, <2>2, <2>3, <2>4 DEF Executed
<1>4. Holding' = Holding /\ d \in Holding
  BY <1>1, <1>2 DEF Holding
<1>5. \A t : Held(t)' <=> Held(t)
  BY <1>1, <1>4 DEF Held
<1>6. Roleless' /\ StrayAreOld'
  BY <1>1, <1>2 DEF FInv, Roleless, StrayAreOld
<1>7. ExecutedSoFar'
  BY <1>1, <1>3, <1>4 DEF FInv, ExecutedSoFar, HoldsItsStep
<1>8. HoldsItsStep'
  BY <1>1, <1>2, <1>3, <1>4 DEF FInv, HoldsItsStep
<1>9. ASSUME DistinctRoles' PROVE SkipsArePaid' /\ RepeatsArePaid'
  <2>1. DistinctRoles
    BY <1>1, <1>9 DEF DistinctRoles
  <2>2. SkipsArePaid /\ RepeatsArePaid
    BY <2>1 DEF FInv
  <2>3. Held(s)
    BY <1>4 DEF Held
  <2>4. Loose' \subseteq Loose
    BY <1>1, <1>3, <1>5, <2>3 DEF Loose
  <2>5. SkipsArePaid'
    <3>1. Cardinality(Loose') <= Cardinality(Loose)
      BY <2>4, CountedAreFinite, FS_Subset DEF FInv
    <3>2. Cardinality(Loose') \in Nat /\ Cardinality(stray) \in Nat
      BY CountedAreFinite, FS_CardinalityType, FS_Subset, <2>4 DEF FInv, StrayAreOld
    <3> QED BY <1>1, <2>2, <3>1, <3>2, CountedAreFinite DEF FInv, SkipsArePaid
  <2>6. Repeatable' \subseteq Repeatable \ {s}
    <3>1. \A e \in Device : pc'[e] = "act" => pc[e] = "act" /\ e # d
      BY <1>1, <1>2
    <3>2. ~\E e \in Device : pc'[e] = "act" /\ step'[e] = s
      BY <1>1, <1>4, <2>1, <3>1, OneHolder DEF FInv, Holding
    <3>3. s \notin Repeatable'
      BY <1>5, <2>3, <3>2 DEF Repeatable
    <3>4. ASSUME NEW t \in Repeatable', t # s PROVE t \in Repeatable
      BY <1>1, <1>3, <1>5, <3>1, <3>4 DEF Repeatable
    <3> QED BY <3>3, <3>4
  <2>7. CASE s \in Executed
    <3>1. s \in Repeatable
      BY <1>1, <2>7 DEF Repeatable
    <3>2. /\ IsFiniteSet(Repeatable \ {s})
          /\ Cardinality(Repeatable \ {s}) = Cardinality(Repeatable) - 1
      BY <3>1, CountedAreFinite, FS_RemoveElement DEF FInv
    <3>3. /\ Cardinality(Repeatable') <= Cardinality(Repeatable) - 1
          /\ Cardinality(Repeatable') \in Nat
      BY <2>6, <3>2, FS_Subset, FS_CardinalityType
    <3>4. Executed' = Executed
      BY <1>3, <2>7
    <3>5. /\ Len(played) \in Nat /\ dropped \in Nat
          /\ Cardinality(Executed) \in Nat /\ Cardinality(Repeatable) \in Nat
      BY CountedAreFinite DEF FInv
    <3>6. Len(played') + Cardinality(Repeatable') <= Cardinality(Executed') + dropped'
      <4>1. Cardinality(Executed') = Cardinality(Executed) /\ dropped' = dropped
        BY <1>1, <3>4
      <4>2. Len(played) + Cardinality(Repeatable) <= Cardinality(Executed) + dropped
        BY <2>2 DEF RepeatsArePaid
      <4> QED BY <1>3, <3>3, <3>5, <4>1, <4>2
    <3> QED BY <2>5, <3>6 DEF RepeatsArePaid
  <2>8. CASE s \notin Executed
    <3>1. Cardinality(Executed') = Cardinality(Executed) + 1
      BY <1>3, <2>8, CountedAreFinite, FS_AddElement DEF FInv
    <3>2. Cardinality(Repeatable') <= Cardinality(Repeatable) /\ Cardinality(Repeatable') \in Nat
      <4>1. Repeatable' \subseteq Repeatable
        BY <2>6
      <4> QED BY <4>1, CountedAreFinite, FS_Subset, FS_CardinalityType DEF FInv
    <3> QED BY <1>1, <1>3, <2>2, <2>5, <3>1, <3>2, CountedAreFinite DEF FInv, RepeatsArePaid
  <2> QED BY <2>7, <2>8
<1> QED BY <1>6, <1>7, <1>8, <1>9 DEF FInv

\* A claim touches no step.
LEMMA ClaimCosts ==
  ASSUME FInv, TypeOK', NEW d \in Device, Claim(d), DistinctRoles' => DistinctRoles
  PROVE  FInv'
<1>1. pc[d] = "claim" /\ pc' = [pc EXCEPT ![d] = "poll"]
  BY DEF Claim, Running, GoTo
<1>2. UNCHANGED <<cursor, served, step, alive, stray, dropped, played>>
  BY DEF Claim, ClaimGrants, ClaimRefused, serverVars, faultVars
<1>3. PICK r \in Role : role' = [role EXCEPT ![d] = r]
  BY ScriptFacts DEF Claim
<1>4. Holding' = Holding /\ d \notin Holding
  BY <1>1 DEF Holding, FInv, TypeOK
<1>5. Executed' = Executed /\ \A t : Held(t)' <=> Held(t)
  BY <1>2, <1>4 DEF Executed, Held
<1>6. Roleless'
  BY <1>1, <1>3 DEF FInv, Roleless, TypeOK, Role, NoRole
<1>7. HoldsItsStep'
  BY <1>1, <1>2, <1>3, <1>4, <1>5 DEF FInv, HoldsItsStep, Holding, TypeOK
<1>8. ExecutedSoFar' /\ StrayAreOld'
  BY <1>2, <1>5 DEF FInv, ExecutedSoFar, StrayAreOld
<1>9. ASSUME DistinctRoles' PROVE SkipsArePaid' /\ RepeatsArePaid'
  <2>1. Loose' = Loose
    BY <1>2, <1>5 DEF Loose
  <2>2. Repeatable' \subseteq Repeatable
    BY <1>1, <1>2, <1>5 DEF Repeatable, FInv, TypeOK
  <2> QED BY <1>2, <1>9, <2>1, <2>2, CostsNothing
<1> QED BY <1>6, <1>7, <1>8, <1>9 DEF FInv

\* A poll hands out the current step, which nobody else holds: it stays loose or
\* repeatable if it was.
LEMMA PollCosts ==
  ASSUME FInv, TypeOK', NEW d \in Device, Poll(d), DistinctRoles' => DistinctRoles
  PROVE  FInv'
<1>1. pc[d] = "poll" /\ NextHandled(role[d])
  BY DEF Poll, Running
<1>2. UNCHANGED <<cursor, role, alive, stray, dropped, played>> /\ (served => served')
  BY <1>1 DEF Poll, NextHandled, faultVars
<1>3. /\ pc'[d] \in {"poll", "act", "finished"}
      /\ \A e \in Device : e # d => pc'[e] = pc[e] /\ step'[e] = step[e]
  BY <1>1 DEF Poll, PollDone, PollWait, PollAct, GoTo, FInv, TypeOK
<1>4. pc'[d] = "act" => step'[d] = cursor /\ MayAct(role[d]) /\ served'
  BY <1>1 DEF Poll, PollDone, PollWait, PollAct, GoTo, FInv, TypeOK, NextHandled
<1>5. Executed' = Executed
  BY <1>2 DEF Executed
<1>6. Roleless'
  BY <1>1, <1>2, <1>3 DEF FInv, Roleless
<1>7. d \notin Holding /\ Holding' = IF pc'[d] = "act" THEN Holding \cup {d} ELSE Holding
  BY <1>1, <1>3 DEF Holding
<1>8. cursor \in Nat /\ cursor' \in Nat
  BY <1>2, CountedAreFinite DEF FInv
<1>9. HoldsItsStep'
  <2> SUFFICES ASSUME NEW e \in Holding'
               PROVE  /\ step'[e] <= cursor' /\ step'[e] < Steps
                      /\ Owner(step'[e]) = role'[e]
                      /\ step'[e] = cursor' => served'
                      /\ pc'[e] = "ack" => step'[e] \in Executed'
    BY DEF HoldsItsStep
  <2>1. CASE e = d
    <3>1. pc'[d] = "act"
      BY <1>7, <2>1
    <3> QED BY <1>2, <1>4, <1>8, <2>1, <3>1 DEF MayAct
  <2>2. CASE e # d
    <3>1. e \in Holding /\ e \in Device
      BY <1>7, <2>2 DEF Holding
    <3> QED BY <1>2, <1>3, <1>5, <2>2, <3>1 DEF FInv, HoldsItsStep
  <2> QED BY <2>1, <2>2
<1>10. ExecutedSoFar' /\ StrayAreOld'
  BY <1>2, <1>5 DEF FInv, ExecutedSoFar, StrayAreOld
<1>11. ASSUME DistinctRoles' PROVE SkipsArePaid' /\ RepeatsArePaid'
  <2>1. \A t : Held(t)' <=> Held(t) \/ (pc'[d] = "act" /\ t = cursor)
    BY <1>3, <1>4, <1>7 DEF Held, Holding
  <2>2. Loose' \subseteq Loose
    BY <1>2, <1>5, <1>8, <2>1 DEF Loose
  <2>3. pc'[d] = "act" => ~Held(cursor)
    <3> SUFFICES ASSUME pc'[d] = "act", NEW e \in Holding, step[e] = cursor PROVE FALSE
      BY DEF Held
    <3>1. role[e] = role[d] /\ e # d
      BY <1>4, <1>7 DEF FInv, HoldsItsStep, MayAct
    <3> QED BY <1>1, <1>11, <3>1 DEF DistinctRoles, FInv, Roleless, Holding
  <2>4. Repeatable' \subseteq Repeatable
    <3> SUFFICES ASSUME NEW t \in Repeatable' PROVE t \in Repeatable
      OBVIOUS
    <3>1. t \in Executed
      BY <1>5 DEF Repeatable
    <3>2. CASE \E e \in Device : pc'[e] = "act" /\ step'[e] = t
      <4>1. PICK e \in Device : pc'[e] = "act" /\ step'[e] = t
        BY <3>2
      <4>2. CASE e = d
        BY <1>4, <2>3, <3>1, <4>1, <4>2 DEF Repeatable
      <4>3. CASE e # d
        BY <1>3, <3>1, <4>1, <4>3 DEF Repeatable
      <4> QED BY <4>2, <4>3
    <3>3. CASE t = cursor /\ ~Held(t)'
      BY <2>1, <3>1, <3>3 DEF Repeatable
    <3> QED BY <1>2, <3>2, <3>3 DEF Repeatable
  <2> QED BY <1>2, <1>11, <2>2, <2>4, CostsNothing
<1> QED BY <1>6, <1>9, <1>10, <1>11 DEF FInv

\* /done moves the cursor past a served step of its role, or does nothing.
LEMMA DoneMoves ==
  ASSUME FInv, NEW r, DoneHandled(r)
  PROVE  \/ UNCHANGED <<cursor, served>> /\ ~(MayAct(r) /\ served)
         \/ cursor' = cursor + 1 /\ served' = FALSE /\ MayAct(r) /\ served
BY DEF DoneHandled

\* An acknowledgement moves the cursor past a step that was executed; a late /done
\* that it finds handled already has it move past another one instead.
LEMMA AcknowledgeCosts ==
  ASSUME FInv, TypeOK', NEW d \in Device, Acknowledge(d), DistinctRoles' => DistinctRoles
  PROVE  FInv'
<1> DEFINE s == step[d]
<1>1. pc[d] = "ack" /\ pc' = [pc EXCEPT ![d] = "poll"] /\ DoneHandled(role[d])
  BY DEF Acknowledge, Running, GoTo
<1>2. UNCHANGED <<role, step, alive, stray, dropped, played>>
  BY DEF Acknowledge, faultVars
<1>3. d \in Holding /\ Holding' = Holding \ {d}
  BY <1>1 DEF Holding, FInv, TypeOK
<1>4. /\ s <= cursor /\ s < Steps /\ Owner(s) = role[d] /\ s \in Executed
      /\ s = cursor => served
  BY <1>1, <1>3 DEF FInv, HoldsItsStep
<1>5. Executed' = Executed
  BY <1>2 DEF Executed
<1>6. cursor \in Nat /\ s \in Nat /\ \A e \in Device : step[e] \in Nat
  BY CountedAreFinite, ScriptFacts DEF FInv, TypeOK
<1>7. \/ UNCHANGED <<cursor, served>> /\ s < cursor
      \/ cursor' = cursor + 1 /\ served' = FALSE
  <2>1. s = cursor => MayAct(role[d]) /\ served
    BY <1>4 DEF MayAct
  <2>2. \/ UNCHANGED <<cursor, served>> /\ ~(MayAct(role[d]) /\ served)
        \/ cursor' = cursor + 1 /\ served' = FALSE
    BY <1>1, DoneMoves
  <2>3. s # cursor => s < cursor
    BY <1>4, <1>6
  <2> QED BY <2>1, <2>2, <2>3
<1>8. Roleless'
  BY <1>1, <1>2 DEF FInv, Roleless, TypeOK
<1>9. HoldsItsStep'
  <2> SUFFICES ASSUME NEW e \in Holding, e # d
               PROVE  /\ step[e] <= cursor' /\ step[e] < Steps
                      /\ Owner(step[e]) = role[e]
                      /\ step[e] = cursor' => served'
                      /\ pc'[e] = "ack" => step[e] \in Executed
    BY <1>2, <1>3, <1>5 DEF HoldsItsStep
  <2>1. e \in Device /\ pc'[e] = pc[e]
    BY <1>1 DEF Holding, FInv, TypeOK
  <2> QED BY <1>6, <1>7, <2>1 DEF FInv, HoldsItsStep
<1>10. ExecutedSoFar'
  <2>1. \A t \in Executed : t \in Nat /\ t <= cursor
    BY CountedAreFinite, ScriptFacts DEF FInv, ExecutedSoFar
  <2> QED BY <1>5, <1>6, <1>7, <2>1 DEF ExecutedSoFar
<1>11. StrayAreOld'
  BY <1>2 DEF FInv, StrayAreOld
<1>12. ASSUME DistinctRoles' PROVE SkipsArePaid' /\ RepeatsArePaid'
  <2>1. \A t : Held(t)' => Held(t)
    BY <1>2, <1>3 DEF Held
  <2>2. ~Held(s)' /\ Held(s)
    BY <1>2, <1>3, <1>12, OneHolder DEF FInv, Held
  <2>3. Loose' \subseteq (Loose \ {s}) \cup {cursor} /\ (s = cursor => Loose' \subseteq Loose)
    <3>1. s \notin Loose'
      BY <1>2, <1>4, <1>5, <2>2 DEF Loose, Held
    <3>2. ASSUME NEW t \in Loose', t # cursor PROVE t \in Loose
      BY <1>5, <1>6, <1>7, <2>1, <3>2 DEF Loose
    <3> QED BY <3>1, <3>2
  <2>4. s # cursor => s \in Loose
    BY <1>4, <1>6, <2>2 DEF Loose
  <2>5. Repeatable' \subseteq Repeatable
    <3> SUFFICES ASSUME NEW t \in Repeatable' PROVE t \in Repeatable
      OBVIOUS
    <3>1. t \in Executed /\ t \in Nat /\ t <= cursor
      BY <1>5, CountedAreFinite, ScriptFacts DEF Repeatable, FInv, ExecutedSoFar
    <3>2. CASE \E e \in Device : pc'[e] = "act" /\ step'[e] = t
      BY <1>1, <1>2, <3>1, <3>2 DEF Repeatable, FInv, TypeOK
    <3>3. CASE t = cursor' /\ ~Held(t)'
      <4>1. cursor' = cursor /\ s < cursor
        BY <1>6, <1>7, <3>1, <3>3
      <4>2. ~Held(t)
        BY <1>2, <1>3, <1>6, <3>3, <4>1 DEF Held
      <4> QED BY <3>1, <3>3, <4>1, <4>2 DEF Repeatable
    <3> QED BY <3>2, <3>3 DEF Repeatable
  <2> QED BY <1>2, <1>12, <2>3, <2>4, <2>5, CostsNothing
<1> QED BY <1>8, <1>9, <1>10, <1>11, <1>12 DEF FInv

\* An unanswered /done leaves its step to be handed out again.
LEMMA UnansweredCosts ==
  ASSUME FInv, TypeOK', NEW d \in Device, Unanswered(d), DistinctRoles' => DistinctRoles
  PROVE  FInv'
<1> DEFINE m == [verb |-> VerbAt[pc[d]], role |-> role[d], id |-> dropped]
<1>1. /\ pc[d] \in {"claim", "poll", "ack"} /\ pc' = [pc EXCEPT ![d] = "poll"]
      /\ role' = [role EXCEPT ![d] = IF pc[d] = "claim" THEN 0 ELSE @]
      /\ dropped' = dropped + 1 /\ stray' = stray \cup {m}
      /\ UNCHANGED <<cursor, served, step, alive, played>>
  BY DEF Unanswered, GoTo, VerbAt, serverVars
<1>2. Holding' = Holding \ {d}
  BY <1>1 DEF Holding, FInv, TypeOK
<1>3. Executed' = Executed
  BY <1>1 DEF Executed
<1>4. Roleless'
  <2>1. 0 \in Role /\ 0 # NoRole
    BY ScriptFacts DEF NoRole
  <2> QED BY <1>1, <2>1 DEF FInv, Roleless, TypeOK
<1>5. HoldsItsStep'
  <2> SUFFICES ASSUME NEW e \in Holding, e # d
               PROVE  /\ step[e] <= cursor /\ step[e] < Steps
                      /\ Owner(step[e]) = role'[e]
                      /\ step[e] = cursor => served
                      /\ pc'[e] = "ack" => step[e] \in Executed
    BY <1>1, <1>2, <1>3 DEF HoldsItsStep
  <2>1. e \in Device /\ pc'[e] = pc[e] /\ role'[e] = role[e]
    BY <1>1 DEF Holding, FInv, TypeOK
  <2> QED BY <2>1 DEF FInv, HoldsItsStep
<1>6. ExecutedSoFar'
  BY <1>1, <1>3 DEF FInv, ExecutedSoFar
<1>7. dropped \in Nat /\ cursor \in Nat
  BY CountedAreFinite DEF FInv
<1>8. m \notin stray
  BY <1>7 DEF FInv, StrayAreOld
<1>9. StrayAreOld'
  <2>1. IsFiniteSet(stray')
    BY <1>1, FS_AddElement DEF FInv, StrayAreOld
  <2>2. \A n \in stray : n.id \in Nat
    BY ConductorAssumption DEF ConductorAssumption, FInv, TypeOK, Request
  <2>3. \A n \in stray : n.id < dropped + 1
    BY <1>7, <2>2 DEF FInv, StrayAreOld
  <2> QED BY <1>1, <1>7, <2>1, <2>3 DEF StrayAreOld
<1>10. ASSUME DistinctRoles' PROVE SkipsArePaid' /\ RepeatsArePaid'
  <2>1. Loose' \subseteq Loose
    BY <1>1, <1>2, <1>3 DEF Loose, Held
  <2>2. Repeatable' \subseteq Repeatable \cup {cursor}
    BY <1>1, <1>3 DEF Repeatable, FInv, TypeOK
  <2> HIDE DEF m
  <2> QED BY <1>1, <1>8, <1>10, <2>1, <2>2, FaultPays
<1> QED BY <1>4, <1>5, <1>6, <1>9, <1>10 DEF FInv

\* A late /done may move the cursor past a step that nobody has executed.
LEMMA HandleStrayCosts ==
  ASSUME FInv, TypeOK', NEW m \in stray, HandleStray(m), DistinctRoles' => DistinctRoles
  PROVE  FInv'
<1>1. UNCHANGED <<pc, role, step, alive, dropped, played>> /\ stray' = stray \ {m}
  BY DEF HandleStray, clientVars
<1>2. \/ cursor' = cursor /\ (served => served')
      \/ cursor' = cursor + 1 /\ served' = FALSE
  <2>1. CASE m.verb = "claim"
    BY <2>1 DEF HandleStray, ClaimRefused, ClaimGrants, serverVars
  <2>2. CASE m.verb = "next"
    BY <2>2 DEF HandleStray, NextHandled
  <2>3. CASE m.verb = "done"
    BY <2>3, DoneMoves DEF HandleStray
  <2> QED BY <2>1, <2>2, <2>3 DEF HandleStray
<1>3. Executed' = Executed /\ Holding' = Holding
  BY <1>1 DEF Executed, Holding
<1>4. \A t : (\E d \in Holding' : step'[d] = t) <=> Held(t)
  BY <1>1, <1>3 DEF Held
<1>5. cursor \in Nat /\ \A e \in Device : step[e] \in Nat
  BY CountedAreFinite, ScriptFacts DEF FInv, TypeOK
<1>6. \A t \in Executed : t \in Nat /\ t <= cursor
  BY CountedAreFinite, ScriptFacts DEF FInv, ExecutedSoFar
<1>7. Roleless' /\ StrayAreOld' /\ ExecutedSoFar'
  <2>1. StrayAreOld'
    BY <1>1, FS_RemoveElement DEF FInv, StrayAreOld
  <2> QED BY <1>1, <1>2, <1>3, <1>5, <1>6, <2>1 DEF FInv, Roleless, ExecutedSoFar
<1>8. HoldsItsStep'
  <2> SUFFICES ASSUME NEW e \in Holding
               PROVE  /\ step[e] <= cursor' /\ step[e] < Steps
                      /\ Owner(step[e]) = role[e]
                      /\ step[e] = cursor' => served'
                      /\ pc[e] = "ack" => step[e] \in Executed
    BY <1>1, <1>3 DEF HoldsItsStep
  <2>1. e \in Device
    BY DEF Holding
  <2> QED BY <1>2, <1>5, <2>1 DEF FInv, HoldsItsStep
<1>9. ASSUME DistinctRoles' PROVE SkipsArePaid' /\ RepeatsArePaid'
  <2>1. Loose' \subseteq Loose \cup {cursor}
    <3> SUFFICES ASSUME NEW t \in Loose', t # cursor PROVE t \in Loose
      OBVIOUS
    <3>1. t \in 0 .. cursor' - 1 /\ (t \notin Executed \/ Held(t))
      BY <1>3, <1>4 DEF Loose, Held
    <3>2. t \in 0 .. cursor - 1
      BY <1>2, <1>5, <3>1
    <3> QED BY <3>1, <3>2 DEF Loose
  <2>2. Repeatable' \subseteq Repeatable
    <3> SUFFICES ASSUME NEW t \in Repeatable' PROVE t \in Repeatable
      OBVIOUS
    <3>1. /\ t \in Executed
          /\ \/ \E e \in Device : pc[e] = "act" /\ step[e] = t
             \/ t = cursor' /\ ~Held(t)
      BY <1>1, <1>3, <1>4 DEF Repeatable, Held
    <3>2. t = cursor' => cursor' = cursor
      BY <1>2, <1>5, <1>6, <3>1
    <3> QED BY <3>1, <3>2 DEF Repeatable
  <2> QED BY <1>1, <1>9, <2>1, <2>2, StrayPays
<1> QED BY <1>7, <1>8, <1>9 DEF FInv

\* A death, or no step at all.
LEMMA RestCosts ==
  ASSUME FInv, TypeOK', UNCHANGED <<serverVars, clientVars, stray, dropped, played>>
  PROVE  FInv'
<1> USE DEF serverVars, clientVars
<1>1. Executed' = Executed /\ Holding' = Holding
  BY DEF Executed, Holding
<1>2. Loose' = Loose /\ Repeatable' = Repeatable
  BY <1>1 DEF Loose, Repeatable, Held
<1>3. Roleless' /\ HoldsItsStep' /\ ExecutedSoFar' /\ StrayAreOld'
  BY <1>1 DEF FInv, Roleless, HoldsItsStep, ExecutedSoFar, StrayAreOld
<1>4. DistinctRoles' => DistinctRoles
  BY DEF DistinctRoles
<1>5. SkipsArePaid' = SkipsArePaid /\ RepeatsArePaid' = RepeatsArePaid
  BY <1>1, <1>2 DEF SkipsArePaid, RepeatsArePaid
<1> QED BY <1>3, <1>4, <1>5 DEF FInv

\* Nothing has been played and nothing went unanswered.
LEMMA FInvInit == Init => FInv
<1> SUFFICES ASSUME Init PROVE FInv OBVIOUS
<1>1. TypeOK
  BY TypeInit
<1>2. \A d \in Device : d # NoRole
  BY ScriptFacts DEF Device, NoRole
<1>3. Holding = {} /\ Executed = {} /\ Loose = {} /\ Repeatable = {}
  BY DEF Init, Holding, Executed, Loose, Repeatable
<1>4. Roleless
  BY <1>2 DEF Init, Roleless
<1>5. HoldsItsStep /\ ExecutedSoFar
  BY <1>3 DEF HoldsItsStep, ExecutedSoFar
<1>6. StrayAreOld
  BY FS_EmptySet DEF Init, StrayAreOld
<1>7. SkipsArePaid /\ RepeatsArePaid
  <2>1. Cardinality({}) = 0 /\ Len(<<>>) = 0
    BY FS_EmptySet
  <2>2. stray = {} /\ dropped = 0 /\ played = <<>>
    BY DEF Init
  <2> QED BY <1>3, <2>1, <2>2 DEF SkipsArePaid, RepeatsArePaid
<1> QED BY <1>1, <1>4, <1>5, <1>6, <1>7 DEF FInv

\* Every step of every fleet keeps it.
LEMMA FInvStep == FInv /\ [Next]_vars => FInv'
<1> SUFFICES ASSUME FInv, [Next]_vars PROVE FInv' OBVIOUS
<1>1. TypeOK'
  BY TypeStep DEF FInv
<1>2. DistinctRoles' => DistinctRoles
  BY DistinctBefore DEF FInv
<1>3. CASE \E d \in Device : Claim(d)
  BY <1>1, <1>2, <1>3, ClaimCosts
<1>4. CASE \E d \in Device : Poll(d)
  BY <1>1, <1>2, <1>4, PollCosts
<1>5. CASE \E d \in Device : Execute(d)
  BY <1>1, <1>5, ExecuteCosts
<1>6. CASE \E d \in Device : Acknowledge(d)
  BY <1>1, <1>2, <1>6, AcknowledgeCosts
<1>7. CASE \E d \in Device : Unanswered(d)
  BY <1>1, <1>2, <1>7, UnansweredCosts
<1>8. CASE \E m \in stray : HandleStray(m)
  BY <1>1, <1>2, <1>8, HandleStrayCosts
<1>9. CASE \E d \in Device : Crash(d)
  BY <1>1, <1>9, RestCosts DEF Crash
<1>10. CASE UNCHANGED vars
  BY <1>1, <1>10, RestCosts DEF vars, faultVars
<1> QED BY <1>3, <1>4, <1>5, <1>6, <1>7, <1>8, <1>9, <1>10 DEF Next

\* In any fleet and whatever goes unanswered: while roles are distinct, at most one
\* step is skipped and at most one executed again for each unanswered verb.
THEOREM FaultsArePaid == Spec => []EachFaultCostsOne
<1>1. FInv => EachFaultCostsOne
  <2> SUFFICES ASSUME FInv, DistinctRoles
               PROVE  /\ Cardinality((0 .. cursor - 1) \ Executed) <= dropped
                      /\ Len(played) - Cardinality(Executed) <= dropped
    BY DEF EachFaultCostsOne, Executed
  <2>1. SkipsArePaid /\ RepeatsArePaid
    BY DEF FInv
  <2>2. (0 .. cursor - 1) \ Executed \subseteq Loose
    BY DEF Loose
  <2>3. /\ Cardinality((0 .. cursor - 1) \ Executed) <= Cardinality(Loose)
        /\ Cardinality((0 .. cursor - 1) \ Executed) \in Nat
    BY <2>2, CountedAreFinite, FS_Subset, FS_CardinalityType DEF FInv
  <2>4. Cardinality(stray) \in Nat
    BY FS_CardinalityType DEF FInv, StrayAreOld
  <2> QED BY <2>1, <2>3, <2>4, CountedAreFinite DEF FInv, SkipsArePaid, RepeatsArePaid
<1> QED BY <1>1, FInvInit, FInvStep, PTL DEF Spec

-----------------------------------------------------------------------------
(* Fleets whose roles stay distinct whatever else is lost, late or dead.   *)

\* Every runner of the fleet learns its role the same way, and one that claims its
\* role is answered.
RolesAgreed ==
  /\ Labelled \in {{}, Device}
  /\ Labelled = {} => "claim" \notin Droppable

\* A request on its way speaks for a role that some device has.
AskersHaveRoles ==
  \A m \in stray : m.verb # "claim" /\ \E d \in Device : role[d] = m.role

\* The invariant of such a fleet.
RInv == TypeOK /\ DistinctRoles /\ RolesAreJoined /\ AskersHaveRoles /\ ServedOnceJoined

\* At the start every labelled device has its role, and the others none.
LEMMA RInvInit == RolesAgreed /\ Init => RInv
<1> SUFFICES ASSUME RolesAgreed, Init PROVE RInv OBVIOUS
<1>1. TypeOK
  BY TypeInit
<1>2. \A d \in Device : d # NoRole
  BY ScriptFacts DEF Device, NoRole
<1>3. \A d \in Device : pc[d] = "claim" <=> role[d] = NoRole
  BY <1>2 DEF Init
<1>4. DistinctRoles /\ RolesAreJoined
  BY <1>3 DEF RolesAgreed, Init, DistinctRoles, RolesAreJoined
<1>5. AskersHaveRoles /\ ServedOnceJoined
  BY DEF Init, AskersHaveRoles, ServedOnceJoined
<1> QED BY <1>1, <1>4, <1>5 DEF RInv

\* A /done leaves the barrier closed if it was: it only moves past a served step.
LEMMA DoneKeepsBarrier ==
  ASSUME TypeOK, ServedOnceJoined, NEW r, DoneHandled(r)
  PROVE  ServedOnceJoined' /\ joined' = joined
BY DEF ServedOnceJoined, DoneHandled, AllJoined

\* A request that joins no new role, or one that a device has, keeps the roles.
LEMMA ServerKeepsRoles ==
  ASSUME RInv, NEW r \in Role, \E d \in Device : role[d] = r,
         NextHandled(r) \/ DoneHandled(r),
         role' = role,
         \A d \in Device : pc'[d] = "claim" <=> pc[d] = "claim"
  PROVE  DistinctRoles' /\ RolesAreJoined' /\ ServedOnceJoined'
<1>1. CASE NextHandled(r)
  BY <1>1, NextKeeps, RolesKept DEF RInv
<1>2. CASE DoneHandled(r)
  <2>1. ServedOnceJoined' /\ joined' = joined
    BY <1>2, DoneKeepsBarrier DEF RInv
  <2> QED BY <2>1 DEF RInv, DistinctRoles, RolesAreJoined
<1> QED BY <1>1, <1>2

\* Every step of such a fleet keeps it.
LEMMA RInvStep == RolesAgreed /\ RInv /\ [Next]_vars => RInv'
<1> SUFFICES ASSUME RolesAgreed, RInv, [Next]_vars PROVE RInv' OBVIOUS
<1> USE DEF RInv
<1>1. TypeOK'
  BY TypeStep
<1>2. ASSUME NEW d \in Device, Claim(d) PROVE RInv'
  <2>1. stray' = stray
    BY <1>2 DEF Claim, faultVars
  <2>2. AskersHaveRoles'
    BY <1>2, <2>1, ClaimGivesRole DEF AskersHaveRoles, TypeOK
  <2> QED BY <1>1, <1>2, <2>2, ClaimGivesRole
<1>3. ASSUME NEW d \in Device, Poll(d) \/ Acknowledge(d) PROVE RInv'
  <2>1. /\ NextHandled(role[d]) \/ DoneHandled(role[d])
        /\ role' = role /\ stray' = stray
        /\ pc[d] # "claim"
    BY <1>3 DEF Poll, Acknowledge, Running, faultVars
  <2>2. \A e \in Device : pc'[e] = "claim" <=> pc[e] = "claim"
    BY <1>3, <2>1
    DEF Poll, PollDone, PollWait, PollAct, Acknowledge, GoTo, TypeOK
  <2>3. role[d] \in Role
    BY <2>1 DEF TypeOK
  <2>4. DistinctRoles' /\ RolesAreJoined' /\ ServedOnceJoined'
    BY <2>1, <2>2, <2>3, ServerKeepsRoles
  <2> QED BY <1>1, <2>1, <2>4 DEF AskersHaveRoles
<1>4. ASSUME NEW d \in Device, Execute(d) PROVE RInv'
  <2>1. \A e \in Device : pc'[e] = "claim" <=> pc[e] = "claim"
    BY <1>4 DEF Execute, Running, GoTo, TypeOK
  <2>2. UNCHANGED <<cursor, served, joined, role, stray>>
    BY <1>4 DEF Execute, serverVars, faultVars
  <2> QED
    BY <1>1, <2>1, <2>2
    DEF DistinctRoles, RolesAreJoined, AskersHaveRoles, ServedOnceJoined, AllJoined
<1>5. ASSUME NEW d \in Device, Unanswered(d) PROVE RInv'
  <2>1. pc[d] \in {"poll", "ack"}
    BY <1>5 DEF Unanswered, VerbAt, RolesAgreed, RolesAreJoined
  <2>2. /\ pc' = [pc EXCEPT ![d] = "poll"] /\ role' = role
        /\ UNCHANGED <<cursor, served, joined>>
    BY <1>5, <2>1 DEF Unanswered, GoTo, serverVars, TypeOK
  <2>3. \A m \in stray' : m \in stray \/ (m.verb # "claim" /\ m.role = role[d])
    BY <1>5, <2>1 DEF Unanswered, VerbAt
  <2>4. AskersHaveRoles'
    BY <2>2, <2>3 DEF AskersHaveRoles
  <2>5. DistinctRoles' /\ RolesAreJoined' /\ ServedOnceJoined'
    BY <2>1, <2>2 DEF DistinctRoles, RolesAreJoined, ServedOnceJoined, AllJoined, TypeOK
  <2> QED BY <1>1, <2>4, <2>5
<1>6. ASSUME NEW m \in stray, HandleStray(m) PROVE RInv'
  <2>1. m.verb # "claim" /\ m.role \in Role /\ \E d \in Device : role[d] = m.role
    BY DEF AskersHaveRoles, TypeOK
  <2>2. /\ NextHandled(m.role) \/ DoneHandled(m.role)
        /\ UNCHANGED <<pc, role>> /\ stray' \subseteq stray
    BY <1>6, <2>1 DEF HandleStray, clientVars
  <2>3. DistinctRoles' /\ RolesAreJoined' /\ ServedOnceJoined'
    BY <2>1, <2>2, ServerKeepsRoles
  <2> QED BY <1>1, <2>2, <2>3 DEF AskersHaveRoles
<1>7. ASSUME UNCHANGED <<serverVars, clientVars, stray>> PROVE RInv'
  BY <1>1, <1>7
  DEF serverVars, clientVars, DistinctRoles, RolesAreJoined, AskersHaveRoles,
      ServedOnceJoined, AllJoined
<1> QED
  BY <1>2, <1>3, <1>4, <1>5, <1>6, <1>7 DEF Next, Crash, vars, faultVars

\* Whatever else goes unanswered, two devices of such a fleet never drive the same
\* actor, and no action is handed out before every device has its role.
THEOREM RolesSurviveFaults ==
  RolesAgreed => (Spec => [](DistinctRoles /\ BarrierHolds))
<1> SUFFICES ASSUME RolesAgreed PROVE Spec => [](DistinctRoles /\ BarrierHolds)
  OBVIOUS
<1>1. RInv => DistinctRoles /\ BarrierHolds
  BY InvGivesBarrier DEF RInv
<1> QED BY <1>1, RInvInit, RInvStep, PTL DEF Spec

\* So in such a fleet the price of a fault is bounded without condition: no more
\* steps are skipped, and no more executed again, than verbs went unanswered.
THEOREM PriceOfFaults ==
  RolesAgreed => (Spec => [](/\ Cardinality((0 .. cursor - 1) \ Executed) <= dropped
                             /\ Len(played) - Cardinality(Executed) <= dropped))
<1> SUFFICES ASSUME RolesAgreed
             PROVE  Spec => [](/\ Cardinality((0 .. cursor - 1) \ Executed) <= dropped
                               /\ Len(played) - Cardinality(Executed) <= dropped)
  OBVIOUS
<1>1. DistinctRoles /\ EachFaultCostsOne =>
        /\ Cardinality((0 .. cursor - 1) \ Executed) <= dropped
        /\ Len(played) - Cardinality(Executed) <= dropped
  BY DEF EachFaultCostsOne, Executed
<1> QED BY <1>1, RolesSurviveFaults, FaultsArePaid, PTL
=============================================================================
