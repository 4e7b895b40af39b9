----------------------------- MODULE Conductor ------------------------------
(***************************************************************************)
(* The multi-actor conductor of workflows/barrier.rs and the scenario      *)
(* clients that speak to it (the TUI runner's adapters/tui/scenario.rs     *)
(* stands for all of them: web, React Native, desktop and Flutter run the  *)
(* same loop).                                                             *)
(*                                                                         *)
(* The server's state is guarded by one mutex, so each verb (/claim, /next,*)
(* /done) is one atomic step; a client does nothing while it waits for an  *)
(* answer, so a verb that is answered is one step of client and server     *)
(* together.  A verb that gets no answer leaves a stray request: the       *)
(* client has carried on, and the server handles the request at any later  *)
(* moment or never.  That covers a request lost on the way, an answer lost *)
(* on the way back and a handler that runs after the client timed out.     *)
(***************************************************************************)
EXTENDS Naturals, Sequences, FiniteSets

CONSTANTS
  N,             \* number of actors, and of runner processes
  Owners,        \* Owners[i] is the role that owns the i-th step
  Labelled,      \* devices started with REPROIT_DEVICE in their environment
  Droppable,     \* verbs whose answer may fail to arrive
  MaxUnanswered, \* bound: how many answers fail to arrive in a behaviour
  MaxCrashes     \* bound: how many devices die in a behaviour

Device == 0 .. N - 1

Role == 0 .. N - 1

Verb == {"claim", "next", "done"}

ASSUME ConductorAssumption ==
  /\ N \in Nat \ {0}
  /\ Owners \in Seq(Role)
  /\ Labelled \subseteq Device
  /\ Droppable \subseteq Verb
  /\ MaxUnanswered \in Nat
  /\ MaxCrashes \in Nat

VARIABLES
  cursor,   \* server: the step being served or about to be, from 0
  served,   \* server: cursor's action was handed out and is not acknowledged
  joined,   \* server: which roles have shown up
  pc,       \* client: where in run_scenario_actor each device is
  role,     \* client: the role each device plays, NoRole until it has one
  step,     \* client: the step whose action a device holds
  alive,    \* the devices that have not died
  stray,    \* requests whose client has stopped waiting for them
  dropped,  \* how many answers failed to arrive
  played    \* history: the steps whose action was executed, in order

serverVars == <<cursor, served, joined>>
clientVars == <<pc, role, step>>
faultVars  == <<alive, stray, dropped>>
vars == <<serverVars, clientVars, faultVars, played>>

NoRole == N

Steps == Len(Owners)

Owner(s) == Owners[s + 1]

Request == [verb : Verb, role : Role \cup {NoRole}, id : 0 .. MaxUnanswered - 1]

Init ==
  /\ cursor = 0
  /\ served = FALSE
  /\ joined = [r \in Role |-> FALSE]
  /\ pc = [d \in Device |-> IF d \in Labelled THEN "poll" ELSE "claim"]
  /\ role = [d \in Device |-> IF d \in Labelled THEN d ELSE NoRole]
  /\ step = [d \in Device |-> 0]
  /\ alive = Device
  /\ stray = {}
  /\ dropped = 0
  /\ played = <<>>

-----------------------------------------------------------------------------
(* The server: what each verb does to its state. *)

\* Mutant: the barrier opens as soon as anybody is there.
MutantAllJoined == \E r \in Role : joined[r]

AllJoined == \A r \in Role : joined[r]

IsLowestFree(r) == ~joined[r] /\ \A q \in Role : q < r => joined[q]

\* Mutant: a role is handed out but not recorded as taken.
MutantClaimGrants(r) ==
  /\ IsLowestFree(r)
  /\ UNCHANGED serverVars

\* /claim: hand out the lowest role that has not shown up; none left is ERR.
ClaimGrants(r) ==
  /\ IsLowestFree(r)
  /\ joined' = [joined EXCEPT ![r] = TRUE]
  /\ UNCHANGED <<cursor, served>>

ClaimRefused ==
  /\ AllJoined
  /\ UNCHANGED serverVars

\* Mutant: the current step is served to whoever polls.
MutantMayAct(r) == cursor < Steps

\* /next from role r: contact joins; r's own step is served once all joined.
MayAct(r) == cursor < Steps /\ Owner(cursor) = r

\* Mutant: the step is handed out but not marked as awaiting /done.
MutantNextUnserved(r) ==
  /\ joined' = [joined EXCEPT ![r] = TRUE]
  /\ UNCHANGED <<cursor, served>>

NextHandled(r) ==
  /\ joined' = [joined EXCEPT ![r] = TRUE]
  /\ served' = (served \/ (MayAct(r) /\ AllJoined'))
  /\ UNCHANGED cursor

\* POST /done from role r: advance only past a served step that r owns.
DoneHandled(r) ==
  /\ IF MayAct(r) /\ served
     THEN cursor' = cursor + 1 /\ served' = FALSE
     ELSE UNCHANGED <<cursor, served>>
  /\ UNCHANGED joined

-----------------------------------------------------------------------------
(* The clients: run_scenario_actor, one verb or one action at a time. *)

Running(d, where) == d \in alive /\ pc[d] = where

GoTo(d, where) == pc' = [pc EXCEPT ![d] = where]

\* A refused claimant falls back to role 0, the letter `a`.
Claim(d) ==
  /\ Running(d, "claim")
  /\ \/ \E r \in Role : ClaimGrants(r) /\ role' = [role EXCEPT ![d] = r]
     \/ ClaimRefused /\ role' = [role EXCEPT ![d] = 0]
  /\ GoTo(d, "poll")
  /\ UNCHANGED <<step, faultVars, played>>

\* The answers of next_action, in its order: DONE, WAIT, ACT.  An answer arrives whole
\* or not at all: one cut off before its body, which the client would play as an action
\* without a name and acknowledge, is left out.
PollDone(d) ==
  /\ cursor >= Steps
  /\ GoTo(d, "finished")
  /\ UNCHANGED step

PollWait(d) ==
  /\ cursor < Steps
  /\ ~(AllJoined' /\ MayAct(role[d]))
  /\ UNCHANGED <<pc, step>>

\* Mutant: an action is acknowledged before it is executed.
MutantPollAct(d) ==
  /\ AllJoined' /\ MayAct(role[d])
  /\ GoTo(d, "ack")
  /\ step' = [step EXCEPT ![d] = cursor]

PollAct(d) ==
  /\ AllJoined' /\ MayAct(role[d])
  /\ GoTo(d, "act")
  /\ step' = [step EXCEPT ![d] = cursor]

Poll(d) ==
  /\ Running(d, "poll")
  /\ NextHandled(role[d])
  /\ PollDone(d) \/ PollWait(d) \/ PollAct(d)
  /\ UNCHANGED <<role, faultVars, played>>

Execute(d) ==
  /\ Running(d, "act")
  /\ played' = Append(played, step[d])
  /\ GoTo(d, "ack")
  /\ UNCHANGED <<serverVars, role, step, faultVars>>

\* Mutant: /done is sent with GET, which route() does not accept.
MutantAcknowledge(d) ==
  /\ Running(d, "ack")
  /\ GoTo(d, "poll")
  /\ UNCHANGED <<serverVars, role, step, faultVars, played>>

Acknowledge(d) ==
  /\ Running(d, "ack")
  /\ DoneHandled(role[d])
  /\ GoTo(d, "poll")
  /\ UNCHANGED <<role, step, faultVars, played>>

-----------------------------------------------------------------------------
(* Faults: an answer that does not arrive, a request handled late, a death.*)

VerbAt == [claim |-> "claim", poll |-> "next", ack |-> "done"]

\* The client swallows the error: a claimant takes role 0, the others go on.
Unanswered(d) ==
  /\ d \in alive /\ pc[d] \in DOMAIN VerbAt
  /\ VerbAt[pc[d]] \in Droppable
  /\ dropped < MaxUnanswered
  /\ dropped' = dropped + 1
  /\ stray' = stray \cup {[verb |-> VerbAt[pc[d]], role |-> role[d], id |-> dropped]}
  /\ role' = [role EXCEPT ![d] = IF pc[d] = "claim" THEN 0 ELSE @]
  /\ GoTo(d, "poll")
  /\ UNCHANGED <<serverVars, step, alive, played>>

HandleStray(m) ==
  /\ stray' = stray \ {m}
  /\ \/ /\ m.verb = "claim"
        /\ ClaimRefused \/ \E r \in Role : ClaimGrants(r)
     \/ m.verb = "next" /\ NextHandled(m.role)
     \/ m.verb = "done" /\ DoneHandled(m.role)
  /\ UNCHANGED <<clientVars, alive, dropped, played>>

\* The runner or its app dies; nothing is acknowledged and nothing restarts it.
Crash(d) ==
  /\ d \in alive /\ pc[d] # "finished"
  /\ Cardinality(Device \ alive) < MaxCrashes
  /\ alive' = alive \ {d}
  /\ UNCHANGED <<serverVars, clientVars, stray, dropped, played>>

Client(d) == Claim(d) \/ Poll(d) \/ Execute(d) \/ Acknowledge(d)

Next ==
  \/ \E d \in Device : Claim(d)
  \/ \E d \in Device : Poll(d)
  \/ \E d \in Device : Execute(d)
  \/ \E d \in Device : Acknowledge(d)
  \/ \E d \in Device : Unanswered(d)
  \/ \E m \in stray : HandleStray(m)
  \/ \E d \in Device : Crash(d)

Spec == Init /\ [][Next]_vars

\* A live client leaves its loop on DONE, or after 100000 answers (over an hour of
\* WAIT, longer than any run is given; the model has no such limit), and an action is
\* a bounded amount of input, so every client keeps taking its next step.
FairSpec == Spec /\ \A d \in Device : WF_vars(Client(d))

-----------------------------------------------------------------------------
(* What diagnose() answers. *)

Missing == {r \in Role : ~joined[r]}

Diagnosis ==
  IF cursor >= Steps THEN [stage |-> "Done"]
  ELSE IF Missing # {} THEN [stage |-> "AwaitingJoin", missing |-> Missing]
  ELSE IF served THEN [stage |-> "Stalled", dev |-> Owner(cursor), at |-> cursor]
  ELSE [stage |-> "Running", at |-> cursor]

-----------------------------------------------------------------------------
(* Properties. *)

Holding == {d \in Device : pc[d] \in {"act", "ack"}}

\* Types of every variable, the fault bounds included.
TypeOK ==
  /\ cursor \in 0 .. Steps
  /\ served \in BOOLEAN
  /\ joined \in [Role -> BOOLEAN]
  /\ pc \in [Device -> {"claim", "poll", "act", "ack", "finished"}]
  /\ role \in [Device -> Role \cup {NoRole}]
  /\ \A d \in Device : pc[d] # "claim" => role[d] \in Role
  /\ step \in [Device -> 0 .. Steps]
  /\ alive \subseteq Device
  /\ stray \subseteq Request
  /\ \A m \in stray : m.verb # "claim" => m.role \in Role
  /\ dropped \in 0 .. MaxUnanswered
  /\ played \in Seq(0 .. Steps)

\* Two devices never drive the same actor (the header of barrier.rs: "two
\* devices can never drive the same actor").
DistinctRoles ==
  \A d, e \in Device : d # e /\ role[d] # NoRole => role[d] # role[e]

\* A device that has an action in hand has the current step's action, owns
\* it, and is alone: the script is performed one actor at a time.
OneActorAtATime ==
  \A d \in Holding :
    /\ step[d] = cursor /\ served
    /\ MayAct(role[d])
    /\ Holding = {d}

\* The join barrier: no action is handed out before every device is there,
\* not merely before every role was once mentioned.
BarrierHolds == (served \/ cursor > 0) => \A d \in Device : role[d] # NoRole

\* The actions executed are the script's, in order, each exactly once.
PlayedInOrderOnce == \A i \in DOMAIN played : played[i] = i - 1

\* The server never moves past a step whose action was not executed.
AckedStepsWerePlayed ==
  \A s \in 0 .. cursor - 1 : \E i \in DOMAIN played : played[i] = s

\* The comment in run_scenario_actor: a crashed actor does not acknowledge
\* "so the conductor's diagnose() names this actor and action".
DeadActorIsNamed ==
  \A d \in Holding \ alive :
    Diagnosis = [stage |-> "Stalled", dev |-> role[d], at |-> step[d]]

\* Every runner of the fleet learns its role the same way, and only a poll can
\* go unanswered.
Uniform == Labelled \in {{}, Device} /\ Droppable \subseteq {"next"}

\* A device is without a role until it has claimed one; a role that has joined
\* is some device's, and a claimed role has joined.
RolesAreJoined ==
  /\ \A d \in Device : pc[d] = "claim" <=> role[d] = NoRole
  /\ \A r \in Role : joined[r] => \E d \in Device : role[d] = r
  /\ \A d \in Device : pc[d] = "claim" => Labelled = {}
  /\ Labelled = {} => \A d \in Device : role[d] # NoRole => joined[role[d]]

OnlyPollsAreStray ==
  \A m \in stray : m.verb = "next" /\ \E d \in Device : role[d] = m.role

ServedOnceJoined == (served \/ cursor > 0) => AllJoined

HolderIsServed == \A d \in Holding : step[d] = cursor /\ served /\ MayAct(role[d])

PlayedSoFar == Len(played) = IF \E d \in Device : pc[d] = "ack" THEN cursor + 1 ELSE cursor

\* The inductive invariant of a uniform fleet: together these parts are kept by
\* every step, and the safety properties above follow from them.
IInv ==
  /\ TypeOK
  /\ DistinctRoles
  /\ RolesAreJoined
  /\ OnlyPollsAreStray
  /\ ServedOnceJoined
  /\ HolderIsServed
  /\ PlayedSoFar
  /\ PlayedInOrderOnce

\* What an unanswered verb can cost as long as roles are distinct: at most one
\* step skipped and at most one step executed again.
EachFaultCostsOne ==
  DistinctRoles =>
    LET executed == {played[i] : i \in DOMAIN played}
    IN  /\ Cardinality((0 .. cursor - 1) \ executed) <= dropped
        /\ Len(played) - Cardinality(executed) <= dropped

\* A remaining step, or the join barrier, waits for a device that is dead.
WaitsForTheDead ==
  \E d \in Device \ alive :
    \/ role[d] = NoRole
    \/ ~joined[role[d]]
    \/ \E s \in cursor .. Steps - 1 : Owner(s) = role[d]

\* Every live actor finishes the scenario, unless a dead one is waited for.
FinishesUnlessDeadNeeded ==
  <>((\A d \in alive : pc[d] = "finished") \/ WaitsForTheDead)

\* The conductor implements the abstract scenario: an action in hand is a
\* step being performed, an acknowledgement completes it.
Abstract ==
  INSTANCE Scenario WITH
    Script <- Owners,
    pos <- cursor,
    performing <- {<<d, role[d]>> : d \in Holding}

ImplementsScenario == Abstract!Spec
=============================================================================
