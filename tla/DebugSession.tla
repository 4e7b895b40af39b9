---------------------------- MODULE DebugSession ----------------------------
(***************************************************************************)
(* The control session of `reproit debug`: DebugControl of                 *)
(* adapters/execution/runner/debug_control.rs, the end of the run that     *)
(* holds it (prepare_debugger and execute_with_mode of runner.rs) and its  *)
(* clients, sendCommand of integrations/vscode-reproit/control.js.         *)
(*                                                                         *)
(* The session waits for Enter and for control connections at once, and    *)
(* handles one connection at a time: it reads the request to its end,      *)
(* records the state the command asks for in debug-session.json, answers,  *)
(* and acts on the decision.  A client connects, sends and ends its        *)
(* request, and gives up after a while; its connection waits in the        *)
(* backlog meanwhile.  The port closes when the session is decided.        *)
(***************************************************************************)
EXTENDS Naturals, Sequences

CONSTANTS
  Clients,   \* control connections, one command each
  NoClient,  \* stands for none of them
  Stale,     \* clients that hold the token of an earlier session
  Suspended  \* clients that may stop between connecting and sending

ASSUME ClientsAssumption ==
  NoClient \notin Clients /\ Stale \subseteq Clients /\ Suspended \subseteq Clients

Command == {"status", "debugger-attached", "replay-trigger", "stop"}

VARIABLES
  pc,        \* where the session, then the run that holds it, is
  shown,     \* state in debug-session.json
  decision,  \* what wait_for_trigger returned
  reached,   \* what the request being answered decided
  cleaned,   \* how the run's cleanup ended
  typed,     \* what the terminal thread has read
  wants,     \* the command of each client
  sock,      \* where each client is
  answer,    \* what each client was told
  backlog,   \* connections not accepted yet
  conn       \* the connection being handled

clientVars == <<wants, sock>>
vars == <<pc, shown, decision, reached, cleaned, typed, clientVars, answer, backlog, conn>>

\* The descriptor is written and the port is bound; the IDE is opened next.
Init ==
  /\ pc = "opening"
  /\ shown = "waiting-for-debugger"
  /\ decision = "none"
  /\ reached = "none"
  /\ cleaned = "none"
  /\ typed = "none"
  /\ wants \in [Clients -> Command]
  /\ sock = [c \in Clients |-> "idle"]
  /\ answer = [c \in Clients |-> "none"]
  /\ backlog = <<>>
  /\ conn = NoClient

-----------------------------------------------------------------------------
(* The clients and the person. *)

Bound == pc \in {"opening", "waiting", "reading", "answering"}

Connect(c) ==
  /\ sock[c] = "idle"
  /\ IF Bound
     THEN /\ sock' = [sock EXCEPT ![c] = "open"]
          /\ backlog' = Append(backlog, c)
          /\ UNCHANGED answer
     ELSE /\ sock' = [sock EXCEPT ![c] = "gone"]
          /\ answer' = [answer EXCEPT ![c] = "error"]
          /\ UNCHANGED backlog
  /\ UNCHANGED <<pc, shown, decision, reached, cleaned, typed, wants, conn>>

\* The request is sent and the sending side closed.
Send(c) ==
  /\ sock[c] = "open"
  /\ sock' = [sock EXCEPT ![c] = "sent"]
  /\ UNCHANGED <<pc, shown, decision, reached, cleaned, typed, wants, answer, backlog, conn>>

\* Five seconds pass, or the IDE ends: what was sent stays in the connection.
GiveUp(c) ==
  /\ sock[c] \in {"open", "sent"} /\ answer[c] = "none"
  /\ sock' = [sock EXCEPT ![c] = IF @ = "sent" THEN "left" ELSE "gone"]
  /\ answer' = [answer EXCEPT ![c] = "error"]
  /\ UNCHANGED <<pc, shown, decision, reached, cleaned, typed, wants, backlog, conn>>

\* Enter, or the end of the input.
Type ==
  /\ typed = "none"
  /\ typed' \in {"line", "eof"}
  /\ UNCHANGED <<pc, shown, decision, reached, cleaned, clientVars, answer, backlog, conn>>

-----------------------------------------------------------------------------
(* The session: wait_for_trigger and handle_connection. *)

\* The listener and the connection are dropped with the session: whoever is
\* not answered is reset.
Drop(told) ==
  /\ answer' = [c \in Clients |->
                  IF sock[c] \in {"open", "sent"} /\ told[c] = "none" THEN "error" ELSE told[c]]
  /\ backlog' = <<>>
  /\ conn' = NoClient

Decide(what, told) ==
  /\ decision' = what
  /\ pc' = IF what = "release" THEN "replaying" ELSE "cleaning"
  /\ Drop(told)

Fail == Decide("error", answer) /\ UNCHANGED shown

\* open_ide may fail, and so may the check for a terminal that follows it.
OpenIde ==
  /\ pc = "opening"
  /\ \/ Fail
     \/ pc' = "waiting" /\ UNCHANGED <<shown, decision, answer, backlog, conn>>
  /\ UNCHANGED <<reached, cleaned, typed, clientVars>>

\* Mutant: the end of the input is not taken for an answer.
MutantTerminalRead ==
  /\ pc = "waiting" /\ typed = "line"
  /\ \/ Fail
     \/ shown' = "paused-before-trigger" /\ Decide("release", answer)
  /\ UNCHANGED <<reached, cleaned, typed, clientVars>>

\* Writing the descriptor may fail, which ends the session.
TerminalRead ==
  /\ pc = "waiting" /\ typed # "none"
  /\ \/ Fail
     \/ typed = "line" /\ shown' = "paused-before-trigger" /\ Decide("release", answer)
  /\ UNCHANGED <<reached, cleaned, typed, clientVars>>

Accept ==
  /\ pc = "waiting" /\ backlog # <<>>
  /\ pc' = "reading"
  /\ conn' = Head(backlog)
  /\ backlog' = Tail(backlog)
  /\ UNCHANGED <<shown, decision, reached, cleaned, typed, clientVars, answer>>

\* A connection that ends without its request is an error of the session.
ReadNothing ==
  /\ pc = "reading" /\ sock[conn] = "gone"
  /\ Fail
  /\ UNCHANGED <<reached, cleaned, typed, clientVars>>

\* Mutant: the token is not compared.
MutantAsks(command) == wants[conn] = command

Asks(command) == conn \notin Stale /\ wants[conn] = command

Reached ==
  IF Asks("replay-trigger") THEN "release" ELSE IF Asks("stop") THEN "stop" ELSE "none"

Recorded ==
  IF Asks("debugger-attached") THEN "paused-before-trigger"
  ELSE IF Asks("replay-trigger") THEN "triggering"
  ELSE IF Asks("stop") THEN "cleaning"
  ELSE shown

\* Mutant: the decision is taken before the descriptor is written, and stands
\* when the write fails.
MutantReadRequest ==
  /\ pc = "reading" /\ sock[conn] \in {"sent", "left"}
  /\ pc' = "answering"
  /\ shown' \in {Recorded, shown}
  /\ reached' = Reached
  /\ UNCHANGED <<decision, answer, backlog, conn>>
  /\ UNCHANGED <<cleaned, typed, clientVars>>

\* The request is whole: the state it asks for is recorded before the answer.
ReadRequest ==
  /\ pc = "reading" /\ sock[conn] \in {"sent", "left"}
  /\ \/ /\ pc' = "answering"
        /\ shown' = Recorded
        /\ reached' = Reached
        /\ UNCHANGED <<decision, answer, backlog, conn>>
     \/ /\ \E command \in Command \ {"status"} : Asks(command)
        /\ Fail /\ UNCHANGED reached
  /\ UNCHANGED <<cleaned, typed, clientVars>>

Told ==
  [answer EXCEPT ![conn] =
     IF sock[conn] # "sent" THEN @ ELSE IF conn \in Stale THEN "rejected" ELSE "accepted"]

Answered(told) ==
  IF reached = "none"
  THEN /\ pc' = "waiting" /\ conn' = NoClient /\ answer' = told
       /\ UNCHANGED <<decision, backlog>>
  ELSE Decide(reached, told)

\* Mutant: a client that has gone is no error, and its decision is dropped.
MutantRespond ==
  /\ pc = "answering"
  /\ IF sock[conn] = "left"
     THEN /\ pc' = "waiting" /\ conn' = NoClient
          /\ UNCHANGED <<decision, answer, backlog>>
     ELSE Answered(Told)
  /\ UNCHANGED <<shown, reached, cleaned, typed, clientVars>>

\* The answer to a client that has gone may be an error of the session.
Respond ==
  /\ pc = "answering"
  /\ \/ Answered(Told)
     \/ sock[conn] = "left" /\ Decide("error", answer)
  /\ UNCHANGED <<shown, reached, cleaned, typed, clientVars>>

-----------------------------------------------------------------------------
(* The run that holds the session. *)

Replay ==
  /\ pc = "replaying"
  /\ pc' = "cleaning"
  /\ UNCHANGED <<shown, decision, reached, cleaned, typed, clientVars, answer, backlog, conn>>

CleanUp ==
  /\ pc = "cleaning"
  /\ pc' = "closing"
  /\ cleaned' \in {"verified", "unverified"}
  /\ UNCHANGED <<shown, decision, reached, typed, clientVars, answer, backlog, conn>>

\* finish() writes the last state of a session that has a diagnostic receipt,
\* which is one whose trigger was released; the write may fail.
Finish ==
  /\ pc = "closing"
  /\ pc' = "over"
  /\ IF decision = "release"
     THEN shown' \in {IF cleaned = "verified" THEN "completed" ELSE "failed", shown}
     ELSE UNCHANGED shown
  /\ UNCHANGED <<decision, reached, cleaned, typed, clientVars, answer, backlog, conn>>

\* The process is interrupted.
Die ==
  /\ pc # "over"
  /\ pc' = "over"
  /\ Drop(answer)
  /\ UNCHANGED <<shown, decision, reached, cleaned, typed, clientVars>>

Session ==
  \/ OpenIde \/ TerminalRead \/ Accept \/ ReadNothing \/ ReadRequest \/ Respond
  \/ Replay \/ CleanUp \/ Finish

Next ==
  \/ OpenIde \/ TerminalRead \/ Accept \/ ReadNothing \/ ReadRequest \/ Respond
  \/ Replay \/ CleanUp \/ Finish
  \/ Type \/ Die
  \/ \E c \in Clients : Connect(c) \/ Send(c) \/ GiveUp(c)

Spec == Init /\ [][Next]_vars

\* The session runs, and a client that is not suspended sends or gives up.
\* Nothing is assumed of the person.
FairSpec ==
  /\ Spec /\ WF_vars(Session)
  /\ \A c \in Clients \ Suspended : WF_vars(Send(c) \/ GiveUp(c))

-----------------------------------------------------------------------------
(* Properties. *)

TypeOK ==
  /\ pc \in {"opening", "waiting", "reading", "answering", "replaying", "cleaning",
             "closing", "over"}
  /\ shown \in {"waiting-for-debugger", "paused-before-trigger", "triggering", "cleaning",
                "completed", "failed"}
  /\ decision \in {"none", "release", "stop", "error"}
  /\ reached \in {"none", "release", "stop"}
  /\ cleaned \in {"none", "verified", "unverified"}
  /\ typed \in {"none", "line", "eof"}
  /\ wants \in [Clients -> Command]
  /\ sock \in [Clients -> {"idle", "open", "sent", "left", "gone"}]
  /\ answer \in [Clients -> {"none", "accepted", "rejected", "error"}]
  /\ backlog \in Seq(Clients)
  /\ conn \in Clients \cup {NoClient}
  /\ pc \in {"reading", "answering"} <=> conn # NoClient

\* What a client is told is what happens: an accepted command was authorised,
\* and an accepted replay or stop is the decision of the session.  What happens
\* was asked for: by Enter, or by an authorised client that sent its request
\* (docs/cli.md: "IDE clients can ... fire the recorded trigger ...; terminal
\* Enter remains the extension-free fallback").
AnswersAreTrue ==
  /\ \A c \in Clients : answer[c] = "accepted" =>
       /\ c \notin Stale
       /\ wants[c] = "replay-trigger" => decision = "release"
       /\ wants[c] = "stop" => decision = "stop"
  /\ decision = "release" =>
       \/ typed = "line"
       \/ \E c \in Clients \ Stale : wants[c] = "replay-trigger" /\ sock[c] \in {"sent", "left"}
  /\ decision = "stop" =>
       \E c \in Clients \ Stale : wants[c] = "stop" /\ sock[c] \in {"sent", "left"}

\* debug-session.json has what a client was told is recorded, and claims nothing
\* that is not so: completed and failed are the end of a run whose trigger was
\* released, as its cleanup ended; triggering and cleaning are the decision,
\* unless the client that asked had gone and could not be answered, or the
\* process was interrupted before it answered.
DescriptorIsTrue ==
  /\ \A c \in Clients : answer[c] = "accepted" =>
       /\ wants[c] = "debugger-attached" => shown # "waiting-for-debugger"
       /\ wants[c] = "replay-trigger" => shown \in {"triggering", "completed", "failed"}
       /\ wants[c] = "stop" => shown = "cleaning"
  /\ shown = "completed" => decision = "release" /\ cleaned = "verified"
  /\ shown = "failed" => decision = "release" /\ cleaned = "unverified"
  /\ shown \in {"triggering", "cleaning"} =>
       \/ decision = IF shown = "triggering" THEN "release" ELSE "stop"
       \/ pc = "answering" \/ (pc = "over" /\ decision = "none")
       \/ decision = "error" /\ \E c \in Clients \ Stale :
            sock[c] = "left"
              /\ wants[c] = IF shown = "triggering" THEN "replay-trigger" ELSE "stop"

\* The descriptor moves forward, and never from one decision to the other.
Forward(from) ==
  CASE from = "waiting-for-debugger" -> {"paused-before-trigger", "triggering", "cleaning"}
    [] from = "paused-before-trigger" -> {"triggering", "cleaning", "completed", "failed"}
    [] from = "triggering" -> {"completed", "failed"}
    [] OTHER -> {}

DescriptorMovesForward == [][shown' = shown \/ shown' \in Forward(shown)]_vars

\* Enter, or the end of the input, ends the session and its run, unless a
\* connection is held open without its request: that keeps the session from
\* every other client and from the terminal.  That the replay itself ends once it
\* is released is EndsUnlessPipeHeld of ExecutionRun, with the exception it names.
Held == pc = "reading" /\ sock[conn] = "open"

EnterEndsTheWait == []<>~Held => (typed # "none" ~> pc = "over")
=============================================================================
