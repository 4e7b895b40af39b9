----------------------------- MODULE DebugProofs -----------------------------
(***************************************************************************)
(* Proofs about DebugSession, for every set of clients: what a client is   *)
(* told is what happens, debug-session.json claims nothing that is not so, *)
(* and it only moves forward.                                              *)
(***************************************************************************)
EXTENDS DebugSession, TLAPS

\* What the command being answered decides is authorised and is recorded.
AnswerStands ==
  pc = "answering" =>
    /\ sock[conn] \in {"sent", "left"}
    /\ conn \notin Stale /\ wants[conn] = "debugger-attached" => shown # "waiting-for-debugger"
    /\ reached = "release" <=> conn \notin Stale /\ wants[conn] = "replay-trigger"
    /\ reached = "stop" <=> conn \notin Stale /\ wants[conn] = "stop"
    /\ shown = "triggering" <=> reached = "release"
    /\ shown = "cleaning" <=> reached = "stop"
    /\ shown \notin {"completed", "failed"}

\* Until a decision is reached the descriptor shows none, and the decision is
\* where the run is.
StageAgrees ==
  /\ Bound => decision = "none"
  /\ pc \in {"opening", "waiting", "reading"} =>
       shown \in {"waiting-for-debugger", "paused-before-trigger"}
  /\ pc = "replaying" => decision = "release"
  /\ pc \in {"cleaning", "closing"} => decision # "none"
  /\ pc = "closing" => cleaned # "none"
  /\ decision = "release" => shown \in {"paused-before-trigger", "triggering", "completed", "failed"}
  /\ shown \in {"completed", "failed"} => pc = "over"

\* Only a client that is still there is told that it was accepted.
HeardBySender == \A c \in Clients : answer[c] = "accepted" => sock[c] = "sent"

IInv ==
  TypeOK /\ AnswerStands /\ StageAgrees /\ HeardBySender /\ AnswersAreTrue /\ DescriptorIsTrue

\* Dropping the connections tells nobody that it was accepted.
LEMMA DropTells ==
  ASSUME TypeOK,
         NEW told \in [Clients -> {"none", "accepted", "rejected", "error"}],
         Drop(told)
  PROVE  /\ answer' \in [Clients -> {"none", "accepted", "rejected", "error"}]
         /\ \A c \in Clients : answer'[c] = "accepted" <=> told[c] = "accepted"
         /\ backlog' \in Seq(Clients) /\ conn' = NoClient
BY DEF Drop, TypeOK

\* A session that fails keeps the invariant when its descriptor shows no
\* decision yet.
LEMMA FailKeeps ==
  ASSUME IInv, Fail, UNCHANGED <<cleaned, typed, clientVars>>,
         reached' \in {"none", "release", "stop"},
         pc \in {"opening", "waiting", "reading"}
  PROVE  IInv'
<1>1. answer \in [Clients -> {"none", "accepted", "rejected", "error"}]
  BY DEF IInv, TypeOK
<1>2. /\ answer' \in [Clients -> {"none", "accepted", "rejected", "error"}]
      /\ \A c \in Clients : answer'[c] = "accepted" <=> answer[c] = "accepted"
      /\ backlog' \in Seq(Clients) /\ conn' = NoClient
  BY <1>1, DropTells DEF IInv, Fail, Decide
<1>3. pc' = "cleaning" /\ decision' = "error" /\ shown' = shown /\ decision = "none"
  BY DEF IInv, Fail, Decide, StageAgrees, Bound
<1>4. TypeOK'
  BY <1>2, <1>3 DEF IInv, TypeOK, clientVars
<1>5. AnswerStands' /\ StageAgrees' /\ HeardBySender'
  BY <1>2, <1>3 DEF IInv, AnswerStands, StageAgrees, Bound, HeardBySender, clientVars
<1>6. AnswersAreTrue'
  BY <1>2, <1>3 DEF IInv, AnswersAreTrue, clientVars
<1>7. DescriptorIsTrue'
  BY <1>2, <1>3 DEF IInv, DescriptorIsTrue, StageAgrees, clientVars
<1>8. QED
  BY <1>4, <1>5, <1>6, <1>7 DEF IInv

\* The decision of a request that was read is the decision of the session.
LEMMA DecideKeeps ==
  ASSUME IInv, pc = "answering", UNCHANGED <<shown, reached, cleaned, typed, clientVars>>,
         NEW what \in {"release", "stop", "error"},
         NEW told \in [Clients -> {"none", "accepted", "rejected", "error"}],
         Decide(what, told),
         \/ /\ what = reached
            /\ told = Told
         \/ /\ what = "error" /\ sock[conn] = "left"
            /\ told = answer
  PROVE  IInv'
<1> USE DEF IInv
<1>1. /\ answer' \in [Clients -> {"none", "accepted", "rejected", "error"}]
      /\ \A c \in Clients : answer'[c] = "accepted" <=> told[c] = "accepted"
      /\ backlog' \in Seq(Clients) /\ conn' = NoClient
  BY DropTells DEF Decide
<1>2. /\ pc' = IF what = "release" THEN "replaying" ELSE "cleaning"
      /\ decision' = what /\ decision = "none"
  BY DEF Decide, StageAgrees, Bound
<1>3. conn \in Clients
  BY DEF TypeOK
<1>4. \A c \in Clients : told[c] = "accepted" =>
        /\ sock[c] = "sent"
        /\ \/ c = conn /\ conn \notin Stale /\ what = reached
           \/ answer[c] = "accepted"
  BY <1>3 DEF Told, TypeOK, HeardBySender
<1>5. TypeOK'
  BY <1>1, <1>2 DEF TypeOK, clientVars
<1>6. AnswerStands' /\ StageAgrees'
  BY <1>2 DEF AnswerStands, StageAgrees, Bound
<1>7. HeardBySender'
  BY <1>1, <1>4 DEF HeardBySender, clientVars
<1>8. AnswersAreTrue'
  BY <1>1, <1>2, <1>3, <1>4 DEF AnswersAreTrue, AnswerStands, clientVars
<1>9. DescriptorIsTrue'
  <2>1. ASSUME NEW c \in Clients, answer'[c] = "accepted"
        PROVE  /\ wants[c] = "debugger-attached" => shown # "waiting-for-debugger"
               /\ wants[c] = "replay-trigger" => shown \in {"triggering", "completed", "failed"}
               /\ wants[c] = "stop" => shown = "cleaning"
    BY <1>1, <1>4, <2>1 DEF DescriptorIsTrue, AnswerStands
  <2>2. shown \notin {"completed", "failed"}
    BY DEF AnswerStands
  <2>3. shown \in {"triggering", "cleaning"} =>
          \/ decision' = IF shown = "triggering" THEN "release" ELSE "stop"
          \/ decision' = "error" /\ \E c \in Clients \ Stale :
               sock[c] = "left"
                 /\ wants[c] = IF shown = "triggering" THEN "replay-trigger" ELSE "stop"
    BY <1>2, <1>3 DEF AnswerStands
  <2>4. QED
    BY <2>1, <2>2, <2>3 DEF DescriptorIsTrue, clientVars
<1>10. QED
  BY <1>5, <1>6, <1>7, <1>8, <1>9

\* A session starts with the invariant.
LEMMA InvInit == Init => IInv
BY ClientsAssumption
DEF Init, IInv, TypeOK, AnswerStands, StageAgrees, Bound, HeardBySender, AnswersAreTrue,
    DescriptorIsTrue

\* The clients and the person.
LEMMA ClientsKeep ==
  ASSUME IInv, \/ Type
               \/ \E c \in Clients : Connect(c) \/ Send(c) \/ GiveUp(c)
  PROVE  IInv'
<1> USE DEF IInv
<1>1. CASE Type
  BY <1>1 DEF Type, TypeOK, AnswerStands, StageAgrees, Bound, HeardBySender, AnswersAreTrue,
              DescriptorIsTrue, clientVars
<1>2. ASSUME NEW c \in Clients, Connect(c) \/ Send(c) \/ GiveUp(c)
      PROVE  IInv'
  <2>1. /\ UNCHANGED <<pc, shown, decision, reached, cleaned, typed, wants, conn>>
        /\ answer' \in [Clients -> {"none", "accepted", "rejected", "error"}]
        /\ backlog' \in Seq(Clients)
        /\ sock' \in [Clients -> {"idle", "open", "sent", "left", "gone"}]
        /\ \A d \in Clients : sock[d] \in {"sent", "left"} => sock'[d] \in {"sent", "left"}
        /\ \A d \in Clients : sock[d] = "left" => sock'[d] = "left"
        /\ \A d \in Clients : answer'[d] = "accepted" => answer[d] = "accepted" /\ sock'[d] = "sent"
    <3>1. /\ answer \in [Clients -> {"none", "accepted", "rejected", "error"}]
          /\ sock \in [Clients -> {"idle", "open", "sent", "left", "gone"}]
          /\ backlog \in Seq(Clients)
          /\ \A d \in Clients : answer[d] = "accepted" => sock[d] = "sent"
      BY DEF TypeOK, HeardBySender
    <3>2. CASE Connect(c)
      <4>1. /\ sock[c] = "idle"
            /\ UNCHANGED <<pc, shown, decision, reached, cleaned, typed, wants, conn>>
            /\ \/ /\ sock' = [sock EXCEPT ![c] = "open"]
                  /\ backlog' = Append(backlog, c) /\ answer' = answer
               \/ /\ sock' = [sock EXCEPT ![c] = "gone"]
                  /\ answer' = [answer EXCEPT ![c] = "error"] /\ backlog' = backlog
        BY <3>2 DEF Connect
      <4>2. backlog' \in Seq(Clients)
        BY <3>1, <4>1
      <4>3. QED
        BY <3>1, <4>1, <4>2
    <3>3. CASE Send(c)
      BY <3>1, <3>3 DEF Send
    <3>4. CASE GiveUp(c)
      BY <3>1, <3>4 DEF GiveUp
    <3>5. QED
      BY <1>2, <3>2, <3>3, <3>4
  <2>2. TypeOK'
    BY <2>1 DEF TypeOK
  <2>3. AnswerStands' /\ StageAgrees' /\ HeardBySender'
    BY <2>1 DEF AnswerStands, StageAgrees, Bound, HeardBySender, TypeOK
  <2>4. AnswersAreTrue'
    BY <2>1 DEF AnswersAreTrue
  <2>5. DescriptorIsTrue'
    BY <2>1 DEF DescriptorIsTrue
  <2>6. QED
    BY <2>2, <2>3, <2>4, <2>5
<1>3. QED
  BY <1>1, <1>2

\* The session until it is decided.
LEMMA SessionKeeps ==
  ASSUME IInv, OpenIde \/ TerminalRead \/ Accept \/ ReadNothing \/ ReadRequest \/ Respond
  PROVE  IInv'
<1> USE DEF IInv
<1>1. CASE OpenIde
  <2>1. CASE Fail
    BY <1>1, <2>1, FailKeeps DEF OpenIde, TypeOK
  <2>2. CASE pc' = "waiting" /\ UNCHANGED <<shown, decision, answer, backlog, conn>>
    BY <1>1, <2>2 DEF OpenIde, TypeOK, AnswerStands, StageAgrees, Bound, HeardBySender,
                      AnswersAreTrue, DescriptorIsTrue, clientVars
  <2>3. QED
    BY <1>1, <2>1, <2>2 DEF OpenIde
<1>2. CASE TerminalRead
  <2>1. CASE Fail
    BY <1>2, <2>1, FailKeeps DEF TerminalRead, TypeOK
  <2>2. CASE typed = "line" /\ shown' = "paused-before-trigger" /\ Decide("release", answer)
    <3>1. /\ answer' \in [Clients -> {"none", "accepted", "rejected", "error"}]
          /\ \A c \in Clients : answer'[c] = "accepted" <=> answer[c] = "accepted"
          /\ backlog' \in Seq(Clients) /\ conn' = NoClient
      <4>1. answer \in [Clients -> {"none", "accepted", "rejected", "error"}]
        BY DEF TypeOK
      <4>2. QED
        BY <2>2, <4>1, DropTells DEF Decide
    <3>2. pc' = "replaying" /\ decision' = "release" /\ decision = "none" /\ pc = "waiting"
      BY <1>2, <2>2 DEF TerminalRead, Decide, StageAgrees, Bound
    <3>3. TypeOK'
      BY <1>2, <2>2, <3>1, <3>2 DEF TerminalRead, TypeOK, clientVars
    <3>4. AnswerStands' /\ StageAgrees' /\ HeardBySender'
      BY <1>2, <2>2, <3>1, <3>2
      DEF TerminalRead, AnswerStands, StageAgrees, Bound, HeardBySender, clientVars
    <3>5. AnswersAreTrue' /\ DescriptorIsTrue'
      BY <1>2, <2>2, <3>1, <3>2
      DEF TerminalRead, AnswersAreTrue, DescriptorIsTrue, StageAgrees, clientVars
    <3>6. QED
      BY <3>3, <3>4, <3>5
  <2>3. QED
    BY <1>2, <2>1, <2>2 DEF TerminalRead
<1>3. CASE Accept
  <2>1. Head(backlog) \in Clients /\ Tail(backlog) \in Seq(Clients)
    BY <1>3 DEF Accept, TypeOK
  <2>2. TypeOK'
    BY <1>3, <2>1, ClientsAssumption DEF Accept, TypeOK, clientVars
  <2>3. QED
    BY <1>3, <2>2 DEF Accept, AnswerStands, StageAgrees, Bound, HeardBySender,
                      AnswersAreTrue, DescriptorIsTrue, clientVars
<1>4. CASE ReadNothing
  BY <1>4, FailKeeps DEF ReadNothing, TypeOK
<1>5. CASE ReadRequest
  <2>1. CASE Fail /\ UNCHANGED reached
    BY <1>5, <2>1, FailKeeps DEF ReadRequest, TypeOK
  <2>2. CASE /\ pc' = "answering" /\ shown' = Recorded /\ reached' = Reached
             /\ UNCHANGED <<decision, answer, backlog, conn>>
    <3>1. /\ pc = "reading" /\ conn \in Clients /\ sock[conn] \in {"sent", "left"}
          /\ decision = "none" /\ shown \in {"waiting-for-debugger", "paused-before-trigger"}
          /\ UNCHANGED <<cleaned, typed, wants, sock>>
      BY <1>5 DEF ReadRequest, TypeOK, StageAgrees, Bound, clientVars
    <3>2. TypeOK'
      BY <2>2, <3>1 DEF TypeOK, Recorded, Reached, Asks
    <3>3. AnswerStands'
      BY <2>2, <3>1 DEF AnswerStands, Recorded, Reached, Asks
    <3>4. StageAgrees' /\ HeardBySender' /\ AnswersAreTrue'
      BY <2>2, <3>1 DEF StageAgrees, Bound, HeardBySender, AnswersAreTrue, Recorded, Asks
    <3>5. DescriptorIsTrue'
      BY <2>2, <3>1 DEF DescriptorIsTrue, AnswersAreTrue, Recorded, Asks
    <3>6. QED
      BY <3>2, <3>3, <3>4, <3>5
  <2>3. QED
    BY <1>5, <2>1, <2>2 DEF ReadRequest
<1>6. CASE Respond
  <2>1. /\ conn \in Clients /\ pc = "answering" /\ decision = "none"
        /\ answer \in [Clients -> {"none", "accepted", "rejected", "error"}]
        /\ Told \in [Clients -> {"none", "accepted", "rejected", "error"}]
        /\ UNCHANGED <<shown, reached, cleaned, typed, clientVars>>
    BY <1>6 DEF Respond, TypeOK, Told, StageAgrees, Bound
  <2>2. CASE sock[conn] = "left" /\ Decide("error", answer)
    BY <2>1, <2>2, DecideKeeps
  <2>3. CASE reached # "none" /\ Decide(reached, Told)
    BY <2>1, <2>3, DecideKeeps DEF TypeOK
  <2>4. CASE /\ reached = "none" /\ pc' = "waiting" /\ conn' = NoClient /\ answer' = Told
             /\ UNCHANGED <<decision, backlog>>
    <3>1. \A c \in Clients : answer'[c] = "accepted" =>
            /\ sock[c] = "sent"
            /\ \/ c = conn /\ conn \notin Stale
               \/ answer[c] = "accepted"
      BY <2>1, <2>4 DEF Told, HeardBySender
    <3>2. shown \in {"waiting-for-debugger", "paused-before-trigger"}
      BY <2>1, <2>4 DEF AnswerStands, TypeOK
    <3>3. TypeOK'
      BY <2>1, <2>4 DEF TypeOK, clientVars
    <3>4. AnswerStands' /\ StageAgrees' /\ HeardBySender'
      BY <2>1, <2>4, <3>1, <3>2 DEF AnswerStands, StageAgrees, Bound, HeardBySender, clientVars
    <3>5. AnswersAreTrue' /\ DescriptorIsTrue'
      BY <2>1, <2>4, <3>1, <3>2 DEF AnswersAreTrue, DescriptorIsTrue, AnswerStands, clientVars
    <3>6. QED
      BY <3>3, <3>4, <3>5
  <2>5. QED
    BY <1>6, <2>2, <2>3, <2>4 DEF Respond, Answered
<1>7. QED
  BY <1>1, <1>2, <1>3, <1>4, <1>5, <1>6

\* The run after the session, and an interruption.
LEMMA RunKeeps ==
  ASSUME IInv, Replay \/ CleanUp \/ Finish \/ Die
  PROVE  IInv'
<1> USE DEF IInv
<1>1. CASE Replay \/ CleanUp
  BY <1>1 DEF Replay, CleanUp, TypeOK, AnswerStands, StageAgrees, Bound, HeardBySender,
              AnswersAreTrue, DescriptorIsTrue, clientVars
<1>2. CASE Finish
  BY <1>2 DEF Finish, TypeOK, AnswerStands, StageAgrees, Bound, HeardBySender,
              AnswersAreTrue, DescriptorIsTrue, clientVars
<1>3. CASE Die
  <2>1. answer \in [Clients -> {"none", "accepted", "rejected", "error"}]
    BY DEF TypeOK
  <2>2. /\ answer' \in [Clients -> {"none", "accepted", "rejected", "error"}]
        /\ \A c \in Clients : answer'[c] = "accepted" <=> answer[c] = "accepted"
        /\ backlog' \in Seq(Clients) /\ conn' = NoClient
    BY <1>3, <2>1, DropTells DEF Die
  <2>3. TypeOK'
    BY <1>3, <2>2 DEF Die, TypeOK, clientVars
  <2>4. AnswerStands' /\ StageAgrees' /\ HeardBySender' /\ AnswersAreTrue'
    BY <1>3, <2>2 DEF Die, AnswerStands, StageAgrees, Bound, HeardBySender, AnswersAreTrue,
                      clientVars
  <2>5. DescriptorIsTrue'
    BY <1>3, <2>2 DEF Die, DescriptorIsTrue, StageAgrees, Bound, clientVars
  <2>6. QED
    BY <2>3, <2>4, <2>5
<1>4. QED
  BY <1>1, <1>2, <1>3

\* Every step of the session, of a client and of the person keeps it.
LEMMA InvStep == IInv /\ [Next]_vars => IInv'
<1>1. CASE UNCHANGED vars
  BY <1>1 DEF vars, clientVars, IInv, TypeOK, AnswerStands, StageAgrees, Bound, HeardBySender,
              AnswersAreTrue, DescriptorIsTrue
<1>2. QED
  BY <1>1, ClientsKeep, SessionKeeps, RunKeeps DEF Next

\* The inductive invariant holds for every set of clients.
THEOREM Invariant == Spec => []IInv
BY InvInit, InvStep, PTL DEF Spec

\* What a client is told is what happens, and what happens was asked for.
THEOREM AnswersStayTrue == Spec => []AnswersAreTrue
<1>1. IInv => AnswersAreTrue
  BY DEF IInv
<1>2. QED
  BY <1>1, Invariant, PTL

\* debug-session.json has what a client was told is recorded, and claims nothing
\* that is not so.
THEOREM DescriptorStaysTrue == Spec => []DescriptorIsTrue
<1>1. IInv => DescriptorIsTrue
  BY DEF IInv
<1>2. QED
  BY <1>1, Invariant, PTL

\* The descriptor never goes back, nor from one decision to the other.
THEOREM DescriptorNeverGoesBack == Spec => DescriptorMovesForward
<1>1. ASSUME IInv, [Next]_vars
      PROVE  [shown' = shown \/ shown' \in Forward(shown)]_vars
  <2>1. CASE TerminalRead \/ ReadRequest
    BY <1>1, <2>1
    DEF TerminalRead, ReadRequest, Fail, Recorded, Asks, Forward, IInv, StageAgrees
  <2>2. CASE Finish
    <3>1. shown \in {"waiting-for-debugger", "paused-before-trigger", "triggering", "cleaning",
                     "completed", "failed"}
      BY <1>1 DEF IInv, TypeOK
    <3>2. shown' # shown => /\ shown' \in {"completed", "failed"}
                           /\ shown \in {"paused-before-trigger", "triggering"}
      BY <1>1, <2>2, <3>1 DEF Finish, IInv, StageAgrees
    <3>3. QED
      BY <3>2 DEF Forward
  <2>3. CASE \/ OpenIde \/ Accept \/ ReadNothing \/ Respond \/ Replay \/ CleanUp \/ Type \/ Die
             \/ \E c \in Clients : Connect(c) \/ Send(c) \/ GiveUp(c)
    BY <2>3 DEF OpenIde, Accept, ReadNothing, Respond, Replay, CleanUp, Type, Die, Connect,
                Send, GiveUp, Fail
  <2>4. QED
    BY <1>1, <2>1, <2>2, <2>3 DEF Next, vars
<1>2. QED
  BY <1>1, Invariant, PTL DEF Spec, DescriptorMovesForward
=============================================================================
