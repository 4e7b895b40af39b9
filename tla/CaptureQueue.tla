---------------------------- MODULE CaptureQueue ----------------------------
(***************************************************************************)
(* The capture queue of a backend SDK: Capture of                          *)
(* sdk/reproit-backend-rs/src/capture.rs (the Go and the Python SDK have   *)
(* the same one).  The app's threads record finished operations and may    *)
(* flush; one upload thread takes the oldest operation, posts it with      *)
(* retries, and counts how it went.                                        *)
(*                                                                         *)
(* A step is what one thread does between two points where another may     *)
(* come in: an atomic counter, a hold of the mutex, a notification, a      *)
(* request.  The upload thread sleeps until it is notified; a flush waits  *)
(* with a timeout and so may look at any time.  Operations are numbered in *)
(* the order in which they enter the queue.  flush_now and the gather      *)
(* window are left out: the loop that looks at them is entered with a      *)
(* queue that is not empty, which is what it waits for.                    *)
(***************************************************************************)
EXTENDS Naturals, Sequences, FiniteSets, Functions

CONSTANTS
  Threads,    \* threads of the app
  MaxQueue,   \* operations the queue holds
  Retries,    \* attempts after the first
  MaxRecords  \* operations the app records

ASSUME CaptureAssumption ==
  /\ IsFiniteSet(Threads)
  /\ MaxQueue \in Nat \ {0} /\ Retries \in Nat /\ MaxRecords \in Nat

VARIABLES
  doing,    \* where each thread is in record or flush
  result,   \* what its last flush returned
  since,    \* history: how many operations had entered when that flush began
  queue,    \* the operations that wait
  sending,  \* the upload thread has one in hand
  worker,   \* where the upload thread is
  hand,     \* the operation it has not counted yet, 0 for none
  attempt,  \* which attempt at it is next, counted from 0
  stats,    \* the four counters
  entered,  \* history: how many operations have entered the queue
  accepted, \* history: the operations the service has
  sent,     \* history: operations counted as sent
  dropped   \* history: operations counted as dropped

callVars == <<doing, result, since>>
uploadVars == <<sending, hand, attempt>>
settledVars == <<sent, dropped>>
vars == <<callVars, queue, worker, uploadVars, stats, entered, accepted, settledVars>>

Init ==
  /\ doing = [t \in Threads |-> "idle"]
  /\ result = [t \in Threads |-> "none"]
  /\ since = [t \in Threads |-> 0]
  /\ queue = <<>>
  /\ sending = FALSE
  /\ worker = "starting"
  /\ hand = 0
  /\ attempt = 0
  /\ stats = [captured |-> 0, dropped |-> 0, sent |-> 0, failed |-> 0]
  /\ entered = 0
  /\ accepted = {}
  /\ sent = {} /\ dropped = {}

GoTo(t, where) == doing' = [doing EXCEPT ![t] = where]

-----------------------------------------------------------------------------
(* The threads of the app. *)

\* The operation is counted before the lock is taken.
Capture(t) ==
  /\ doing[t] = "idle" /\ stats.captured < MaxRecords
  /\ GoTo(t, "captured")
  /\ stats' = [stats EXCEPT !.captured = @ + 1]
  /\ UNCHANGED <<result, since, queue, worker, uploadVars, entered, accepted, settledVars>>

\* Mutant: the operation that does not fit is the one that just came.
MutantTrimmed(waiting) ==
  IF Len(waiting) > MaxQueue THEN SubSeq(waiting, 1, MaxQueue) ELSE waiting

\* A queue that is too long loses its oldest operation.
Trimmed(waiting) == IF Len(waiting) > MaxQueue THEN Tail(waiting) ELSE waiting

\* Mutant: only what could not be uploaded is counted as dropped.
MutantPush(t) ==
  /\ doing[t] = "captured"
  /\ GoTo(t, "pushed")
  /\ entered' = entered + 1
  /\ LET waiting == Append(queue, entered + 1)
     IN  /\ queue' = Trimmed(waiting)
         /\ dropped' = dropped \cup (Range(waiting) \ Range(Trimmed(waiting)))
         /\ UNCHANGED stats
  /\ UNCHANGED <<result, since, worker, uploadVars, accepted, sent>>

Push(t) ==
  /\ doing[t] = "captured"
  /\ GoTo(t, "pushed")
  /\ entered' = entered + 1
  /\ LET waiting == Append(queue, entered + 1)
     IN  /\ queue' = Trimmed(waiting)
         /\ dropped' = dropped \cup (Range(waiting) \ Range(Trimmed(waiting)))
         /\ stats' = [stats EXCEPT !.dropped = @ + Len(waiting) - Len(Trimmed(waiting))]
  /\ UNCHANGED <<result, since, worker, uploadVars, accepted, sent>>

\* Mutant: the notification is for the flushes only.
MutantWoken == worker

Woken == IF worker = "asleep" THEN "ready" ELSE worker

Notify(t) ==
  /\ doing[t] = "pushed"
  /\ GoTo(t, "idle")
  /\ worker' = Woken
  /\ UNCHANGED <<result, since, queue, uploadVars, stats, entered, accepted, settledVars>>

\* Mutant: an empty queue is enough.
MutantSettled == queue = <<>>

Settled == queue = <<>> /\ ~sending

Return(t, answer) == GoTo(t, "idle") /\ result' = [result EXCEPT ![t] = answer]

\* flush looks before it waits.
Flush(t) ==
  /\ doing[t] = "idle"
  /\ since' = [since EXCEPT ![t] = entered]
  /\ worker' = Woken
  /\ IF Settled
     THEN Return(t, "true")
     ELSE GoTo(t, "flushing") /\ result' = [result EXCEPT ![t] = "none"]
  /\ UNCHANGED <<queue, uploadVars, stats, entered, accepted, settledVars>>

\* It looks again when it wakes, and gives up when its time is over.
FlushEnds(t) ==
  /\ doing[t] = "flushing"
  /\ Return(t, IF Settled THEN "true" ELSE "false")
  /\ UNCHANGED <<since, queue, worker, uploadVars, stats, entered, accepted, settledVars>>

-----------------------------------------------------------------------------
(* The upload thread. *)

\* Without an HTTP client the thread ends, and recording goes on.
Start ==
  /\ worker = "starting"
  /\ worker' \in {"ready", "gone"}
  /\ UNCHANGED <<callVars, queue, uploadVars, stats, entered, accepted, settledVars>>

Sleep ==
  /\ worker = "ready" /\ queue = <<>>
  /\ worker' = "asleep"
  /\ UNCHANGED <<callVars, queue, uploadVars, stats, entered, accepted, settledVars>>

Take ==
  /\ worker = "ready" /\ queue # <<>>
  /\ worker' = "sending"
  /\ sending' = TRUE
  /\ hand' = Head(queue)
  /\ queue' = Tail(queue)
  /\ UNCHANGED <<callVars, attempt, stats, entered, accepted, settledVars>>

\* The service has it and says so.
Accept ==
  /\ worker = "sending"
  /\ worker' = "sent"
  /\ accepted' = accepted \cup {hand}
  /\ UNCHANGED <<callVars, queue, uploadVars, stats, entered, settledVars>>

\* The service refuses it, which no retry improves.
Reject ==
  /\ worker = "sending"
  /\ worker' = "failed"
  /\ UNCHANGED <<callVars, queue, uploadVars, stats, entered, accepted, settledVars>>

\* Mutant: an operation whose attempts are used up counts as sent.
MutantNoAnswer ==
  /\ worker = "sending"
  /\ accepted' \in {accepted, accepted \cup {hand}}
  /\ IF attempt < Retries
     THEN attempt' = attempt + 1 /\ UNCHANGED worker
     ELSE worker' = "sent" /\ UNCHANGED attempt
  /\ UNCHANGED <<callVars, queue, sending, hand, stats, entered, settledVars>>

\* No answer, or an error of the service: it may have the operation all the same.
NoAnswer ==
  /\ worker = "sending"
  /\ accepted' \in {accepted, accepted \cup {hand}}
  /\ IF attempt < Retries
     THEN attempt' = attempt + 1 /\ UNCHANGED worker
     ELSE worker' = "failed" /\ UNCHANGED attempt
  /\ UNCHANGED <<callVars, queue, sending, hand, stats, entered, settledVars>>

CountSent ==
  /\ worker = "sent"
  /\ worker' = "counted"
  /\ stats' = [stats EXCEPT !.sent = @ + 1]
  /\ sent' = sent \cup {hand}
  /\ hand' = 0 /\ attempt' = 0
  /\ UNCHANGED <<callVars, queue, sending, entered, accepted, dropped>>

\* Two counters, one after the other.
CountFailed ==
  /\ worker = "failed"
  /\ worker' = "dropping"
  /\ stats' = [stats EXCEPT !.failed = @ + 1]
  /\ UNCHANGED <<callVars, queue, uploadVars, entered, accepted, settledVars>>

CountDropped ==
  /\ worker = "dropping"
  /\ worker' = "counted"
  /\ stats' = [stats EXCEPT !.dropped = @ + 1]
  /\ dropped' = dropped \cup {hand}
  /\ hand' = 0 /\ attempt' = 0
  /\ UNCHANGED <<callVars, queue, sending, entered, accepted, sent>>

Finish ==
  /\ worker = "counted"
  /\ worker' = "ready"
  /\ sending' = FALSE
  /\ UNCHANGED <<callVars, queue, hand, attempt, stats, entered, accepted, settledVars>>

Upload ==
  \/ Sleep \/ Take \/ Accept \/ Reject \/ NoAnswer
  \/ CountSent \/ CountFailed \/ CountDropped \/ Finish

Next ==
  \/ \E t \in Threads : Capture(t) \/ Push(t) \/ Notify(t) \/ Flush(t) \/ FlushEnds(t)
  \/ Start \/ Sleep \/ Take \/ Accept \/ Reject \/ NoAnswer
  \/ CountSent \/ CountFailed \/ CountDropped \/ Finish

Spec == Init /\ [][Next]_vars

\* The upload thread runs when it can, every request has a timeout, and a thread
\* that is inside record leaves it.  Nobody has to record or to flush.
FairSpec ==
  /\ Spec /\ WF_vars(Start \/ Upload)
  /\ \A t \in Threads : WF_vars(Push(t) \/ Notify(t))

-----------------------------------------------------------------------------
(* Properties. *)

TypeOK ==
  /\ doing \in [Threads -> {"idle", "captured", "pushed", "flushing"}]
  /\ result \in [Threads -> {"none", "true", "false"}]
  /\ since \in [Threads -> Nat]
  /\ queue \in Seq(Nat) /\ Len(queue) <= MaxQueue
  /\ sending \in BOOLEAN
  /\ worker \in {"starting", "ready", "asleep", "sending", "sent", "failed", "dropping",
                 "counted", "gone"}
  /\ hand \in Nat
  /\ attempt \in 0 .. Retries
  /\ stats \in [captured : Nat, dropped : Nat, sent : Nat, failed : Nat]
  /\ entered \in Nat
  /\ accepted \subseteq Nat
  /\ sent \subseteq Nat /\ dropped \subseteq Nat

\* flush returns true only when "every queued operation has been sent (or
\* dropped)": all that had entered the queue when it was called, whatever other
\* threads record meanwhile, is with the service or counted as dropped, and the
\* counters show it.
FlushIsTrue ==
  \A t \in Threads : result[t] = "true" =>
    /\ \A op \in 1 .. since[t] : op \in (sent \cap accepted) \cup dropped
    /\ stats.sent + stats.dropped >= since[t]

\* Nothing is lost without being counted, also when the upload thread never
\* started: what was captured is on its way into the queue, in it, in hand, sent
\* or dropped.
OnTheWay == {t \in Threads : doing[t] = "captured"}

InHand == IF hand = 0 THEN 0 ELSE 1

NothingIsUncounted ==
  stats.captured =
    Cardinality(OnTheWay) + Len(queue) + InHand + stats.sent + stats.dropped

\* Operations leave in the order they came, and "overflow drops the oldest": what
\* waits is newer than what is in hand, sent or dropped.
OldestLeaveFirst ==
  \A op \in Range(queue) : \A other \in sent \cup dropped \cup {hand} : other < op

\* The operations that are not settled, the one in hand first.
Unsettled == IF hand = 0 THEN queue ELSE <<hand>> \o queue

Abstract ==
  INSTANCE Outbox WITH
    line <- Unsettled, reached <- accepted, lost <- dropped,
    told <- {t \in Threads : result[t] = "true"}

\* The threads, the retries and the two holds of the lock around an upload make
\* one line that operations leave in order, each once; a full line loses only
\* its oldest operation that is not being sent.
ImplementsOutbox == Abstract!Spec

\* Every operation is sent or dropped in the end, unless the upload thread never
\* started: no push slips in between the look at the queue and the sleep.
EveryOperationSettles ==
  \A op \in 1 .. MaxRecords :
    entered >= op ~> (op \in sent \cup dropped \/ worker = "gone")
=============================================================================
