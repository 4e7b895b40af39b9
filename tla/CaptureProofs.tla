---------------------------- MODULE CaptureProofs ----------------------------
(***************************************************************************)
(* Proofs about CaptureQueue, for any number of threads, queue depth,      *)
(* number of retries and number of operations: a flush that returns true   *)
(* has settled what it was called for, nothing is lost uncounted, and      *)
(* operations leave in the order they came.                                *)
(***************************************************************************)
EXTENDS CaptureQueue, FiniteSetTheorems, TLAPS

(* Sequences of consecutive numbers. *)

IsRun(numbers, from) == \A i \in 1 .. Len(numbers) : numbers[i] = from + i

\* A run that starts after a number holds just the numbers that follow it.
LEMMA RunRange ==
  ASSUME NEW numbers \in Seq(Nat), NEW from \in Nat, IsRun(numbers, from)
  PROVE  Range(numbers) = (from + 1) .. (from + Len(numbers))
<1>1. Len(numbers) \in Nat /\ DOMAIN numbers = 1 .. Len(numbers)
  OBVIOUS
<1>2. ASSUME NEW n \in (from + 1) .. (from + Len(numbers))
      PROVE  n \in Range(numbers)
  <2>1. n - from \in 1 .. Len(numbers) /\ numbers[n - from] = n
    BY <1>1 DEF IsRun
  <2>2. QED
    BY <1>1, <2>1 DEF Range
<1>3. ASSUME NEW i \in 1 .. Len(numbers)
      PROVE  numbers[i] \in (from + 1) .. (from + Len(numbers))
  <2>1. numbers[i] = from + i
    BY DEF IsRun
  <2>2. QED
    BY <1>1, <2>1
<1>4. QED
  BY <1>1, <1>2, <1>3 DEF Range

\* A run is made longer by the number that comes next.
LEMMA RunAppend ==
  ASSUME NEW numbers \in Seq(Nat), NEW from \in Nat, IsRun(numbers, from),
         NEW next, next = from + Len(numbers) + 1
  PROVE  /\ Append(numbers, next) \in Seq(Nat)
         /\ Len(Append(numbers, next)) = Len(numbers) + 1
         /\ IsRun(Append(numbers, next), from)
<1>1. Len(numbers) \in Nat /\ next \in Nat
  OBVIOUS
<1>2. Append(numbers, next) \in Seq(Nat) /\ Len(Append(numbers, next)) = Len(numbers) + 1
  BY <1>1
<1>3. ASSUME NEW i \in 1 .. (Len(numbers) + 1)
      PROVE  Append(numbers, next)[i] = from + i
  <2>1. CASE i = Len(numbers) + 1
    BY <1>1, <2>1
  <2>2. CASE i # Len(numbers) + 1
    <3>1. i \in 1 .. Len(numbers)
      BY <1>1, <2>2
    <3>2. Append(numbers, next)[i] = numbers[i]
      BY <3>1
    <3>3. QED
      BY <3>1, <3>2 DEF IsRun
  <2>3. QED
    BY <2>1, <2>2
<1>4. QED
  BY <1>2, <1>3 DEF IsRun

\* A run without its head is a run that starts one later.
LEMMA RunTail ==
  ASSUME NEW numbers \in Seq(Nat), NEW from \in Nat, IsRun(numbers, from), numbers # <<>>
  PROVE  /\ Head(numbers) = from + 1
         /\ Tail(numbers) \in Seq(Nat) /\ Len(Tail(numbers)) = Len(numbers) - 1
         /\ IsRun(Tail(numbers), from + 1)
<1>1. Len(numbers) \in Nat \ {0}
  OBVIOUS
<1>2. Head(numbers) = from + 1
  BY <1>1 DEF IsRun
<1>3. Tail(numbers) \in Seq(Nat) /\ Len(Tail(numbers)) = Len(numbers) - 1
  BY <1>1
<1>4. ASSUME NEW i \in 1 .. (Len(numbers) - 1)
      PROVE  Tail(numbers)[i] = from + 1 + i
  <2>1. i + 1 \in 1 .. Len(numbers) /\ i \in Nat
    BY <1>1
  <2>2. Tail(numbers)[i] = numbers[i + 1]
    BY <1>1
  <2>3. numbers[i + 1] = from + (i + 1)
    BY <2>1 DEF IsRun
  <2>4. QED
    BY <2>1, <2>2, <2>3
<1>5. QED
  BY <1>2, <1>3, <1>4 DEF IsRun

\* Only its head is in a run and not in the rest of it.
LEMMA RunLosesHead ==
  ASSUME NEW numbers \in Seq(Nat), NEW from \in Nat, IsRun(numbers, from), numbers # <<>>
  PROVE  Range(numbers) \ Range(Tail(numbers)) = {Head(numbers)}
<1>1. Len(numbers) \in Nat \ {0}
  OBVIOUS
<1>2. Range(numbers) = (from + 1) .. (from + Len(numbers))
  BY RunRange
<1>3. /\ Head(numbers) = from + 1 /\ Len(Tail(numbers)) = Len(numbers) - 1
      /\ Tail(numbers) \in Seq(Nat) /\ IsRun(Tail(numbers), from + 1)
  BY RunTail
<1>4. from + 1 \in Nat
  OBVIOUS
<1>5. Range(Tail(numbers)) = ((from + 1) + 1) .. ((from + 1) + Len(Tail(numbers)))
  BY <1>3, <1>4, RunRange
<1>6. (from + 1) + Len(Tail(numbers)) = from + Len(numbers)
  BY <1>1, <1>3
<1> QED BY <1>1, <1>2, <1>3, <1>5, <1>6

-----------------------------------------------------------------------------
(* The inductive invariant. *)

\* How many operations have left the queue.
Out == entered - Len(queue)

\* The queue holds the last operations that entered, in order.
QueueIsARun ==
  /\ Out \in Nat
  /\ IsRun(queue, Out)

Holding == worker \in {"sending", "sent", "failed", "dropping"}

\* What the flags say of the upload thread, and whom it holds.
HandAgrees ==
  /\ hand # 0 <=> Holding
  /\ hand <= Out
  /\ sending <=> Holding \/ worker = "counted"
  /\ worker = "sent" => hand \in accepted

\* What has left the queue, except what is in hand, is settled, and nothing else.
LeftAreSettled ==
  /\ sent \cup dropped = (1 .. Out) \ {hand}
  /\ sent \subseteq accepted

\* The counters add up.
CountersAdd ==
  /\ stats.sent + stats.dropped + InHand = Out
  /\ stats.captured = entered + Cardinality(OnTheWay)

SinceIsPast == \A t \in Threads : since[t] <= entered

IInv ==
  /\ TypeOK /\ QueueIsARun /\ HandAgrees /\ LeftAreSettled /\ CountersAdd /\ SinceIsPast
  /\ FlushIsTrue

-----------------------------------------------------------------------------
(* The thread that is between counting and entering. *)

\* Threads inside record can be counted.
LEMMA OnTheWayType ==
  IsFiniteSet(OnTheWay) /\ Cardinality(OnTheWay) \in Nat
<1>1. OnTheWay \in SUBSET Threads /\ IsFiniteSet(Threads)
  BY CaptureAssumption DEF OnTheWay, CaptureAssumption
<1>2. QED
  BY <1>1, FS_Subset, FS_CardinalityType

\* A thread that enters record is one more on the way.
LEMMA OneMore ==
  ASSUME NEW t \in Threads, TypeOK, doing[t] # "captured",
         doing' = [doing EXCEPT ![t] = "captured"]
  PROVE  Cardinality(OnTheWay)' = Cardinality(OnTheWay) + 1
<1>1. OnTheWay' = OnTheWay \cup {t} /\ t \notin OnTheWay
  BY DEF OnTheWay, TypeOK
<1>2. IsFiniteSet(OnTheWay)
  BY OnTheWayType
<1>3. QED
  BY <1>1, <1>2, FS_AddElement

\* A thread that leaves it is one less.
LEMMA OneLess ==
  ASSUME NEW t \in Threads, TypeOK, doing[t] = "captured",
         NEW where, where # "captured", doing' = [doing EXCEPT ![t] = where]
  PROVE  Cardinality(OnTheWay)' = Cardinality(OnTheWay) - 1
<1>1. OnTheWay' = OnTheWay \ {t} /\ t \in OnTheWay
  BY DEF OnTheWay, TypeOK
<1>2. IsFiniteSet(OnTheWay)
  BY OnTheWayType
<1>3. QED
  BY <1>1, <1>2, FS_RemoveElement

\* The other moves of a thread change nobody on the way.
LEMMA NoneMore ==
  ASSUME NEW t \in Threads, TypeOK, doing[t] # "captured",
         NEW where, where # "captured", doing' = [doing EXCEPT ![t] = where]
  PROVE  OnTheWay' = OnTheWay
BY DEF OnTheWay, TypeOK

-----------------------------------------------------------------------------
(* One lemma per step. *)

\* The invariant holds of an empty queue and a thread that starts.
LEMMA InvInit == Init => IInv
<1> SUFFICES ASSUME Init PROVE IInv
  OBVIOUS
<1>1. queue \in Seq(Nat) /\ Len(queue) = 0 /\ DOMAIN queue = {}
  <2>1. <<>> \in Seq(Nat) /\ Len(<<>>) = 0 /\ DOMAIN <<>> = {}
    OBVIOUS
  <2>2. QED
    BY <2>1 DEF Init
<1>2. TypeOK
  <2>1. attempt \in 0 .. Retries /\ Len(queue) <= MaxQueue
    BY <1>1, CaptureAssumption DEF Init, CaptureAssumption
  <2>2. stats \in [captured : Nat, dropped : Nat, sent : Nat, failed : Nat]
    BY DEF Init
  <2>3. QED
    BY <1>1, <2>1, <2>2 DEF Init, TypeOK
<1>7. Out = 0
  <2>1. entered = 0
    BY DEF Init
  <2>2. QED
    BY <1>1, <2>1 DEF Out
<1>3. OnTheWay = {}
  BY DEF Init, OnTheWay
<1>4. QueueIsARun /\ HandAgrees /\ LeftAreSettled /\ SinceIsPast /\ FlushIsTrue
  BY <1>1, <1>7
  DEF Init, QueueIsARun, HandAgrees, Holding, LeftAreSettled, SinceIsPast, FlushIsTrue,
      IsRun
<1>5. CountersAdd
  BY <1>7, <1>3, FS_EmptySet DEF Init, CountersAdd, InHand
<1>6. QED
  BY <1>2, <1>4, <1>5 DEF IInv

\* Counting an operation before the lock keeps it.
LEMMA CaptureKeeps ==
  ASSUME IInv, NEW t \in Threads, Capture(t)
  PROVE  IInv'
<1> USE DEF IInv
<1>1. doing' = [doing EXCEPT ![t] = "captured"] /\ doing[t] = "idle"
  BY DEF Capture, GoTo
<1>2. stats' = [stats EXCEPT !.captured = @ + 1]
  BY DEF Capture
<1>3. UNCHANGED <<result, since, queue, worker, sending, hand, attempt, entered, accepted,
                  sent, dropped>>
  BY DEF Capture, uploadVars, settledVars
<1>4. TypeOK'
  <2>1. stats' \in [captured : Nat, dropped : Nat, sent : Nat, failed : Nat]
    <3>1. stats \in [captured : Nat, dropped : Nat, sent : Nat, failed : Nat]
      BY DEF TypeOK
    <3>2. QED
      BY <1>2, <3>1
  <2>2. doing' \in [Threads -> {"idle", "captured", "pushed", "flushing"}]
    BY <1>1 DEF TypeOK
  <2>3. QED
    BY <1>3, <2>1, <2>2 DEF TypeOK
<1>5. Cardinality(OnTheWay)' = Cardinality(OnTheWay) + 1
  BY <1>1, OneMore
<1>6. Cardinality(OnTheWay) \in Nat
  BY OnTheWayType
<1>7. stats'.captured = stats.captured + 1 /\ stats'.sent = stats.sent
        /\ stats'.dropped = stats.dropped
  BY <1>2 DEF TypeOK
<1>8. CountersAdd'
  BY <1>3, <1>5, <1>6, <1>7 DEF CountersAdd, InHand, Out, TypeOK
<1>9. (QueueIsARun /\ HandAgrees /\ LeftAreSettled /\ SinceIsPast)'
  BY <1>3 DEF QueueIsARun, HandAgrees, LeftAreSettled, SinceIsPast, Out, Holding
<1>10. FlushIsTrue'
  BY <1>3, <1>7 DEF FlushIsTrue
<1>11. QED
  BY <1>4, <1>8, <1>9, <1>10

\* A flush that has returned stays true: what was settled stays so, and the
\* counters do not go down.
LEMMA FlushStands ==
  ASSUME TypeOK, TypeOK', FlushIsTrue, UNCHANGED <<result, since>>,
         sent \subseteq sent', accepted \subseteq accepted', dropped \subseteq dropped',
         stats.sent + stats.dropped <= stats'.sent + stats'.dropped
  PROVE  FlushIsTrue'
<1> SUFFICES ASSUME NEW t \in Threads, result[t] = "true"
             PROVE  /\ \A op \in 1 .. since[t] : op \in (sent' \cap accepted') \cup dropped'
                    /\ stats'.sent + stats'.dropped >= since[t]
  BY DEF FlushIsTrue
<1>1. /\ \A op \in 1 .. since[t] : op \in (sent \cap accepted) \cup dropped
      /\ stats.sent + stats.dropped >= since[t]
  BY DEF FlushIsTrue
<1>2. /\ stats.sent + stats.dropped \in Nat /\ stats'.sent + stats'.dropped \in Nat
      /\ since[t] \in Nat
  BY DEF TypeOK
<1>3. QED
  BY <1>1, <1>2

\* When nothing waits and nothing is in hand, all that entered is settled.
LEMMA SettledIsAll ==
  ASSUME IInv, Settled
  PROVE  /\ \A op \in 1 .. entered : op \in (sent \cap accepted) \cup dropped
         /\ stats.sent + stats.dropped = entered
<1> USE DEF IInv
<1>1. Len(queue) = 0 /\ ~sending
  BY DEF Settled
<1>2. entered \in Nat /\ hand \in Nat /\ stats.sent + stats.dropped \in Nat
  BY DEF TypeOK
<1>3. Out = entered
  BY <1>1, <1>2 DEF Out
<1>4. hand = 0
  BY <1>1 DEF HandAgrees
<1>5. sent \cup dropped = 1 .. entered /\ sent \subseteq accepted
  BY <1>2, <1>3, <1>4 DEF LeftAreSettled
<1>6. QED
  BY <1>2, <1>3, <1>4, <1>5 DEF CountersAdd, InHand

\* A push keeps it, whether the queue overflows or not.
LEMMA PushKeeps ==
  ASSUME IInv, NEW t \in Threads, Push(t)
  PROVE  IInv'
<1> USE DEF IInv
<1> DEFINE waiting == Append(queue, entered + 1)
           kept == Trimmed(waiting)
<1>1. /\ doing[t] = "captured" /\ doing' = [doing EXCEPT ![t] = "pushed"]
      /\ entered' = entered + 1 /\ queue' = kept
      /\ dropped' = dropped \cup (Range(waiting) \ Range(kept))
      /\ stats' = [stats EXCEPT !.dropped = @ + Len(waiting) - Len(kept)]
      /\ UNCHANGED <<result, since, worker, sending, hand, attempt, accepted, sent>>
  BY DEF Push, GoTo, uploadVars
<1>2. /\ entered \in Nat /\ queue \in Seq(Nat) /\ Len(queue) \in Nat /\ Out \in Nat
      /\ hand \in Nat /\ hand <= Out
  BY DEF TypeOK, QueueIsARun, HandAgrees
<1>3. entered + 1 = Out + Len(queue) + 1
  BY <1>2 DEF Out
<1>4. waiting \in Seq(Nat) /\ Len(waiting) = Len(queue) + 1 /\ IsRun(waiting, Out)
  BY <1>2, <1>3, RunAppend DEF QueueIsARun
<1>5. /\ kept \in Seq(Nat) /\ Len(kept) <= MaxQueue /\ Len(kept) <= Len(waiting)
      /\ Out' \in Nat /\ IsRun(kept, Out')
      /\ Out' = Out + Len(waiting) - Len(kept)
      /\ dropped' = dropped \cup ((Out + 1) .. Out')
      /\ Len(waiting) - Len(kept) \in Nat
  <2> HIDE DEF waiting
  <2>1. waiting # <<>>
    BY <1>2, <1>4
  <2>2. Range(waiting) = (Out + 1) .. (Out + Len(waiting))
    BY <1>2, <1>4, RunRange
  <2>3. CASE Len(waiting) > MaxQueue
    <3>1. kept = Tail(waiting)
      BY <2>3 DEF Trimmed
    <3>2. /\ kept \in Seq(Nat) /\ Len(kept) = Len(queue) /\ IsRun(kept, Out + 1)
      BY <1>2, <1>4, <2>1, <3>1, RunTail
    <3>3. Range(kept) = (Out + 2) .. (Out + 1 + Len(queue))
      <4>1. Out + 1 \in Nat /\ Out + 1 + 1 = Out + 2
        BY <1>2
      <4>2. Range(kept) = ((Out + 1) + 1) .. ((Out + 1) + Len(kept))
        BY <3>2, <4>1, RunRange
      <4>3. QED
        BY <3>2, <4>1, <4>2
    <3>4. Range(waiting) \ Range(kept) = {Out + 1}
      BY <1>2, <1>4, <2>2, <3>3
    <3>5. Out' = Out + 1
      BY <1>1, <1>2, <3>2 DEF Out
    <3>6. Len(kept) <= MaxQueue
      BY <3>2 DEF TypeOK
    <3>7. {Out + 1} = (Out + 1) .. Out'
      BY <1>2, <3>5
    <3>8. QED
      BY <1>1, <1>2, <1>4, <3>2, <3>4, <3>5, <3>6, <3>7
  <2>4. CASE ~(Len(waiting) > MaxQueue)
    <3>1. kept = waiting
      BY <2>4 DEF Trimmed
    <3>2. Out' = Out
      <4>1. Out' = (entered + 1) - (Len(queue) + 1)
        BY <1>1, <1>4, <3>1 DEF Out
      <4>2. QED
        BY <1>2, <4>1 DEF Out
    <3>3. Len(kept) <= MaxQueue
      BY <1>2, <1>4, <2>4, <3>1, CaptureAssumption DEF CaptureAssumption
    <3>4. (Out + 1) .. Out' = {}
      BY <1>2, <3>2
    <3>5. QED
      BY <1>1, <1>2, <1>4, <3>1, <3>2, <3>3, <3>4
  <2>5. QED
    BY <2>3, <2>4
<1> HIDE DEF waiting, kept
<1>6. TypeOK'
  <2>1. stats' \in [captured : Nat, dropped : Nat, sent : Nat, failed : Nat]
    <3>1. stats \in [captured : Nat, dropped : Nat, sent : Nat, failed : Nat]
      BY DEF TypeOK
    <3>2. stats.dropped + Len(waiting) - Len(kept) \in Nat
      BY <1>2, <1>4, <1>5, <3>1
    <3>3. QED
      BY <1>1, <3>1, <3>2
  <2>2. doing' \in [Threads -> {"idle", "captured", "pushed", "flushing"}]
    BY <1>1 DEF TypeOK
  <2>3. dropped' \subseteq Nat
    <3>1. dropped \subseteq Nat /\ (Out + 1) .. Out' \subseteq Nat
      BY <1>2, <1>5 DEF TypeOK
    <3>2. QED
      BY <1>5, <3>1
  <2>4. entered' \in Nat /\ queue' \in Seq(Nat) /\ Len(queue') <= MaxQueue
    BY <1>1, <1>2, <1>5
  <2>5. QED
    BY <1>1, <2>1, <2>2, <2>3, <2>4 DEF TypeOK
<1>7. QueueIsARun'
  BY <1>1, <1>5 DEF QueueIsARun
<1>8. HandAgrees'
  <2>1. hand <= Out'
    BY <1>2, <1>4, <1>5
  <2>2. QED
    BY <1>1, <2>1 DEF HandAgrees, Holding
<1>9. LeftAreSettled'
  <2>1. sent \cup dropped = (1 .. Out) \ {hand}
    BY DEF LeftAreSettled
  <2>2. (1 .. Out) \cup ((Out + 1) .. Out') = 1 .. Out' /\ hand \notin (Out + 1) .. Out'
    BY <1>2, <1>4, <1>5
  <2>3. sent' \cup dropped' = (1 .. Out') \ {hand'}
    BY <1>1, <1>5, <2>1, <2>2
  <2>4. QED
    BY <1>1, <2>3 DEF LeftAreSettled
<1>10. /\ stats'.sent = stats.sent /\ stats'.captured = stats.captured
       /\ stats'.dropped = stats.dropped + (Len(waiting) - Len(kept))
       /\ stats.sent \in Nat /\ stats.dropped \in Nat /\ stats.captured \in Nat
  <2>1. stats \in [captured : Nat, dropped : Nat, sent : Nat, failed : Nat]
    BY DEF TypeOK
  <2>2. QED
    BY <1>1, <1>2, <1>4, <1>5, <2>1
<1>11. CountersAdd'
  <2>1. Cardinality(OnTheWay)' = Cardinality(OnTheWay) - 1
    BY <1>1, OneLess
  <2>2. Cardinality(OnTheWay) \in Nat
    BY OnTheWayType
  <2>3. InHand' = InHand /\ InHand \in Nat
    BY <1>1 DEF InHand
  <2>4. stats'.sent + stats'.dropped + InHand' = Out'
    <3>1. stats.sent + stats.dropped + InHand = Out
      BY DEF CountersAdd
    <3>2. PICK more \in Nat : more = Len(waiting) - Len(kept)
      BY <1>5
    <3>3. Out' = Out + more
      BY <1>2, <1>4, <1>5, <3>2
    <3>4. stats'.sent = stats.sent /\ stats'.dropped = stats.dropped + more
      BY <1>10, <3>2
    <3>5. stats.sent \in Nat /\ stats.dropped \in Nat /\ Out \in Nat
      BY <1>2, <1>10
    <3>6. QED
      BY <2>3, <3>1, <3>3, <3>4, <3>5
  <2>5. stats'.captured = entered' + Cardinality(OnTheWay)'
    BY <1>1, <1>2, <1>10, <2>1, <2>2 DEF CountersAdd
  <2>6. QED
    BY <2>4, <2>5 DEF CountersAdd
<1>12. SinceIsPast'
  BY <1>1, <1>2 DEF SinceIsPast, TypeOK
<1>13. FlushIsTrue'
  <2>1. stats.sent + stats.dropped <= stats'.sent + stats'.dropped
    BY <1>5, <1>10
  <2>2. QED
    BY <1>1, <1>6, <2>1, FlushStands
<1>14. QED
  BY <1>6, <1>7, <1>8, <1>9, <1>11, <1>12, <1>13

\* The upload thread moves on without touching an operation.
LEMMA WorkerMoves ==
  ASSUME IInv, TypeOK', UNCHANGED <<callVars, queue, hand, stats, entered, settledVars>>,
         accepted \subseteq accepted', Holding' <=> Holding,
         sending' <=> Holding' \/ worker' = "counted",
         worker' = "sent" => hand \in accepted'
  PROVE  IInv'
<1> USE DEF IInv
<1>1. UNCHANGED <<doing, result, since, queue, hand, stats, entered, sent, dropped>>
  BY DEF callVars, settledVars
<1>2. Out' = Out /\ OnTheWay' = OnTheWay /\ InHand' = InHand
  BY <1>1 DEF Out, OnTheWay, InHand
<1>3. QueueIsARun' /\ SinceIsPast'
  BY <1>1, <1>2 DEF QueueIsARun, SinceIsPast
<1>4. HandAgrees'
  BY <1>1, <1>2 DEF HandAgrees
<1>5. LeftAreSettled' /\ CountersAdd'
  BY <1>1, <1>2 DEF LeftAreSettled, CountersAdd
<1>6. FlushIsTrue'
  <2>1. stats.sent + stats.dropped <= stats'.sent + stats'.dropped
    BY <1>1 DEF TypeOK
  <2>2. QED
    BY <1>1, <2>1, FlushStands
<1>7. QED
  BY <1>3, <1>4, <1>5, <1>6

\* So do the steps of the upload thread that neither take nor count an operation.
LEMMA WorkerSteps ==
  ASSUME IInv, Start \/ Sleep \/ Accept \/ Reject \/ NoAnswer \/ Finish
  PROVE  IInv'
<1> USE DEF IInv, uploadVars
<1>1. CASE Start
  <2>1. TypeOK' /\ (Holding' <=> Holding) /\ worker' \notin {"counted", "sent"}
    BY <1>1 DEF Start, TypeOK, Holding, callVars, settledVars
  <2>2. sending' = sending /\ ~sending /\ ~Holding
    BY <1>1 DEF Start, HandAgrees, Holding
  <2>3. QED
    BY <1>1, <2>1, <2>2, WorkerMoves DEF Start
<1>2. CASE Sleep
  <2>1. TypeOK' /\ (Holding' <=> Holding) /\ worker' = "asleep"
    BY <1>2 DEF Sleep, TypeOK, Holding, callVars, settledVars
  <2>2. sending' = sending /\ ~sending /\ ~Holding
    BY <1>2 DEF Sleep, HandAgrees, Holding
  <2>3. QED
    BY <1>2, <2>1, <2>2, WorkerMoves DEF Sleep
<1>3. CASE Accept
  <2>1. TypeOK' /\ Holding' /\ Holding
    BY <1>3 DEF Accept, TypeOK, Holding, callVars, settledVars
  <2>2. sending' = sending /\ sending /\ hand \in accepted'
    BY <1>3 DEF Accept, HandAgrees, Holding
  <2>3. QED
    BY <1>3, <2>1, <2>2, WorkerMoves DEF Accept
<1>4. CASE Reject
  <2>1. TypeOK' /\ Holding' /\ Holding /\ worker' = "failed"
    BY <1>4 DEF Reject, TypeOK, Holding, callVars, settledVars
  <2>2. sending' = sending /\ sending
    BY <1>4 DEF Reject, HandAgrees, Holding
  <2>3. QED
    BY <1>4, <2>1, <2>2, WorkerMoves DEF Reject
<1>5. CASE NoAnswer
  <2>1. Holding' /\ Holding /\ worker' \in {"sending", "failed"}
    BY <1>5 DEF NoAnswer, Holding
  <2>2. attempt' \in 0 .. Retries
    BY <1>5, CaptureAssumption DEF NoAnswer, TypeOK, CaptureAssumption
  <2>3. accepted \subseteq accepted' /\ accepted' \subseteq Nat
    BY <1>5 DEF NoAnswer, TypeOK
  <2>4. UNCHANGED <<callVars, queue, sending, hand, stats, entered, settledVars>>
    BY <1>5 DEF NoAnswer
  <2>5. TypeOK'
    BY <2>1, <2>2, <2>3, <2>4 DEF TypeOK, callVars, settledVars
  <2>6. sending
    BY <2>1 DEF HandAgrees
  <2>7. QED
    BY <2>1, <2>3, <2>4, <2>5, <2>6, WorkerMoves
<1>6. CASE Finish
  <2>1. TypeOK' /\ ~Holding' /\ ~Holding /\ worker' = "ready" /\ ~sending'
    BY <1>6 DEF Finish, TypeOK, Holding, callVars, settledVars
  <2>2. QED
    BY <1>6, <2>1, WorkerMoves DEF Finish
<1>7. QED
  BY <1>1, <1>2, <1>3, <1>4, <1>5, <1>6

\* Between the two counters of a failure the operation is still in hand.
LEMMA CountFailedKeeps ==
  ASSUME IInv, CountFailed
  PROVE  IInv'
<1> USE DEF IInv
<1>1. /\ worker = "failed" /\ worker' = "dropping"
      /\ stats' = [stats EXCEPT !.failed = @ + 1]
      /\ UNCHANGED <<doing, result, since, queue, sending, hand, attempt, entered, accepted,
                     sent, dropped>>
  BY DEF CountFailed, callVars, uploadVars, settledVars
<1>2. stats \in [captured : Nat, dropped : Nat, sent : Nat, failed : Nat]
  BY DEF TypeOK
<1>3. /\ stats' \in [captured : Nat, dropped : Nat, sent : Nat, failed : Nat]
      /\ stats'.sent = stats.sent /\ stats'.dropped = stats.dropped
      /\ stats'.captured = stats.captured
  BY <1>1, <1>2
<1>4. TypeOK'
  BY <1>1, <1>3 DEF TypeOK
<1>5. Out' = Out /\ OnTheWay' = OnTheWay /\ InHand' = InHand
  BY <1>1 DEF Out, OnTheWay, InHand
<1>6. (QueueIsARun /\ HandAgrees /\ LeftAreSettled /\ CountersAdd /\ SinceIsPast)'
  BY <1>1, <1>3, <1>5
  DEF QueueIsARun, HandAgrees, Holding, LeftAreSettled, CountersAdd, SinceIsPast
<1>7. FlushIsTrue'
  BY <1>1, <1>3 DEF FlushIsTrue
<1>8. QED
  BY <1>4, <1>6, <1>7

\* Counting settles what was in hand, as sent or as dropped.
LEMMA CountKeeps ==
  ASSUME IInv, CountSent \/ CountDropped
  PROVE  IInv'
<1> USE DEF IInv
<1>1. /\ Holding /\ hand' = 0 /\ attempt' = 0 /\ worker' = "counted"
      /\ UNCHANGED <<doing, result, since, queue, sending, entered, accepted>>
  BY DEF CountSent, CountDropped, Holding, callVars
<1>2. /\ sent' \cup dropped' = sent \cup dropped \cup {hand}
      /\ sent \subseteq sent' /\ dropped \subseteq dropped'
      /\ sent' \subseteq sent \cup (accepted \cap {hand})
  BY DEF CountSent, CountDropped, HandAgrees
<1>3. /\ stats' \in [captured : Nat, dropped : Nat, sent : Nat, failed : Nat]
      /\ stats'.sent + stats'.dropped = stats.sent + stats.dropped + 1
      /\ stats'.captured = stats.captured
      /\ stats.sent + stats.dropped \in Nat
  <2>1. stats \in [captured : Nat, dropped : Nat, sent : Nat, failed : Nat]
    BY DEF TypeOK
  <2>2. CASE stats' = [stats EXCEPT !.sent = @ + 1]
    BY <2>1, <2>2
  <2>3. CASE stats' = [stats EXCEPT !.dropped = @ + 1]
    BY <2>1, <2>3
  <2>4. QED
    BY <2>2, <2>3 DEF CountSent, CountDropped
<1>4. hand \in 1 .. Out /\ Out \in Nat /\ InHand = 1 /\ InHand' = 0
  BY <1>1 DEF HandAgrees, QueueIsARun, TypeOK, InHand
<1>5. TypeOK'
  <2>1. sent' \subseteq Nat /\ dropped' \subseteq Nat
    BY <1>2 DEF TypeOK
  <2>2. attempt' \in 0 .. Retries
    BY <1>1, CaptureAssumption DEF CaptureAssumption
  <2>3. QED
    BY <1>1, <1>3, <2>1, <2>2 DEF TypeOK
<1>6. Out' = Out /\ OnTheWay' = OnTheWay
  BY <1>1 DEF Out, OnTheWay
<1>7. QueueIsARun' /\ SinceIsPast'
  BY <1>1, <1>6 DEF QueueIsARun, SinceIsPast
<1>8. HandAgrees'
  BY <1>1, <1>4, <1>6 DEF HandAgrees, Holding
<1>9. LeftAreSettled'
  <2>1. sent' \cup dropped' = 1 .. Out
    BY <1>2, <1>4 DEF LeftAreSettled
  <2>2. (1 .. Out') \ {hand'} = 1 .. Out
    BY <1>1, <1>4, <1>6
  <2>3. sent' \subseteq accepted'
    BY <1>1, <1>2 DEF LeftAreSettled
  <2>4. QED
    BY <2>1, <2>2, <2>3 DEF LeftAreSettled
<1>10. CountersAdd'
  BY <1>1, <1>3, <1>4, <1>6 DEF CountersAdd
<1>11. FlushIsTrue'
  <2>1. stats.sent + stats.dropped <= stats'.sent + stats'.dropped
    BY <1>3
  <2>2. QED
    BY <1>1, <1>2, <1>5, <2>1, FlushStands
<1>12. QED
  BY <1>5, <1>7, <1>8, <1>9, <1>10, <1>11

\* Taking the head makes the queue a run that starts one later.
LEMMA TakeKeeps ==
  ASSUME IInv, Take
  PROVE  IInv'
<1> USE DEF IInv
<1>1. /\ worker = "ready" /\ queue # <<>> /\ worker' = "sending" /\ sending' = TRUE
      /\ hand' = Head(queue) /\ queue' = Tail(queue)
      /\ UNCHANGED <<doing, result, since, attempt, stats, entered, accepted, sent, dropped>>
  BY DEF Take, callVars, settledVars
<1>2. queue \in Seq(Nat) /\ Len(queue) \in Nat /\ entered \in Nat /\ Out \in Nat
  BY DEF TypeOK, QueueIsARun
<1>3. /\ hand' = Out + 1 /\ queue' \in Seq(Nat) /\ Len(queue') = Len(queue) - 1
      /\ IsRun(queue', Out + 1)
  BY <1>1, <1>2, RunTail DEF QueueIsARun
<1>4. Out' = Out + 1
  <2>1. Out' = entered - (Len(queue) - 1)
    BY <1>1, <1>3 DEF Out
  <2>2. QED
    BY <1>2, <2>1 DEF Out
<1>5. hand = 0
  BY <1>1 DEF HandAgrees, Holding
<1>6. TypeOK'
  <2>1. Len(queue') <= MaxQueue /\ hand' \in Nat
    BY <1>2, <1>3, CaptureAssumption DEF TypeOK, CaptureAssumption
  <2>2. QED
    BY <1>1, <1>3, <2>1 DEF TypeOK
<1>7. QueueIsARun'
  BY <1>2, <1>3, <1>4 DEF QueueIsARun
<1>8. HandAgrees'
  BY <1>1, <1>2, <1>3, <1>4 DEF HandAgrees, Holding
<1>9. LeftAreSettled'
  <2>1. sent \cup dropped = 1 .. Out
    BY <1>2, <1>5 DEF LeftAreSettled
  <2>2. (1 .. Out') \ {hand'} = 1 .. Out
    BY <1>2, <1>3, <1>4
  <2>3. QED
    BY <1>1, <2>1, <2>2 DEF LeftAreSettled
<1>10. CountersAdd'
  <2>1. InHand = 0 /\ InHand' = 1
    BY <1>2, <1>3, <1>5 DEF InHand
  <2>2. OnTheWay' = OnTheWay
    BY <1>1 DEF OnTheWay
  <2>3. stats.sent + stats.dropped \in Nat
    BY DEF TypeOK
  <2>4. stats'.sent + stats'.dropped + InHand' = Out'
    BY <1>1, <1>2, <1>4, <2>1, <2>3 DEF CountersAdd
  <2>5. QED
    BY <1>1, <2>2, <2>4 DEF CountersAdd
<1>11. SinceIsPast' /\ FlushIsTrue'
  BY <1>1 DEF SinceIsPast, FlushIsTrue
<1>12. QED
  BY <1>6, <1>7, <1>8, <1>9, <1>10, <1>11

\* A thread that only notifies, or flushes, leaves the operations alone.
LEMMA CallKeeps ==
  ASSUME IInv, NEW t \in Threads, Notify(t) \/ Flush(t) \/ FlushEnds(t)
  PROVE  IInv'
<1> USE DEF IInv
<1>1. UNCHANGED <<queue, sending, hand, attempt, stats, entered, accepted, sent, dropped>>
  BY DEF Notify, Flush, FlushEnds, uploadVars, settledVars
<1>2. worker' = worker \/ (worker = "asleep" /\ worker' = "ready")
  BY DEF Notify, Flush, FlushEnds, Woken
<1>3. /\ doing[t] # "captured"
      /\ \E where \in {"idle", "flushing"} : doing' = [doing EXCEPT ![t] = where]
  BY DEF Notify, Flush, FlushEnds, GoTo, Return
<1>4. /\ since' \in [Threads -> Nat] /\ \A u \in Threads : since'[u] <= entered
      /\ result' \in [Threads -> {"none", "true", "false"}]
      /\ \A u \in Threads : result'[u] = "true" =>
           \/ result[u] = "true" /\ since'[u] = since[u]
           \/ Settled
  <2>1. /\ since \in [Threads -> Nat] /\ \A u \in Threads : since[u] <= entered
        /\ result \in [Threads -> {"none", "true", "false"}] /\ entered \in Nat
    BY DEF TypeOK, SinceIsPast
  <2>2. CASE Notify(t)
    BY <2>1, <2>2 DEF Notify
  <2>3. CASE Flush(t)
    <3>1. since' = [since EXCEPT ![t] = entered]
      BY <2>3 DEF Flush
    <3>2. \/ Settled /\ result' = [result EXCEPT ![t] = "true"]
          \/ result' = [result EXCEPT ![t] = "none"]
      BY <2>3 DEF Flush, Return
    <3>3. QED
      BY <2>1, <3>1, <3>2
  <2>4. CASE FlushEnds(t)
    <3>1. since' = since
      BY <2>4 DEF FlushEnds
    <3>2. \/ Settled /\ result' = [result EXCEPT ![t] = "true"]
          \/ result' = [result EXCEPT ![t] = "false"]
      BY <2>4 DEF FlushEnds, Return
    <3>3. QED
      BY <2>1, <3>1, <3>2
  <2>5. QED
    BY <2>2, <2>3, <2>4
<1>5. TypeOK'
  BY <1>1, <1>2, <1>3, <1>4 DEF TypeOK
<1>6. Out' = Out /\ InHand' = InHand /\ OnTheWay' = OnTheWay
  BY <1>1, <1>3, NoneMore DEF Out, InHand
<1>7. (QueueIsARun /\ HandAgrees /\ LeftAreSettled /\ CountersAdd)'
  BY <1>1, <1>2, <1>6 DEF QueueIsARun, HandAgrees, Holding, LeftAreSettled, CountersAdd
<1>8. SinceIsPast'
  BY <1>1, <1>4 DEF SinceIsPast
<1>9. FlushIsTrue'
  <2> SUFFICES ASSUME NEW u \in Threads, result'[u] = "true"
               PROVE  /\ \A op \in 1 .. since'[u] : op \in (sent \cap accepted) \cup dropped
                      /\ stats.sent + stats.dropped >= since'[u]
    BY <1>1 DEF FlushIsTrue
  <2>1. CASE result[u] = "true" /\ since'[u] = since[u]
    BY <2>1 DEF FlushIsTrue
  <2>2. CASE Settled
    <3>1. since'[u] \in Nat /\ since'[u] <= entered /\ entered \in Nat
      BY <1>4 DEF TypeOK
    <3>2. QED
      BY <2>2, <3>1, SettledIsAll
  <2>3. QED
    BY <1>4, <2>1, <2>2
<1>10. QED
  BY <1>5, <1>7, <1>8, <1>9

\* Every step keeps it.
LEMMA InvNext == IInv /\ [Next]_vars => IInv'
<1> SUFFICES ASSUME IInv, [Next]_vars PROVE IInv'
  OBVIOUS
<1>1. CASE UNCHANGED vars
  BY <1>1
  DEF vars, callVars, uploadVars, settledVars, IInv, TypeOK, QueueIsARun, HandAgrees, Holding,
      LeftAreSettled, CountersAdd, SinceIsPast, FlushIsTrue, Out, InHand, OnTheWay
<1>2. CASE Next
  BY <1>2, CaptureKeeps, PushKeeps, CallKeeps, WorkerSteps, TakeKeeps, CountFailedKeeps,
     CountKeeps
  DEF Next
<1>3. QED
  BY <1>1, <1>2

-----------------------------------------------------------------------------
(* The theorems. *)

\* The inductive invariant holds for ever.
THEOREM QueueInvariant == Spec => []IInv
BY InvInit, InvNext, PTL DEF Spec

\* Every variable keeps its type, and the queue its depth.
THEOREM QueueTypes == Spec => []TypeOK
<1>1. IInv => TypeOK
  BY DEF IInv
<1>2. QED
  BY <1>1, QueueInvariant, PTL

\* A flush that returned true has settled all that had entered before it.
THEOREM FlushStaysTrue == Spec => []FlushIsTrue
<1>1. IInv => FlushIsTrue
  BY DEF IInv
<1>2. QED
  BY <1>1, QueueInvariant, PTL

\* What was captured is on its way, in the queue, in hand, sent or dropped, and
\* counted as such.
THEOREM NothingGoesUncounted == Spec => []NothingIsUncounted
<1>1. ASSUME IInv PROVE NothingIsUncounted
  <2> DEFINE captured == stats.captured
             went == stats.sent
             fell == stats.dropped
             coming == Cardinality(OnTheWay)
             waiting == Len(queue)
  <2>1. /\ captured \in Nat /\ went \in Nat /\ fell \in Nat /\ entered \in Nat
        /\ coming \in Nat /\ waiting \in Nat
    BY <1>1, OnTheWayType DEF IInv, TypeOK
  <2>2. InHand \in Nat
    BY DEF InHand
  <2>3. went + fell + InHand = entered - waiting /\ captured = entered + coming
    BY <1>1 DEF IInv, CountersAdd, Out
  <2>4. NothingIsUncounted <=> captured = coming + waiting + InHand + went + fell
    BY DEF NothingIsUncounted
  <2> HIDE DEF captured, went, fell, coming, waiting
  <2>5. captured = coming + waiting + InHand + went + fell
    BY <2>1, <2>2, <2>3
  <2>6. QED
    BY <2>4, <2>5
<1>2. QED
  BY <1>1, QueueInvariant, PTL

\* Operations leave the queue in the order they came.
THEOREM OldestStayFirst == Spec => []OldestLeaveFirst
<1>1. ASSUME IInv, NEW op \in Range(queue), NEW other \in sent \cup dropped \cup {hand}
      PROVE  other < op
  <2>1. Out \in Nat /\ queue \in Seq(Nat) /\ hand \in Nat /\ Len(queue) \in Nat
    BY <1>1 DEF IInv, QueueIsARun, TypeOK
  <2>2. op \in (Out + 1) .. (Out + Len(queue))
    BY <1>1, <2>1, RunRange DEF IInv, QueueIsARun
  <2>3. other \in 0 .. Out
    BY <1>1, <2>1 DEF IInv, HandAgrees, LeftAreSettled
  <2>4. QED
    BY <2>1, <2>2, <2>3
<1>2. IInv => OldestLeaveFirst
  BY <1>1 DEF OldestLeaveFirst
<1>3. QED
  BY <1>2, QueueInvariant, PTL
-----------------------------------------------------------------------------
(* The line of the outbox. *)

\* What stands in front is the head, and the rest is the tail.
LEMMA InFront ==
  ASSUME NEW rest \in Seq(Nat), NEW first \in Nat
  PROVE  Head(<<first>> \o rest) = first /\ Tail(<<first>> \o rest) = rest
OBVIOUS

\* The line is a sequence of operations, and the one in hand is its first.
LEMMA LineFacts ==
  ASSUME IInv
  PROVE  /\ Unsettled \in Seq(Nat)
         /\ hand = 0 => Unsettled = queue
         /\ hand # 0 =>
              /\ Unsettled # <<>> /\ Head(Unsettled) = hand /\ Tail(Unsettled) = queue
              /\ Len(Unsettled) = Len(queue) + 1
BY DEF IInv, TypeOK, Unsettled

\* Who is told, and what is in line, depends on nothing else.
LEMMA LineStays ==
  /\ UNCHANGED <<queue, hand>> => Unsettled' = Unsettled
  /\ result' = result =>
       {t \in Threads : result'[t] = "true"} = {t \in Threads : result[t] = "true"}
BY DEF Unsettled

\* Nothing waits at the start, and nobody was told anything.
LEMMA OutboxInit == Init => Abstract!Init
BY DEF Init, Abstract!Init, Unsettled

\* A push puts the operation at the end of the line, and takes one out if it is full.
LEMMA PushRefines ==
  ASSUME IInv, NEW t \in Threads, Push(t)
  PROVE  Abstract!Come \/ Abstract!Overflow
<1> DEFINE full == Append(Unsettled, entered + 1)
           waiting == Append(queue, entered + 1)
<1>1. /\ queue \in Seq(Nat) /\ Len(queue) <= MaxQueue /\ MaxQueue \in Nat \ {0}
      /\ entered \in Nat /\ hand \in Nat /\ Len(queue) \in Nat
  BY CaptureAssumption DEF IInv, TypeOK
<1>2. /\ hand' = hand /\ accepted' = accepted /\ sent' = sent /\ result' = result
      /\ entered' = entered + 1
      /\ queue' = Trimmed(waiting)
      /\ dropped' = dropped \cup (Range(waiting) \ Range(Trimmed(waiting)))
  BY DEF Push, uploadVars
<1>3. /\ waiting \in Seq(Nat) /\ Len(waiting) = Len(queue) + 1 /\ waiting # <<>>
      /\ Out \in Nat /\ IsRun(waiting, Out)
  BY <1>1, RunAppend DEF IInv, QueueIsARun, Out
<1>4. Unsettled' = IF hand = 0 THEN queue' ELSE <<hand>> \o queue'
  BY <1>2 DEF Unsettled
<1>5. full = IF hand = 0 THEN waiting ELSE <<hand>> \o waiting
  BY <1>1 DEF Unsettled
<1>6. Len(Unsettled) = Len(queue) + IF hand = 0 THEN 0 ELSE 1
  BY <1>1, LineFacts
<1>7. CASE Len(waiting) <= MaxQueue
  <2>1. Trimmed(waiting) = waiting
    BY <1>1, <1>3, <1>7 DEF Trimmed
  <2>2. queue' = waiting /\ dropped' = dropped
    BY <1>2, <2>1
  <2>3. Unsettled' = full
    BY <1>4, <1>5, <2>2
  <2>4. Len(Unsettled) <= MaxQueue
    BY <1>1, <1>3, <1>6, <1>7
  <2> QED BY <1>2, <2>2, <2>3, <2>4, LineStays DEF Abstract!Come
<1>8. CASE Len(waiting) > MaxQueue
  <2>1. queue' = Tail(waiting)
    BY <1>2, <1>8 DEF Trimmed
  <2>2. dropped' = dropped \cup {Head(waiting)}
    BY <1>2, <1>3, <2>1, RunLosesHead
  <2>3. Len(Unsettled) >= MaxQueue /\ (hand # 0 => Len(Unsettled) > MaxQueue)
    BY <1>1, <1>3, <1>6, <1>8
  <2>4. CASE hand = 0
    <3>1. Unsettled' = Tail(full) /\ Head(full) = Head(waiting)
      BY <1>4, <1>5, <2>1, <2>4
    <3> QED BY <1>2, <2>2, <2>3, <3>1, LineStays DEF Abstract!Overflow
  <2>5. CASE hand # 0
    <3>1. Head(full) = hand /\ Tail(full) = waiting
      BY <1>1, <1>3, <1>5, <2>5, InFront
    <3>2. Unsettled' = <<Head(full)>> \o Tail(Tail(full))
      BY <1>4, <2>1, <2>5, <3>1
    <3> QED BY <1>2, <2>2, <2>3, <2>5, <3>1, <3>2, LineStays DEF Abstract!Overflow
  <2> QED BY <2>4, <2>5
<1> QED BY <1>1, <1>3, <1>7, <1>8

\* Each step is a step of the outbox or leaves it alone.
LEMMA OutboxStep == IInv /\ [Next]_vars => [Abstract!Next]_(Abstract!vars)
<1> SUFFICES ASSUME IInv, [Next]_vars
             PROVE  Abstract!Next \/ UNCHANGED Abstract!vars
  OBVIOUS
<1>1. /\ TypeOK /\ HandAgrees /\ QueueIsARun /\ queue \in Seq(Nat)
  BY DEF IInv, TypeOK
<1>2. ASSUME NEW t \in Threads, Push(t) PROVE Abstract!Next
  BY <1>2, PushRefines DEF Abstract!Next
<1>3. ASSUME NEW t \in Threads, Flush(t) \/ FlushEnds(t)
      PROVE  Abstract!Next
  <2>1. UNCHANGED <<entered, queue, hand, accepted, sent, dropped>>
    BY <1>3 DEF Flush, FlushEnds, uploadVars, settledVars
  <2>2. PICK answer \in {"true", "false", "none"} :
          result' = [result EXCEPT ![t] = answer] /\ (answer = "true" => Settled)
    BY <1>3 DEF Flush, FlushEnds, Return
  <2>3. Settled => Unsettled = <<>>
    BY <1>1 DEF Settled, HandAgrees, Unsettled
  <2>4. {u \in Threads : result'[u] = "true"} =
          IF answer = "true" THEN {u \in Threads : result[u] = "true"} \cup {t}
          ELSE {u \in Threads : result[u] = "true"} \ {t}
    BY <1>1, <2>2 DEF TypeOK
  <2>5. Abstract!Ask(t) \/ Abstract!Answer(t)
    BY <2>1, <2>2, <2>3, <2>4, LineStays DEF Abstract!Ask, Abstract!Answer
  <2> QED BY <2>5 DEF Abstract!Next
<1>4. CASE Take
  <2>1. hand = 0 /\ queue # <<>>
    BY <1>1, <1>4 DEF Take, HandAgrees, Holding
  <2>2. hand' = Head(queue) /\ queue' = Tail(queue) /\ hand' # 0
    BY <1>1, <1>4, <2>1, RunTail DEF QueueIsARun, Take
  <2>3. Unsettled' = Unsettled
    BY <1>1, <2>1, <2>2 DEF Unsettled
  <2> QED BY <1>4, <2>3, LineStays DEF Take, Abstract!vars, callVars, settledVars
<1>5. CASE Accept \/ NoAnswer
  <2>1. hand # 0
    BY <1>1, <1>5 DEF Accept, NoAnswer, HandAgrees, Holding
  <2>2. /\ accepted' \in {accepted, accepted \cup {hand}}
        /\ UNCHANGED <<entered, queue, hand, result, sent, dropped>>
    BY <1>5 DEF Accept, NoAnswer, callVars, uploadVars, settledVars
  <2> QED BY <2>1, <2>2, LineFacts, LineStays DEF Abstract!Next, Abstract!Reach, Abstract!vars
<1>6. CASE CountSent
  <2>1. hand # 0 /\ hand \in accepted
    BY <1>1, <1>6 DEF CountSent, HandAgrees, Holding
  <2>2. /\ sent' = sent \cup {hand} /\ hand' = 0
        /\ UNCHANGED <<entered, queue, accepted, result, dropped>>
    BY <1>6 DEF CountSent, callVars
  <2>3. Unsettled' = queue
    BY <2>2 DEF Unsettled
  <2> QED BY <2>1, <2>2, <2>3, LineFacts, LineStays DEF Abstract!Next, Abstract!Leave
<1>7. CASE CountDropped
  <2>1. hand # 0
    BY <1>1, <1>7 DEF CountDropped, HandAgrees, Holding
  <2>2. /\ dropped' = dropped \cup {hand} /\ hand' = 0
        /\ UNCHANGED <<entered, queue, accepted, result, sent>>
    BY <1>7 DEF CountDropped, callVars
  <2>3. Unsettled' = queue
    BY <2>2 DEF Unsettled
  <2> QED BY <2>1, <2>2, <2>3, LineFacts, LineStays DEF Abstract!Next, Abstract!Leave
<1>8. CASE
    \/ \E t \in Threads : Capture(t) \/ Notify(t)
    \/ Start \/ Sleep \/ Reject \/ CountFailed \/ Finish \/ UNCHANGED vars
  <2>1. UNCHANGED <<entered, queue, hand, accepted, result, sent, dropped>>
    BY <1>8
    DEF Capture, Notify, Start, Sleep, Reject, CountFailed, Finish, vars, callVars, uploadVars,
        settledVars
  <2> QED BY <2>1, LineStays DEF Abstract!vars
<1> QED BY <1>2, <1>3, <1>4, <1>5, <1>6, <1>7, <1>8 DEF Next

\* Whatever the threads do at once and however uploads fail, the capture queue is
\* one line: operations leave it at its head, sent or lost, and a full line loses
\* only its oldest operation that is not being sent.
THEOREM QueueImplementsOutbox == Spec => ImplementsOutbox
<1>1. Spec => []IInv
  BY QueueInvariant
<1>2. Spec => Abstract!Spec
  BY <1>1, OutboxInit, OutboxStep, PTL DEF Spec, Abstract!Spec
<1> QED BY <1>2 DEF ImplementsOutbox
=============================================================================
