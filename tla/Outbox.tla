------------------------------- MODULE Outbox -------------------------------
(***************************************************************************)
(* What a capture queue promises, with no threads, no upload and no        *)
(* counters in it: operations stand in one line and leave it at its head,  *)
(* sent or lost; a sent one has reached the service.  Only a line that is  *)
(* full loses an operation otherwise, and that is the oldest, or the next  *)
(* one while the oldest is being sent.  Whoever is told that everything is *)
(* settled is told so while nobody stands in line.                         *)
(***************************************************************************)
EXTENDS Naturals, Sequences

CONSTANTS
  Threads,  \* who asks
  MaxQueue  \* how many operations may wait

VARIABLES
  entered,  \* how many operations have come
  line,     \* those that are not settled, oldest first
  reached,  \* those the service has
  sent,
  lost,
  told      \* who was told that everything is settled

vars == <<entered, line, reached, sent, lost, told>>

Init ==
  /\ entered = 0 /\ line = <<>>
  /\ reached = {} /\ sent = {} /\ lost = {}
  /\ told = {}

Come ==
  /\ Len(line) <= MaxQueue
  /\ entered' = entered + 1
  /\ line' = Append(line, entered + 1)
  /\ UNCHANGED <<reached, sent, lost, told>>

Overflow ==
  /\ Len(line) >= MaxQueue
  /\ entered' = entered + 1
  /\ LET full == Append(line, entered + 1)
     IN  \/ /\ line' = Tail(full)
            /\ lost' = lost \cup {Head(full)}
         \/ /\ Len(line) > MaxQueue
            /\ line' = <<Head(full)>> \o Tail(Tail(full))
            /\ lost' = lost \cup {Head(Tail(full))}
  /\ UNCHANGED <<reached, sent, told>>

Reach ==
  /\ line # <<>>
  /\ reached' = reached \cup {Head(line)}
  /\ UNCHANGED <<entered, line, sent, lost, told>>

Leave ==
  /\ line # <<>>
  /\ line' = Tail(line)
  /\ \/ Head(line) \in reached /\ sent' = sent \cup {Head(line)} /\ UNCHANGED lost
     \/ lost' = lost \cup {Head(line)} /\ UNCHANGED sent
  /\ UNCHANGED <<entered, reached, told>>

Ask(t) ==
  /\ told' = told \ {t}
  /\ UNCHANGED <<entered, line, reached, sent, lost>>

Answer(t) ==
  /\ line = <<>>
  /\ told' = told \cup {t}
  /\ UNCHANGED <<entered, line, reached, sent, lost>>

Next == Come \/ Overflow \/ Reach \/ Leave \/ \E t \in Threads : Ask(t) \/ Answer(t)

Spec == Init /\ [][Next]_vars
=============================================================================
