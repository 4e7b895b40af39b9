--------------------------- MODULE SnapshotStore ----------------------------
(***************************************************************************)
(* What the map store promises to the commands that use it: one current    *)
(* snapshot, changed only by whole commits that build on it, never undone, *)
(* and read only as a whole.  No files, locks, journal or crashes.         *)
(***************************************************************************)
EXTENDS Naturals

CONSTANTS
  Proc,    \* commands that may commit or read
  Nothing  \* the snapshot of a project that was never mapped

VARIABLES
  current,  \* the committed snapshot
  seen      \* the snapshot each command last read

vars == <<current, seen>>

Init == current = Nothing /\ seen = [p \in Proc |-> Nothing]

\* A run is merged into the current snapshot or replaces its graph.
AbsorbsRun(old, new) ==
  \E p \in Proc, keep \in {{}, old.runs} : new.runs = keep \cup {p}

\* Naming screens leaves graph and visits alone.
NamesScreens(old, new) ==
  new.runs = old.runs /\ new.graph = old.graph /\ old.named \subseteq new.named

\* One revision never stands for two graphs, and revisions never go back.
Revised(old, new) ==
  /\ new.rev \in {old.rev, old.rev + 1, 2}
  /\ new.rev >= old.rev
  /\ new.rev = old.rev => new.graph = old.graph /\ new.named = old.named

\* Only a replacement, which forgets the earlier runs too, may drop a screen.
KeepsGraph(old, new) ==
  old.runs \subseteq new.runs => old.graph \subseteq new.graph

Commit ==
  /\ AbsorbsRun(current, current') \/ NamesScreens(current, current')
  /\ Revised(current, current')
  /\ KeepsGraph(current, current')
  /\ UNCHANGED seen

Read ==
  /\ \E p \in Proc : seen' = [seen EXCEPT ![p] = current]
  /\ UNCHANGED current

Next == Commit \/ Read

Spec == Init /\ [][Next]_vars
=============================================================================
