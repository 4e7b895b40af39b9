---------------------------- MODULE JourneyProofs ----------------------------
(***************************************************************************)
(* Proofs about JourneyRun, for every number of actors, every script and   *)
(* every set of processes that keep a pipe: a failing verdict is heard,    *)
(* verdict and manifest agree, a green run is earned, and a journey with   *)
(* more actors than device letters is never green.                         *)
(***************************************************************************)
EXTENDS JourneyRun, TLAPS

Lines(s) == {s[i] : i \in DOMAIN s}

\* What a runner printed is logged or still in its pipe, as long as its reader
\* can decode it.
NothingIsLost ==
  \A d \in Device :
    /\ log[d] \cup Lines(pipe[d]) \subseteq printed[d]
    /\ reader[d] # "deaf" => printed[d] \subseteq log[d] \cup Lines(pipe[d])

\* A runner prints one verdict, at its end.
OneVerdict ==
  \A d \in Device :
    /\ printed[d] \cap {"pass", "fail"} # {} => runner[d] \in {"reported", "dead"}
    /\ ~({"pass", "fail"} \subseteq printed[d])

\* A failing verdict that was read stands, and a drive is done only by a line.
DriveShowsLog ==
  \A d \in Device :
    /\ "fail" \in log[d] => drive[d].passed = "fail"
    /\ drive[d].done => log[d] \cap {"declared", "pass", "fail"} # {}

\* A drive that was killed is dead, and silent unless it was cut off.
ReapedIsSilent ==
  \A d \in Device : d < reaping =>
    /\ runner[d] = "dead"
    /\ FullyHeard(d) => pipe[d] = <<>>

\* The script does not move past the step on which a runner broke off.
BrokenStaysPut ==
  /\ joined \subseteq Device
  /\ pos > 0 \/ failed # {} => joined = Actor
  /\ \A d \in failed :
       /\ pos < Steps /\ Owners[pos + 1] = d
       /\ runner[d] \notin {"off", "starting", "claimed", "playing"}

Waits == {"first", "ready", "walk", "grace"}

Judged == {"judged", "written", "ended"}

HostInTurn ==
  /\ host = "first" => \A d \in Device : d # 0 => runner[d] = "off"
  /\ host \in Waits => reaping = 0
  /\ host \in Judged => reaping = Launched
  /\ host \notin Judged => outcome = "none"
  /\ host # "ended" => result = "none"

\* What the run was judged by is what its drives still show.
JudgedAsHeard ==
  /\ host \in Judged => \A d \in Device : FullyHeard(d) => verdicts[d] = drive[d].passed
  /\ host \in {"written", "ended"} =>
       \A d \in Device : FullyHeard(d) => manifest[d] = drive[d].passed
  /\ outcome = "pass" => \A d \in Device : verdicts[d] # "fail"
  /\ outcome = "pass" /\ config.declares =>
       \A d \in Device : log[d] \cap {"declared", "pass"} # {}

IInv ==
  /\ TypeOK /\ NothingIsLost /\ OneVerdict /\ DriveShowsLog /\ ReapedIsSilent
  /\ BrokenStaysPut /\ HostInTurn /\ JudgedAsHeard /\ GreenIsEarned


\* Lines of two pipes after each other are the lines of both.
LEMMA LinesOfAppend ==
  ASSUME NEW s \in Seq(Line), NEW t \in Seq(Line)
  PROVE  /\ s \o t \in Seq(Line)
         /\ Lines(s \o t) = Lines(s) \cup Lines(t)
<1>1. s \o t \in Seq(Line)
  OBVIOUS
<1>2. Lines(s \o t) \subseteq Lines(s) \cup Lines(t)
  BY DEF Lines
<1>3. Lines(s) \subseteq Lines(s \o t)
  BY DEF Lines
<1>4. ASSUME NEW i \in DOMAIN t PROVE t[i] \in Lines(s \o t)
  <2>1. Len(s) + i \in DOMAIN (s \o t) /\ (s \o t)[Len(s) + i] = t[i]
    OBVIOUS
  <2>2. QED
    BY <2>1 DEF Lines
<1>5. QED
  BY <1>1, <1>2, <1>3, <1>4 DEF Lines

\* The lines of a pipe are the one read next and those behind it.
LEMMA LinesOfTail ==
  ASSUME NEW s \in Seq(Line), s # <<>>
  PROVE  /\ Head(s) \in Line /\ Tail(s) \in Seq(Line)
         /\ Lines(s) = {Head(s)} \cup Lines(Tail(s))
<1>1. Head(s) \in Line /\ Tail(s) \in Seq(Line) /\ Head(s) = s[1] /\ 1 \in DOMAIN s
  OBVIOUS
<1>2. Lines(Tail(s)) \subseteq Lines(s)
  BY DEF Lines
<1>3. ASSUME NEW i \in DOMAIN s, i # 1 PROVE s[i] \in Lines(Tail(s))
  <2>1. i - 1 \in DOMAIN Tail(s) /\ Tail(s)[i - 1] = s[i]
    BY <1>3
  <2>2. QED
    BY <2>1 DEF Lines
<1>4. QED
  BY <1>1, <1>2, <1>3 DEF Lines

\* An empty pipe has no line.
LEMMA LinesOfNone == Lines(<<>>) = {} /\ <<>> \in Seq(Line)
BY DEF Lines

\* What is printed alone is the only line.
LEMMA LinesOfOne ==
  ASSUME NEW line \in Line
  PROVE  <<line>> \in Seq(Line) /\ Lines(<<line>>) = {line}
BY DEF Lines

\* There is a device and a step, and every device is some actor.
LEMMA ConstantFacts ==
  /\ Launched \in Nat \ {0} /\ Launched <= Actors /\ Launched <= MaxDevices
  /\ Device \subseteq Actor /\ 0 \in Device
  /\ Steps \in Nat
  /\ Steps > 0
BY JourneyAssumption DEF Launched, Device, Actor, Steps

\* No runner has printed anything when the run starts.
LEMMA InvInit == Init => IInv
<1> SUFFICES ASSUME Init PROVE IInv
  OBVIOUS
<1>1. TypeOK
  BY ConstantFacts, LinesOfNone
  DEF Init, TypeOK, HostStage, RunnerStage, Mark
<1>2. NothingIsLost /\ OneVerdict /\ DriveShowsLog /\ ReapedIsSilent
  BY LinesOfNone, ConstantFacts
  DEF Init, NothingIsLost, OneVerdict, DriveShowsLog, ReapedIsSilent, Device
<1>3. BrokenStaysPut /\ HostInTurn /\ JudgedAsHeard /\ GreenIsEarned
  BY ConstantFacts DEF Init, BrokenStaysPut, HostInTurn, JudgedAsHeard, GreenIsEarned, Judged,
                       Waits
<1>4. QED
  BY <1>1, <1>2, <1>3 DEF IInv

-----------------------------------------------------------------------------
(* The runners. *)

\* While a runner lives, its run is not judged and its drive not reaped.
LEMMA AliveIsUnjudged ==
  ASSUME IInv, NEW d \in Device, runner[d] # "dead"
  PROVE  /\ ~(d < reaping)
         /\ host \notin Judged /\ outcome = "none" /\ result = "none"
<1>1. ~(d < reaping)
  BY DEF IInv, ReapedIsSilent
<1>2. host \notin Judged
  BY <1>1, ConstantFacts DEF IInv, HostInTurn, Device
<1>3. QED
  BY <1>1, <1>2 DEF IInv, HostInTurn, Judged

\* What a runner says keeps the invariant, if a verdict is the last it says.
LEMMA SpeechKeeps ==
  ASSUME IInv, NEW d \in Device, NEW lines \in Seq(Line), Emit(d, lines),
         UNCHANGED <<hostVars, readerVars, open>>,
         runner[d] \notin {"off", "reported", "dead"},
         NEW where \in RunnerStage \ {"off", "dead"}, GoTo(d, where),
         Lines(lines) \cap {"pass", "fail"} # {} =>
           where = "reported" /\ ~({"pass", "fail"} \subseteq Lines(lines)),
         failed' \subseteq Device, pos' \in 0 .. Steps, BrokenStaysPut'
  PROVE  IInv'
<1>1. /\ pipe' = [pipe EXCEPT ![d] = pipe[d] \o lines]
      /\ printed' = [printed EXCEPT ![d] = printed[d] \cup Lines(lines)]
      /\ runner' = [runner EXCEPT ![d] = where]
      /\ UNCHANGED <<config, host, late, reaping, cut, outcome, verdicts, manifest, result,
                     reader, log, drive, open>>
  BY DEF Emit, GoTo, Lines, hostVars, reportVars, readerVars
<1>2. /\ pipe[d] \o lines \in Seq(Line)
      /\ Lines(pipe[d] \o lines) = Lines(pipe[d]) \cup Lines(lines)
      /\ Lines(lines) \subseteq Line
  <2>1. pipe[d] \in Seq(Line)
    BY DEF IInv, TypeOK
  <2>2. Lines(lines) \subseteq Line
    BY DEF Lines
  <2>3. QED
    BY <2>1, <2>2, LinesOfAppend
<1>3. /\ ~(d < reaping)
      /\ host \notin Judged /\ outcome = "none" /\ result = "none"
  BY AliveIsUnjudged
<1>4. TypeOK'
  BY <1>1, <1>2, ConstantFacts DEF IInv, TypeOK, BrokenStaysPut
<1>5. NothingIsLost'
  BY <1>1, <1>2 DEF IInv, TypeOK, NothingIsLost
<1>6. OneVerdict'
  BY <1>1, <1>2 DEF IInv, TypeOK, OneVerdict
<1>7. DriveShowsLog'
  BY <1>1 DEF IInv, DriveShowsLog
<1>8. ReapedIsSilent'
  BY <1>1, <1>3 DEF IInv, TypeOK, ReapedIsSilent, FullyHeard
<1>9. HostInTurn'
  BY <1>1, <1>3 DEF IInv, TypeOK, HostInTurn, Judged
<1>10. JudgedAsHeard' /\ GreenIsEarned'
  BY <1>1, <1>3 DEF JudgedAsHeard, GreenIsEarned, Judged
<1>11. QED
  BY <1>4, <1>5, <1>6, <1>7, <1>8, <1>9, <1>10 DEF IInv
\* So does whatever a runner does without a word, if it reports or ends last.
LEMMA SilenceKeeps ==
  ASSUME IInv, NEW d \in Device,
         UNCHANGED <<hostVars, readerVars, pipe, failed, printed, pos>>,
         runner[d] \notin {"off", "dead"},
         NEW where \in RunnerStage \ {"off"}, GoTo(d, where),
         runner[d] = "reported" => where = "dead",
         runner[d] \notin {"starting", "claimed", "playing"} =>
           where \notin {"starting", "claimed", "playing"},
         open' \subseteq Device, joined \subseteq joined', joined' \subseteq Device
  PROVE  IInv'
<1>1. /\ runner' = [runner EXCEPT ![d] = where]
      /\ UNCHANGED <<config, host, late, reaping, cut, outcome, verdicts, manifest, result,
                     reader, log, drive, pipe, failed, printed, pos>>
  BY DEF GoTo, hostVars, reportVars, readerVars
<1>2. /\ ~(d < reaping)
      /\ host \notin Judged /\ outcome = "none" /\ result = "none"
  BY AliveIsUnjudged
<1>3. TypeOK'
  BY <1>1, ConstantFacts DEF IInv, TypeOK
<1>4. NothingIsLost' /\ DriveShowsLog'
  BY <1>1 DEF IInv, NothingIsLost, DriveShowsLog
<1>5. OneVerdict'
  BY <1>1 DEF IInv, TypeOK, OneVerdict, RunnerStage
<1>6. ReapedIsSilent'
  BY <1>1, <1>2 DEF IInv, TypeOK, ReapedIsSilent, FullyHeard
<1>7. BrokenStaysPut'
  <2>1. joined = Actor => joined' = Actor
    BY ConstantFacts
  <2>2. QED
    BY <1>1, <2>1 DEF IInv, TypeOK, BrokenStaysPut
<1>8. HostInTurn'
  BY <1>1, <1>2 DEF IInv, TypeOK, HostInTurn, Judged
<1>9. JudgedAsHeard' /\ GreenIsEarned'
  BY <1>1, <1>2 DEF JudgedAsHeard, GreenIsEarned, Judged
<1>10. QED
  BY <1>3, <1>4, <1>5, <1>6, <1>7, <1>8, <1>9 DEF IInv

\* The invariant is kept by what a runner prints about itself,
LEMMA ClaimKeeps ==
  ASSUME IInv, NEW d \in Device, Claim(d) \/ Declare(d) \/ Report(d)
  PROVE  IInv'
<1>1. PICK line \in Line, where \in {"claimed", "declared", "reported"} :
        /\ Emit(d, <<line>>) /\ GoTo(d, where)
        /\ line \in {"pass", "fail"} => where = "reported"
        /\ runner[d] \in {"starting", "ending", "declared"}
        /\ where = "claimed" => runner[d] = "starting"
        /\ UNCHANGED <<hostVars, readerVars, failed, open, joined, pos>>
  BY DEF Claim, Declare, Report, At, Line
<1>2. <<line>> \in Seq(Line) /\ Lines(<<line>>) = {line}
  BY LinesOfOne
<1>3. BrokenStaysPut'
  BY <1>1 DEF IInv, TypeOK, BrokenStaysPut, GoTo
<1>4. failed' \subseteq Device /\ pos' \in 0 .. Steps
  BY <1>1 DEF IInv, TypeOK
<1>5. where \in RunnerStage \ {"off", "dead"} /\ UNCHANGED <<hostVars, readerVars, open>>
  BY <1>1 DEF RunnerStage
<1>6. QED
  BY <1>1, <1>2, <1>3, <1>4, <1>5, SpeechKeeps

\* A step performed, or broken off: its owner plays, and nobody has broken off.
LEMMA ActionKeeps ==
  ASSUME IInv, NEW d \in Device, Perform(d) \/ BreakOff(d)
  PROVE  IInv'
<1>1. MayAct(d) /\ runner[d] = "playing"
  BY DEF Perform, BreakOff, MayAct, At
<1>2. failed = {}
  BY <1>1 DEF IInv, BrokenStaysPut, MayAct
<1>3. PICK lines \in Seq(Line), where \in {"playing", "ending"} :
        /\ Emit(d, lines) /\ GoTo(d, where)
        /\ Lines(lines) \cap {"pass", "fail"} = {}
        /\ UNCHANGED <<hostVars, readerVars, open, joined>>
        /\ \/ pos' = pos + 1 /\ failed' = failed
           \/ pos' = pos /\ failed' = failed \cup {d} /\ where = "ending"
  <2>1. CASE Perform(d)
    <3>1. PICK lines \in {<<>>} \cup {<<n>> : n \in {"miss", "breach", Shot, Garbled}} :
            Emit(d, lines)
      BY <2>1, JourneyAssumption DEF Perform
    <3>2. lines \in Seq(Line) /\ Lines(lines) \cap {"pass", "fail"} = {}
      <4>1. CASE lines = <<>>
        BY <4>1, LinesOfNone
      <4>2. ASSUME NEW n \in {"miss", "breach", Shot, Garbled}, lines = <<n>>
            PROVE  lines \in Seq(Line) /\ Lines(lines) \cap {"pass", "fail"} = {}
        <5>1. n \in Line \ {"pass", "fail"}
          BY DEF Line, Shot, Garbled
        <5>2. QED
          BY <4>2, <5>1, LinesOfOne
      <4>3. QED
        BY <3>1, <4>1, <4>2
    <3>3. GoTo(d, "playing")
      BY <2>1, <1>1 DEF Perform, GoTo, IInv, TypeOK
    <3>4. QED
      BY <2>1, <3>1, <3>2, <3>3 DEF Perform
  <2>2. CASE BreakOff(d)
    <3>1. PICK lines \in {<<"exception">>, <<>>} : Emit(d, lines)
      BY <2>2 DEF BreakOff
    <3>2. lines \in Seq(Line) /\ Lines(lines) \cap {"pass", "fail"} = {}
      <4>1. "exception" \in Line
        BY DEF Line
      <4>2. QED
        BY <3>1, <4>1, LinesOfOne, LinesOfNone
    <3>3. QED
      BY <2>2, <3>1, <3>2 DEF BreakOff
  <2>3. QED
    BY <2>1, <2>2
<1>4. runner' = [runner EXCEPT ![d] = where]
  BY <1>3 DEF GoTo
<1>5. failed' \subseteq Device /\ pos' \in 0 .. Steps
  BY <1>1, <1>3, ConstantFacts DEF IInv, TypeOK, MayAct
<1>6. BrokenStaysPut'
  BY <1>1, <1>2, <1>3, <1>4, ConstantFacts DEF IInv, TypeOK, BrokenStaysPut, MayAct
<1>7. where \in RunnerStage \ {"off", "dead"} /\ UNCHANGED <<hostVars, readerVars, open>>
  BY <1>3 DEF RunnerStage
<1>8. QED
  BY <1>1, <1>3, <1>5, <1>6, <1>7, SpeechKeeps

\* by what it does without printing,
LEMMA QuietKeeps ==
  ASSUME IInv, NEW d \in Device, Join(d) \/ StopPolling(d) \/ Exit(d)
  PROVE  IInv'
<1>1. joined \subseteq Device /\ open \subseteq Device
  BY DEF IInv, TypeOK, BrokenStaysPut
<1>2. PICK where \in {"playing", "ending", "dead"} :
        /\ GoTo(d, where)
        /\ runner[d] \notin {"off", "dead"}
        /\ runner[d] = "reported" => where = "dead"
        /\ where = "playing" => runner[d] = "claimed"
        /\ UNCHANGED <<hostVars, readerVars, pipe, failed, printed, pos>>
        /\ open' \subseteq Device /\ joined \subseteq joined' /\ joined' \subseteq Device
  BY <1>1 DEF Join, StopPolling, Exit, Ended, At, Alive
<1>3. where \in RunnerStage \ {"off"}
  BY <1>2 DEF RunnerStage
<1>4. QED
  BY <1>2, <1>3, SilenceKeeps

\* by the end of its pipe,
LEMMA ReleaseKeeps ==
  ASSUME IInv, NEW d \in Device, Release(d)
  PROVE  IInv'
BY DEF Release, hostVars, reportVars, readerVars, IInv, TypeOK, NothingIsLost, OneVerdict,
       DriveShowsLog, ReapedIsSilent, FullyHeard, BrokenStaysPut, HostInTurn, JudgedAsHeard,
       GreenIsEarned
-----------------------------------------------------------------------------
(* The readers. *)

\* A failing verdict stands against everything but a passing one.
LEMMA HeardFacts ==
  ASSUME NEW state \in [ready : BOOLEAN, done : BOOLEAN, passed : Mark], NEW line \in Line
  PROVE  /\ Heard(state, line) \in [ready : BOOLEAN, done : BOOLEAN, passed : Mark]
         /\ line = "fail" => Heard(state, line).passed = "fail"
         /\ line # "pass" /\ state.passed = "fail" => Heard(state, line).passed = "fail"
         /\ Heard(state, line).done => state.done \/ line \in {"declared", "pass", "fail"}
<1>1. CASE line = "ready"
  BY <1>1 DEF Heard, Mark
<1>2. CASE line \in {"pass", "fail"}
  BY <1>2 DEF Heard, Mark
<1>3. CASE line = "declared"
  BY <1>3 DEF Heard, Completed, Mark
<1>4. CASE line \notin {"ready", "pass", "fail", "declared"}
  <2>1. Heard(state, line) = state
    BY <1>4 DEF Heard
  <2>2. QED
    BY <1>4, <2>1
<1>5. QED
  BY <1>1, <1>2, <1>3, <1>4

\* by a reader that takes a line and notes what it says,
LEMMA ReadLineKeeps ==
  ASSUME IInv, NEW d \in Device, ReadLine(d)
  PROVE  IInv'
<1>1. PICK line \in Line, rest \in Seq(Line), after \in {"idle", "busy", "deaf"} :
        /\ line = Head(pipe[d]) /\ rest = Tail(pipe[d])
        /\ Lines(pipe[d]) = {line} \cup Lines(rest)
        /\ pipe' = [pipe EXCEPT ![d] = rest]
        /\ reader' = [reader EXCEPT ![d] = after]
        /\ log' = [log EXCEPT ![d] = IF line = Garbled THEN log[d] ELSE log[d] \cup {line}]
        /\ drive' = [drive EXCEPT ![d] = Heard(drive[d], line)]
        /\ line = Garbled => after = "deaf"
  <2>1. pipe[d] \in Seq(Line) /\ pipe[d] # <<>> /\ reader[d] = "idle"
    BY DEF ReadLine, IInv, TypeOK
  <2>2. /\ Head(pipe[d]) \in Line /\ Tail(pipe[d]) \in Seq(Line)
        /\ Lines(pipe[d]) = {Head(pipe[d])} \cup Lines(Tail(pipe[d]))
    BY <2>1, LinesOfTail
  <2> DEFINE after == CASE Head(pipe[d]) = Shot -> "busy"
                        [] Head(pipe[d]) = Garbled -> "deaf"
                        [] OTHER -> "idle"
  <2>3. /\ after \in {"idle", "busy", "deaf"}
        /\ Head(pipe[d]) = Garbled => after = "deaf"
    BY DEF Shot, Garbled
  <2>4. reader' = [reader EXCEPT ![d] = after]
    BY <2>1 DEF ReadLine, Shot, Garbled
  <2>5. QED
    BY <2>2, <2>3, <2>4 DEF ReadLine
<1>2. /\ UNCHANGED <<config, host, late, reaping, cut, outcome, verdicts, manifest, result,
                     runner, failed, open, printed, joined, pos>>
      /\ pipe[d] # <<>> /\ reader[d] = "idle"
  BY DEF ReadLine, hostVars, reportVars, runnerVars
<1>3. drive[d] \in [ready : BOOLEAN, done : BOOLEAN, passed : Mark]
  BY DEF IInv, TypeOK
<1>4. \A e \in Device : FullyHeard(e)' => FullyHeard(e) /\ (e < reaping => e # d)
  BY <1>1, <1>2 DEF FullyHeard, IInv, TypeOK, ReapedIsSilent
<1>5. TypeOK'
  BY <1>1, <1>2, <1>3, HeardFacts DEF IInv, TypeOK
<1>6. NothingIsLost'
  BY <1>1, <1>2 DEF IInv, TypeOK, NothingIsLost
<1>7. OneVerdict' /\ BrokenStaysPut' /\ HostInTurn'
  BY <1>2 DEF IInv, OneVerdict, BrokenStaysPut, HostInTurn
<1>8. DriveShowsLog'
  <2>1. line \in printed[d] /\ log[d] \subseteq printed[d]
    BY <1>1 DEF IInv, NothingIsLost
  <2>2. line = "pass" => "fail" \notin log[d]
    BY <2>1 DEF IInv, OneVerdict
  <2>3. "fail" \in log'[d] => Heard(drive[d], line).passed = "fail"
    BY <1>1, <1>3, <2>2, HeardFacts DEF IInv, TypeOK, DriveShowsLog
  <2>4. Heard(drive[d], line).done => log'[d] \cap {"declared", "pass", "fail"} # {}
    <3>1. log'[d] = IF line = Garbled THEN log[d] ELSE log[d] \cup {line}
      BY <1>1 DEF IInv, TypeOK
    <3>2. CASE drive[d].done
      BY <3>1, <3>2 DEF IInv, DriveShowsLog
    <3>3. CASE line \in {"declared", "pass", "fail"}
      BY <3>1, <3>3 DEF Garbled
    <3>4. QED
      BY <1>3, <3>2, <3>3, HeardFacts
  <2>5. QED
    BY <1>1, <2>3, <2>4 DEF IInv, TypeOK, DriveShowsLog
<1>9. ReapedIsSilent'
  BY <1>1, <1>2, <1>4 DEF IInv, TypeOK, ReapedIsSilent
<1>10. \A e \in Device : log[e] \subseteq log'[e]
  BY <1>1 DEF IInv, TypeOK
<1>11. JudgedAsHeard'
  <2>1. host \in Judged => \A e \in Device : e < reaping
    BY ConstantFacts DEF IInv, HostInTurn, Device
  <2>2. host \in Judged => \A e \in Device : FullyHeard(e)' => drive'[e] = drive[e]
    BY <1>1, <1>4, <2>1 DEF IInv, TypeOK
  <2>3. QED
    BY <1>2, <1>4, <1>10, <2>2 DEF IInv, JudgedAsHeard, Judged
<1>12. GreenIsEarned'
  BY <1>2, <1>4, <1>10 DEF IInv, GreenIsEarned
<1>13. QED
  BY <1>5, <1>6, <1>7, <1>8, <1>9, <1>11, <1>12 DEF IInv

\* by a screenshot that is answered,
LEMMA ShotTakenKeeps ==
  ASSUME IInv, NEW d \in Device, ShotTaken(d)
  PROVE  IInv'
<1>1. /\ UNCHANGED <<config, host, late, reaping, cut, outcome, verdicts, manifest, result,
                     runner, failed, open, printed, joined, pos, log, drive, pipe>>
      /\ reader[d] = "busy" /\ reader' = [reader EXCEPT ![d] = "idle"]
  BY DEF ShotTaken, hostVars, reportVars, runnerVars
<1>2. \A e \in Device : (FullyHeard(e)' <=> FullyHeard(e)) /\ (reader'[e] = "deaf" <=> reader[e] = "deaf")
  BY <1>1 DEF FullyHeard, IInv, TypeOK
<1>3. TypeOK' /\ NothingIsLost'
  BY <1>1, <1>2 DEF IInv, TypeOK, NothingIsLost
<1>4. OneVerdict' /\ DriveShowsLog' /\ BrokenStaysPut' /\ HostInTurn'
  BY <1>1 DEF IInv, OneVerdict, DriveShowsLog, BrokenStaysPut, HostInTurn
<1>5. ReapedIsSilent' /\ JudgedAsHeard' /\ GreenIsEarned'
  BY <1>1, <1>2 DEF IInv, ReapedIsSilent, JudgedAsHeard, GreenIsEarned
<1>6. QED
  BY <1>3, <1>4, <1>5 DEF IInv

-----------------------------------------------------------------------------
(* The host. *)

\* Waiting changes nothing that was heard.
LEMMA WaitKeeps ==
  ASSUME IInv, DeadlinePasses \/ StartWalk \/ EndWalk \/ EndGrace
  PROVE  IInv'
<1>1. /\ UNCHANGED <<config, reaping, cut, outcome, verdicts, manifest, result, failed, printed,
                     joined, pos, reader, log, drive, pipe, runner, open>>
      /\ host \in Waits /\ host' \in Waits \cup {"reap"} /\ late' \in BOOLEAN
      /\ host' = "first" => host = "first"
  BY DEF DeadlinePasses, StartWalk, EndWalk, EndGrace, HostGoes, Waits, hostVars, reportVars,
         runnerVars, readerVars, IInv, TypeOK
<1>2. TypeOK'
  BY <1>1 DEF IInv, TypeOK, Waits, HostStage
<1>3. NothingIsLost' /\ OneVerdict' /\ DriveShowsLog' /\ ReapedIsSilent' /\ BrokenStaysPut'
  BY <1>1
  DEF IInv, NothingIsLost, OneVerdict, DriveShowsLog, ReapedIsSilent, BrokenStaysPut, FullyHeard
<1>4. HostInTurn'
  BY <1>1 DEF IInv, HostInTurn, Waits, Judged
<1>5. JudgedAsHeard' /\ GreenIsEarned'
  BY <1>1 DEF IInv, HostInTurn, JudgedAsHeard, GreenIsEarned, Waits, Judged
<1>6. QED
  BY <1>2, <1>3, <1>4, <1>5 DEF IInv

\* by the launch of the devices that waited,
LEMMA LaunchKeeps ==
  ASSUME IInv, LaunchRest
  PROVE  IInv'
<1>1. /\ UNCHANGED <<config, late, reaping, cut, outcome, verdicts, manifest, result, failed,
                     printed, joined, pos, reader, log, drive, pipe>>
      /\ host = "first" /\ host' = "ready"
      /\ runner' = [d \in Device |-> IF d = 0 THEN runner[d] ELSE "starting"]
      /\ open' = open \cup (Device \ {0})
  BY DEF LaunchRest, HostGoes, reportVars, readerVars
<1>2. /\ \A d \in Device : d # 0 => runner[d] = "off"
      /\ reaping = 0 /\ outcome = "none" /\ result = "none"
  BY <1>1 DEF IInv, HostInTurn, Waits, Judged
<1>3. TypeOK'
  BY <1>1, ConstantFacts DEF IInv, TypeOK, HostStage, RunnerStage
<1>4. NothingIsLost' /\ DriveShowsLog' /\ ReapedIsSilent'
  BY <1>1, <1>2, ConstantFacts
  DEF IInv, NothingIsLost, DriveShowsLog, ReapedIsSilent, Device
<1>5. OneVerdict'
  BY <1>1, <1>2 DEF IInv, OneVerdict
<1>6. BrokenStaysPut'
  BY <1>1, <1>2 DEF IInv, TypeOK, BrokenStaysPut
<1>7. HostInTurn' /\ JudgedAsHeard' /\ GreenIsEarned'
  BY <1>1, <1>2 DEF HostInTurn, JudgedAsHeard, GreenIsEarned, Waits, Judged
<1>8. QED
  BY <1>3, <1>4, <1>5, <1>6, <1>7 DEF IInv

\* by a kill of a runner,
LEMMA KillKeeps ==
  ASSUME IInv, Kill
  PROVE  IInv'
<1>1. /\ reaping \in Device /\ Alive(reaping)
      /\ GoTo(reaping, "dead")
      /\ open' \subseteq Device /\ joined' = joined
      /\ UNCHANGED <<hostVars, readerVars, pipe, failed, printed, pos>>
  BY ConstantFacts DEF Kill, Ended, Device, IInv, TypeOK
<1>2. joined \subseteq Device /\ "dead" \in RunnerStage \ {"off"}
  BY DEF IInv, BrokenStaysPut, RunnerStage
<1>3. runner[reaping] \notin {"off", "dead"}
  BY <1>1 DEF Alive
<1>4. QED
  BY <1>1, <1>2, <1>3, SilenceKeeps
\* by the wait for its reader,
LEMMA DrainKeeps ==
  ASSUME IInv, Drain
  PROVE  IInv'
<1>1. reaping \in Device
  BY ConstantFacts DEF Drain, IInv, TypeOK, Device
<1>2. PICK k \in Device : k = reaping
  BY <1>1
<1>3. /\ UNCHANGED <<config, host, late, outcome, verdicts, manifest, result, runner, failed,
                     open, printed, joined, pos, reader, log, drive, pipe>>
      /\ host = "reap" /\ k < Launched /\ reaping' = k + 1
      /\ runner[k] = "dead"
      /\ \/ Exited(k) /\ cut' = cut
         \/ cut' = cut \cup {k}
  BY <1>2 DEF Drain, At, reportVars, runnerVars, readerVars
<1>4. TypeOK'
  <2>1. reaping' \in 0 .. Launched
    BY <1>3, ConstantFacts DEF Device
  <2>2. cut' \subseteq Device
    BY <1>3 DEF IInv, TypeOK
  <2>3. QED
    BY <1>3, <2>1, <2>2 DEF IInv, TypeOK
<1>5. NothingIsLost' /\ OneVerdict' /\ DriveShowsLog' /\ BrokenStaysPut' /\ HostInTurn'
  BY <1>3
  DEF IInv, NothingIsLost, OneVerdict, DriveShowsLog, BrokenStaysPut, HostInTurn, Waits, Judged
<1>6. ReapedIsSilent'
  <2>1. FullyHeard(k)' => pipe[k] = <<>>
    BY <1>3 DEF FullyHeard, Exited
  <2>2. ASSUME NEW d \in Device, d < reaping'
        PROVE  d < reaping \/ d = k
    BY <1>2, <1>3, <2>2, ConstantFacts DEF IInv, TypeOK, Device
  <2>3. \A d \in Device : FullyHeard(d)' => FullyHeard(d)
    BY <1>3 DEF FullyHeard
  <2>4. QED
    BY <1>3, <2>1, <2>2, <2>3 DEF IInv, ReapedIsSilent
<1>7. JudgedAsHeard' /\ GreenIsEarned'
  BY <1>3 DEF IInv, HostInTurn, JudgedAsHeard, GreenIsEarned, Judged
<1>8. QED
  BY <1>4, <1>5, <1>6, <1>7 DEF IInv

\* by the verdict over what the readers noted,
LEMMA JudgeKeeps ==
  ASSUME IInv, Judge
  PROVE  IInv'
<1>1. /\ UNCHANGED <<config, late, reaping, cut, manifest, result, runner, failed, open, printed,
                     joined, pos, reader, log, drive, pipe>>
      /\ host = "reap" /\ reaping = Launched /\ host' = "judged"
      /\ verdicts' = [d \in Device |-> drive[d].passed]
      /\ outcome' \in {"pass", "fail"}
      /\ outcome' = "pass" => (\A d \in Device : drive[d].passed # "fail") /\ ~Incomplete
  BY DEF Judge, runnerVars, readerVars
<1>2. TypeOK'
  BY <1>1 DEF IInv, TypeOK, HostStage, Mark
<1>3. NothingIsLost' /\ OneVerdict' /\ DriveShowsLog' /\ ReapedIsSilent' /\ BrokenStaysPut'
  BY <1>1
  DEF IInv, NothingIsLost, OneVerdict, DriveShowsLog, ReapedIsSilent, BrokenStaysPut, FullyHeard
<1>4. HostInTurn' /\ GreenIsEarned'
  BY <1>1 DEF IInv, HostInTurn, GreenIsEarned, Waits, Judged
<1>5. JudgedAsHeard'
  <2>1. outcome' = "pass" /\ config.declares =>
          \A d \in Device : drive[d].done /\ drive[d].passed # "fail"
    BY <1>1 DEF Incomplete
  <2>2. outcome' = "pass" /\ config.declares =>
          \A d \in Device : log[d] \cap {"declared", "pass"} # {}
    BY <2>1 DEF IInv, DriveShowsLog
  <2>3. QED
    BY <1>1, <2>2 DEF JudgedAsHeard, Judged
<1>6. QED
  BY <1>2, <1>3, <1>4, <1>5 DEF IInv

\* by the manifest, which comes after the verdict,
LEMMA ManifestKeeps ==
  ASSUME IInv, WriteManifest
  PROVE  IInv'
<1>1. /\ UNCHANGED <<config, late, reaping, cut, outcome, verdicts, result, runner, failed, open,
                     printed, joined, pos, reader, log, drive, pipe>>
      /\ host = "judged" /\ host' = "written"
      /\ manifest' = [d \in Device |-> drive[d].passed]
  BY DEF WriteManifest, runnerVars, readerVars
<1>2. TypeOK'
  BY <1>1 DEF IInv, TypeOK, HostStage, Mark
<1>3. NothingIsLost' /\ OneVerdict' /\ DriveShowsLog' /\ ReapedIsSilent' /\ BrokenStaysPut'
  BY <1>1
  DEF IInv, NothingIsLost, OneVerdict, DriveShowsLog, ReapedIsSilent, BrokenStaysPut, FullyHeard
<1>4. HostInTurn' /\ GreenIsEarned'
  BY <1>1 DEF IInv, HostInTurn, GreenIsEarned, Waits, Judged
<1>5. JudgedAsHeard'
  BY <1>1 DEF IInv, JudgedAsHeard, Judged, FullyHeard
<1>6. QED
  BY <1>2, <1>3, <1>4, <1>5 DEF IInv

\* Once a run is judged, a device that was fully heard has logged whatever it
\* printed, and a failing verdict among it has decided.
LEMMA HeardIsLogged ==
  ASSUME IInv, host \in Judged, NEW d \in Device, FullyHeard(d)
  PROVE  /\ printed[d] = log[d]
         /\ "fail" \in printed[d] =>
              /\ outcome # "pass"
              /\ host \in {"written", "ended"} => manifest[d] = "fail"
<1>1. pipe[d] = <<>> /\ reader[d] # "deaf"
  BY ConstantFacts DEF IInv, HostInTurn, ReapedIsSilent, Device, FullyHeard
<1>2. printed[d] = log[d]
  BY <1>1, LinesOfNone DEF IInv, NothingIsLost
<1>3. "fail" \in printed[d] => drive[d].passed = "fail"
  BY <1>2 DEF IInv, DriveShowsLog
<1>4. QED
  BY <1>2, <1>3 DEF IInv, JudgedAsHeard

\* and by the end of the run.
LEMMA ConcludeKeeps ==
  ASSUME IInv, Conclude
  PROVE  IInv'
<1>1. /\ UNCHANGED <<config, late, reaping, cut, outcome, verdicts, manifest, runner, failed,
                     open, printed, joined, pos, reader, log, drive, pipe>>
      /\ host = "written" /\ host' = "ended" /\ result' = ScenarioVerdict
  BY DEF Conclude, runnerVars, readerVars
<1>2. TypeOK'
  BY <1>1 DEF IInv, TypeOK, HostStage, ScenarioVerdict, ClassifyRun
<1>3. NothingIsLost' /\ OneVerdict' /\ DriveShowsLog' /\ ReapedIsSilent' /\ BrokenStaysPut'
  BY <1>1
  DEF IInv, NothingIsLost, OneVerdict, DriveShowsLog, ReapedIsSilent, BrokenStaysPut, FullyHeard
<1>4. HostInTurn'
  BY <1>1 DEF IInv, HostInTurn, Waits, Judged
<1>5. JudgedAsHeard'
  BY <1>1 DEF IInv, JudgedAsHeard, Judged, FullyHeard
<1>6. GreenIsEarned'
  <2>1. SUFFICES ASSUME ScenarioVerdict = "Green" PROVE GreenIsEarned'
    BY <1>1 DEF GreenIsEarned
  <2>2. /\ outcome = "pass" /\ ~(pos < Steps)
        /\ ~Logged("breach") /\ ~Logged("exception") /\ ~Logged("miss")
    BY <2>1 DEF ScenarioVerdict, ClassifyRun
  <2>3. joined = Actor /\ pos = Steps /\ failed = {}
    BY <2>2, ConstantFacts DEF IInv, TypeOK, BrokenStaysPut
  <2>4. ASSUME NEW d \in Device, FullyHeard(d)
        PROVE  printed[d] \cap {"exception", "miss", "breach", "fail"} = {}
    BY <1>1, <2>2, <2>4, HeardIsLogged DEF Judged, Logged
  <2>5. config.declares => \A d \in Device : log[d] \cap {"declared", "pass"} # {}
    BY <2>2 DEF IInv, JudgedAsHeard
  <2>6. QED
    BY <1>1, <2>3, <2>4, <2>5 DEF GreenIsEarned, FullyHeard
<1>7. QED
  BY <1>2, <1>3, <1>4, <1>5, <1>6 DEF IInv

\* So every step keeps it.
LEMMA NextKeeps == IInv /\ [Next]_vars => IInv'
<1>1. ASSUME IInv, Next PROVE IInv'
  <2>1. ASSUME NEW d \in Device,
               \/ Claim(d) \/ Join(d) \/ Perform(d) \/ BreakOff(d) \/ StopPolling(d)
               \/ Declare(d) \/ Report(d) \/ Exit(d) \/ Release(d)
               \/ ReadLine(d) \/ ShotTaken(d)
        PROVE  IInv'
    BY <1>1, <2>1, ClaimKeeps, ActionKeeps, QuietKeeps, ReleaseKeeps, ReadLineKeeps,
       ShotTakenKeeps
  <2>2. CASE \/ DeadlinePasses \/ LaunchRest \/ StartWalk \/ EndWalk \/ EndGrace \/ Kill
             \/ Drain \/ Judge \/ WriteManifest \/ Conclude
    BY <1>1, <2>2, WaitKeeps, LaunchKeeps, KillKeeps, DrainKeeps, JudgeKeeps, ManifestKeeps,
       ConcludeKeeps
  <2>3. QED
    BY <1>1, <2>1, <2>2 DEF Next
<1>2. ASSUME IInv, UNCHANGED vars PROVE IInv'
  BY <1>2
  DEF vars, hostVars, reportVars, runnerVars, readerVars, IInv, TypeOK, NothingIsLost, OneVerdict,
      DriveShowsLog, ReapedIsSilent, BrokenStaysPut, HostInTurn, JudgedAsHeard, GreenIsEarned,
      FullyHeard
<1>3. QED
  BY <1>1, <1>2

-----------------------------------------------------------------------------
(* The theorems. *)

\* The inductive invariant of a run holds for ever.
THEOREM RunInvariant == Spec => []IInv
BY InvInit, NextKeeps, PTL DEF Spec

\* Every variable keeps its type, whatever the runners print and when they end.
THEOREM RunTypes == Spec => []TypeOK
<1>1. IInv => TypeOK
  BY DEF IInv
<1>2. QED
  BY <1>1, RunInvariant, PTL

\* A green run played its whole script and hides nothing that could be heard.
THEOREM GreenStaysEarned == Spec => []GreenIsEarned
<1>1. IInv => GreenIsEarned
  BY DEF IInv
<1>2. QED
  BY <1>1, RunInvariant, PTL

\* A failing verdict that was printed before its runner was killed fails the run
\* and is in the manifest.
THEOREM FailureStaysHeard == Spec => []FailureIsHeard
<1>1. IInv => FailureIsHeard
  BY HeardIsLogged DEF IInv, HostInTurn, FailureIsHeard, Judged
<1>2. QED
  BY <1>1, RunInvariant, PTL

\* The manifest shows the verdicts the run was judged by.
THEOREM ManifestStaysTrue == Spec => []ManifestAgrees
<1>1. IInv => ManifestAgrees
  BY DEF IInv, JudgedAsHeard, ManifestAgrees, Judged
<1>2. QED
  BY <1>1, RunInvariant, PTL

\* A journey that names more actors than there are device letters is never
\* green: the actor that is not launched never joins (orchestrator.rs clamps the
\* number of devices, the conductor waits for every actor).
THEOREM ClampedIsNeverGreen == Actors > MaxDevices => (Spec => [](result # "Green"))
<1> SUFFICES ASSUME Actors > MaxDevices PROVE Spec => [](result # "Green")
  OBVIOUS
<1>1. Actor # Device
  BY JourneyAssumption DEF Actor, Device, Launched
<1>2. IInv => result # "Green"
  BY <1>1, ConstantFacts DEF IInv, BrokenStaysPut, GreenIsEarned
<1>3. QED
  BY <1>2, RunInvariant, PTL
=============================================================================
