-------------------------- MODULE ShellCommandProof --------------------------
(***************************************************************************)
(* Whatever the commands do and however many run at once, popen3 loses no  *)
(* output, kills nothing early, and leaves nothing of what it killed.      *)
(*                                                                         *)
(* The argument: once no process has the write end of a stream nobody will *)
(* have it again, since a child only inherits what this process or its     *)
(* parent has (HungUpStays); so what poll reported as hung up still is     *)
(* (Reported), and after the last reads nothing can be written any more    *)
(* (Whole).  The time a decision is based on is never ahead of the clock   *)
(* (Timely), and a shell that ended or was killed forks no more (Dead).    *)
(***************************************************************************)
EXTENDS ShellCommand, TLAPS

Loop == {"measure", "poll", "out", "err", "decide"}

\* Where popen3 stands says which pipes are open and whether something failed.
Staged ==
  \A c \in Commands :
    /\ pc[c] = "spawn" => open[c] = Ends
    /\ \A s \in Outputs : <<s, "w">> \in open[c] =>
         pc[c] \in {"spawn", "close"} \/ (failed[c] /\ pc[c] = "done")
    /\ failed[c] => pc[c] \in {"kill", "wait", "done"}
    /\ failed[c] /\ pc[c] = "wait" => killed[c]

Reported ==
  \A c \in Commands, s \in Outputs : "hup" \in revents[c][s] =>
    pc[c] \notin {"start", "spawn", "close"} /\ HungUp(c, s)

Conserved ==
  \A c \in Commands, s \in Outputs : pipe[c][s] + got[c][s] = written[c][s]

Whole ==
  \A c \in Commands :
    pc[c] \in {"wait", "done"} /\ ~failed[c] /\ ~killed[c] =>
      \A s \in Outputs : HungUp(c, s) /\ pipe[c][s] = 0

Timely ==
  \A c \in Commands :
    /\ pc[c] \in {"poll", "out", "err", "decide"} => elapsed[c] <= clock[c]
    /\ pc[c] = "kill" /\ ~failed[c] => clock[c] = Timeout
    /\ killed[c] => pc[c] \in {"wait", "done"}
    /\ killed[c] /\ ~failed[c] => clock[c] = Timeout

Dead ==
  \A c \in Commands : killed[c] /\ c \notin Stubborn =>
    pc[c] \in {"wait", "done"} /\ \A p \in Group(c) : ~Running(p)

\* A shell that closes no stream holds the write ends of both.
Holding ==
  \A c \in Commands \ Silent : Running(Sh(c)) =>
    \A s \in Outputs : <<c, s>> \in holds[Sh(c)]

Inv ==
  /\ TypeOK /\ Staged /\ Reported /\ Conserved /\ Whole /\ Timely /\ Dead
  /\ Holding

-----------------------------------------------------------------------------

LEMMA Initially == Init => Inv
<1> SUFFICES ASSUME Init PROVE Inv
  OBVIOUS
<1> USE BoundsAssumption DEF Init, Quiet, Outputs
<1>1. TypeOK
  BY DEF TypeOK, Labels, Ends, Pipes
<1>2. Staged /\ Conserved /\ Timely /\ Dead
  BY DEF Staged, Conserved, Timely, Dead
<1>3. Reported /\ Whole
  BY DEF Reported, Whole
<1>4. Holding
  BY DEF Holding, Running, Sh, Procs
<1> QED  BY <1>1, <1>2, <1>3, <1>4 DEF Inv

LEMMA Processes ==
  ASSUME NEW c \in Commands
  PROVE  Sh(c) \in Procs /\ <<c, "bg">> \in Procs /\ Group(c) \subseteq Procs
  BY DEF Sh, Procs, Group

LEMMA Typed == TypeOK /\ [Next]_vars => TypeOK'
<1> SUFFICES ASSUME TypeOK, [Next]_vars PROVE TypeOK'
  OBVIOUS
<1> USE BoundsAssumption, Processes
        DEF TypeOK, Labels, Goto, procs, mine, Leave, Quiet, Outputs
<1>1. ASSUME NEW c \in Commands, OpenPipes(c) PROVE TypeOK'
  BY <1>1 DEF OpenPipes
<1>2. ASSUME NEW c \in Commands, OpenPipesFails(c) PROVE TypeOK'
  <2>1. open' \in [Commands -> SUBSET Ends]
    BY <1>2 DEF OpenPipesFails, Ends, Pipes
  <2> QED  BY <1>2, <2>1 DEF OpenPipesFails
<1>3. ASSUME NEW c \in Commands, Spawn(c) PROVE TypeOK'
  <2>1. holds' \in [Procs -> SUBSET (Commands \X {"out", "err"})]
    BY <1>3 DEF Spawn
  <2>2. alive' \in [Procs -> {"none", "running", "ended", "terminated"}]
    BY <1>3 DEF Spawn
  <2> QED  BY <1>3, <2>1, <2>2 DEF Spawn
<1>4. ASSUME NEW c \in Commands, SpawnFails(c) PROVE TypeOK'
  BY <1>4 DEF SpawnFails
<1>5. ASSUME NEW c \in Commands, CloseUnused(c) PROVE TypeOK'
  BY <1>5 DEF CloseUnused
<1>6. ASSUME NEW c \in Commands, Measure(c) PROVE TypeOK'
  BY <1>6 DEF Measure
<1>7. ASSUME NEW c \in Commands, Poll(c) PROVE TypeOK'
  <2>1. revents' \in [Commands -> [Outputs -> SUBSET {"in", "hup"}]]
    BY <1>7 DEF Poll
  <2> QED  BY <1>7, <2>1 DEF Poll
<1>8. ASSUME NEW c \in Commands, LoopFails(c) PROVE TypeOK'
  BY <1>8 DEF LoopFails
<1>9. ASSUME NEW c \in Commands, Read(c) PROVE TypeOK'
  <2> DEFINE s == pc[c]
             Counted == /\ got' \in [Commands -> [Outputs -> Nat]]
                        /\ pipe' \in [Commands -> [Outputs -> Nat]]
  <2>1. s \in Outputs /\ pipe[c][s] \in Nat /\ got[c][s] \in Nat
    BY <1>9 DEF Read
  <2>2. ASSUME "in" \in revents[c][s] PROVE Counted
    <3>1. PICK n \in 1 .. pipe[c][s] :
            /\ got'  = [got EXCEPT ![c][s] = @ + n]
            /\ pipe' = [pipe EXCEPT ![c][s] = @ - n]
      BY <1>9, <2>2 DEF Read
    <3>2. got[c][s] + n \in Nat /\ pipe[c][s] - n \in Nat
      BY <2>1
    <3>3. [got[c] EXCEPT ![s] = @ + n] \in [Outputs -> Nat]
          /\ [pipe[c] EXCEPT ![s] = @ - n] \in [Outputs -> Nat]
      BY <3>2
    <3>4. /\ got' = [got EXCEPT ![c] = [got[c] EXCEPT ![s] = @ + n]]
          /\ pipe' = [pipe EXCEPT ![c] = [pipe[c] EXCEPT ![s] = @ - n]]
      BY <3>1
    <3> HIDE DEF s
    <3> QED  BY <3>3, <3>4
  <2>3. ASSUME "in" \notin revents[c][s] PROVE Counted
    BY <1>9, <2>3 DEF Read
  <2> QED  BY <1>9, <2>2, <2>3 DEF Read
<1>10. ASSUME NEW c \in Commands, Drain(c) PROVE TypeOK'
  <2>1. got' \in [Commands -> [Outputs -> Nat]]
    BY <1>10 DEF Drain
  <2> QED  BY <1>10, <2>1 DEF Drain
<1>11. ASSUME NEW c \in Commands, Again(c) \/ GiveUp(c) PROVE TypeOK'
  <2>1. CASE Again(c)
    BY <2>1 DEF Again
  <2>2. CASE GiveUp(c)
    BY <2>2 DEF GiveUp
  <2> QED  BY <1>11, <2>1, <2>2
<1>12. ASSUME NEW c \in Commands, Kill(c) PROVE TypeOK'
  BY <1>12 DEF Kill
<1>13. ASSUME NEW c \in Commands, Wait(c) PROVE TypeOK'
  BY <1>13 DEF Wait
<1>14. ASSUME NEW c \in Commands, Fork(c) PROVE TypeOK'
  BY <1>14 DEF Fork
<1>15. ASSUME NEW p \in Procs, Exit(p) PROVE TypeOK'
  BY <1>15 DEF Exit
<1>16. ASSUME NEW c \in Commands, NEW s \in Outputs, CloseOutput(c, s)
       PROVE  TypeOK'
  <2>1. holds' \in [Procs -> SUBSET (Commands \X {"out", "err"})]
    BY <1>16 DEF CloseOutput
  <2> QED  BY <1>16, <2>1 DEF CloseOutput
<1>17. ASSUME NEW p \in Procs, NEW s \in Outputs, Write(p, s) PROVE TypeOK'
  <2>1. p[1] \in Commands
    BY DEF Procs
  <2> QED  BY <1>17, <2>1 DEF Write
<1>18. CASE Tick
  <2>1. clock' \in [Commands -> 0 .. Timeout]
    BY <1>18 DEF Tick
  <2> QED  BY <1>18, <2>1 DEF Tick
<1>19. CASE Done \/ UNCHANGED vars
  BY <1>19 DEF Done, vars
<1> HIDE DEF TypeOK, Labels, Goto, procs, mine, Leave, Quiet, Outputs
<1> QED
  BY <1>1, <1>2, <1>3, <1>4, <1>5, <1>6, <1>7, <1>8, <1>9, <1>10, <1>11, <1>12,
     <1>13, <1>14, <1>15, <1>16, <1>17, <1>18, <1>19 DEF Next, Popen3

-----------------------------------------------------------------------------
(* Streams that have hung up.                                                *)

LEMMA HungUpStays ==
  ASSUME TypeOK, [Next]_vars,
         NEW c \in Commands, NEW s \in Outputs, HungUp(c, s), pc[c] # "start"
  PROVE  HungUp(c, s)'
<1>1. /\ <<s, "w">> \notin open[c]
      /\ \A p \in Procs : Running(p) => <<c, s>> \notin holds[p]
  BY DEF HungUp
<1>2. ASSUME UNCHANGED holds,
             open'[c] \subseteq open[c],
             \A p \in Procs : Running(p)' => Running(p)
      PROVE  HungUp(c, s)'
  BY <1>1, <1>2 DEF HungUp
<1> USE Processes DEF TypeOK, Running, Goto, mine, procs, Leave
<1>3. ASSUME NEW d \in Commands, OpenPipes(d) \/ OpenPipesFails(d)
      PROVE  HungUp(c, s)'
  <2>1. d # c
    BY <1>3 DEF OpenPipes, OpenPipesFails
  <2> QED  BY <1>2, <1>3, <2>1 DEF OpenPipes, OpenPipesFails
<1>4. ASSUME NEW d \in Commands, Spawn(d) PROVE HungUp(c, s)'
  <2>1. <<c, s>> \notin holds'[Sh(d)]
    BY <1>1, <1>4 DEF Spawn
  <2>2. \A p \in Procs : p # Sh(d) =>
          holds'[p] = holds[p] /\ alive'[p] = alive[p]
    BY <1>4 DEF Spawn
  <2> QED  BY <1>1, <1>4, <2>1, <2>2 DEF HungUp, Spawn
<1>5. ASSUME NEW d \in Commands,
             SpawnFails(d) \/ CloseUnused(d) \/ Wait(d)
      PROVE  HungUp(c, s)'
  <2>1. open'[c] \subseteq open[c]
    <3>1. CASE SpawnFails(d)
      BY <3>1 DEF SpawnFails
    <3>2. CASE CloseUnused(d)
      BY <3>2 DEF CloseUnused
    <3>3. CASE Wait(d)
      BY <3>3 DEF Wait
    <3> QED  BY <1>5, <3>1, <3>2, <3>3
  <2> QED  BY <1>2, <1>5, <2>1 DEF SpawnFails, CloseUnused, Wait
<1>6. ASSUME NEW d \in Commands,
             Measure(d) \/ Poll(d) \/ LoopFails(d) \/ Read(d)
      PROVE  HungUp(c, s)'
  BY <1>2, <1>6 DEF Measure, Poll, LoopFails, Read
<1>7. ASSUME NEW d \in Commands, Drain(d) \/ Again(d) \/ GiveUp(d)
      PROVE  HungUp(c, s)'
  BY <1>2, <1>7 DEF Drain, Again, GiveUp
<1>8. ASSUME NEW d \in Commands, Kill(d) PROVE HungUp(c, s)'
  BY <1>2, <1>8 DEF Kill
<1>9. ASSUME NEW d \in Commands, Fork(d) PROVE HungUp(c, s)'
  <2>1. <<c, s>> \notin holds'[<<d, "bg">>]
    BY <1>1, <1>9 DEF Fork
  <2>2. \A p \in Procs : p # <<d, "bg">> =>
          holds'[p] = holds[p] /\ alive'[p] = alive[p]
    BY <1>9 DEF Fork
  <2> QED  BY <1>1, <1>9, <2>1, <2>2 DEF HungUp, Fork
<1>10. ASSUME NEW p \in Procs, Exit(p) PROVE HungUp(c, s)'
  BY <1>2, <1>10 DEF Exit
<1>11. ASSUME NEW d \in Commands, NEW t \in Outputs, CloseOutput(d, t)
       PROVE  HungUp(c, s)'
  <2>1. \A p \in Procs : holds'[p] \subseteq holds[p]
    BY <1>11 DEF CloseOutput
  <2> QED  BY <1>1, <1>11, <2>1 DEF CloseOutput, HungUp
<1>12. ASSUME NEW p \in Procs, NEW t \in Outputs, Write(p, t)
       PROVE  HungUp(c, s)'
  BY <1>2, <1>12 DEF Write
<1>13. CASE Tick \/ Done \/ UNCHANGED vars
  BY <1>2, <1>13 DEF Tick, Done, vars
<1> HIDE DEF TypeOK, Running, Goto, mine, procs, Leave
<1> QED
  BY <1>3, <1>4, <1>5, <1>6, <1>7, <1>8, <1>9, <1>10, <1>11, <1>12, <1>13
     DEF Next, Popen3

LEMMA StagedKept == TypeOK /\ Staged /\ [Next]_vars => Staged'
<1> SUFFICES ASSUME TypeOK, Staged, [Next]_vars PROVE Staged'
  OBVIOUS
<1>1. ASSUME UNCHANGED <<pc, open, failed, killed>> PROVE Staged'
  BY <1>1 DEF Staged
<1> USE DEF TypeOK, Staged, Goto, mine, procs, Leave
<1>2. ASSUME NEW c \in Commands,
             OpenPipes(c) \/ OpenPipesFails(c) \/ Spawn(c) \/ SpawnFails(c)
      PROVE  Staged'
  <2>1. CASE OpenPipes(c)
    BY <2>1 DEF OpenPipes
  <2>2. CASE OpenPipesFails(c)
    BY <2>2 DEF OpenPipesFails
  <2>3. CASE Spawn(c)
    BY <2>3 DEF Spawn
  <2>4. CASE SpawnFails(c)
    BY <2>4 DEF SpawnFails
  <2> QED  BY <1>2, <2>1, <2>2, <2>3, <2>4
<1>3. ASSUME NEW c \in Commands, CloseUnused(c) PROVE Staged'
  <2>1. \A s \in Outputs : <<s, "w">> \notin open'[c]
    BY <1>3 DEF CloseUnused, Outputs
  <2> QED  BY <1>3, <2>1 DEF CloseUnused
<1>4. ASSUME NEW c \in Commands,
             Measure(c) \/ Poll(c) \/ LoopFails(c) \/ Read(c)
      PROVE  Staged'
  <2>1. CASE Measure(c)
    BY <2>1 DEF Measure
  <2>2. CASE Poll(c)
    BY <2>2 DEF Poll
  <2>3. CASE LoopFails(c)
    BY <2>3 DEF LoopFails, Outputs
  <2>4. CASE Read(c)
    BY <2>4 DEF Read, Outputs
  <2> QED  BY <1>4, <2>1, <2>2, <2>3, <2>4
<1>5. ASSUME NEW c \in Commands, Drain(c) \/ Again(c) \/ GiveUp(c)
      PROVE  Staged'
  <2>1. CASE Drain(c)
    BY <2>1 DEF Drain
  <2>2. CASE Again(c)
    BY <2>2 DEF Again
  <2>3. CASE GiveUp(c)
    BY <2>3 DEF GiveUp
  <2> QED  BY <1>5, <2>1, <2>2, <2>3
<1>6. ASSUME NEW c \in Commands, Kill(c) PROVE Staged'
  BY <1>6 DEF Kill
<1>7. ASSUME NEW c \in Commands, Wait(c) PROVE Staged'
  BY <1>7 DEF Wait
<1>8. CASE \/ \E c \in Commands : Fork(c)
           \/ \E p \in Procs : Exit(p)
           \/ \E s \in Outputs : \/ \E c \in Commands : CloseOutput(c, s)
                                  \/ \E p \in Procs : Write(p, s)
  BY <1>1, <1>8 DEF Fork, Exit, CloseOutput, Write
<1>9. CASE Tick \/ Done \/ UNCHANGED vars
  BY <1>1, <1>9 DEF Tick, Done, vars
<1> HIDE DEF TypeOK, Staged, Goto, mine, procs, Leave
<1> QED
  BY <1>2, <1>3, <1>4, <1>5, <1>6, <1>7, <1>8, <1>9
     DEF Next, Popen3

-----------------------------------------------------------------------------
(* What a step does to one command.                                          *)

Same(c) ==
  /\ pc'[c] = pc[c] /\ open'[c] = open[c] /\ elapsed'[c] = elapsed[c]
  /\ revents'[c] = revents[c] /\ got'[c] = got[c]
  /\ failed'[c] = failed[c] /\ killed'[c] = killed[c]

\* Only its own popen3 changes what belongs to it.
LEMMA OneMoves ==
  ASSUME TypeOK, [Next]_vars, NEW c \in Commands, ~Popen3(c)
  PROVE  Same(c)
<1>1. ASSUME UNCHANGED mine PROVE Same(c)
  BY <1>1 DEF mine, Same
<1> USE DEF TypeOK, Same, Goto, mine, procs, Leave
<1>2. ASSUME NEW d \in Commands \ {c}, OpenPipes(d) \/ OpenPipesFails(d)
      PROVE  Same(c)
  BY <1>2 DEF OpenPipes, OpenPipesFails
<1>3. ASSUME NEW d \in Commands \ {c}, Spawn(d) \/ SpawnFails(d)
      PROVE  Same(c)
  BY <1>3 DEF Spawn, SpawnFails
<1>4. ASSUME NEW d \in Commands \ {c}, CloseUnused(d) \/ Measure(d)
      PROVE  Same(c)
  BY <1>4 DEF CloseUnused, Measure
<1>5. ASSUME NEW d \in Commands \ {c}, Poll(d) PROVE Same(c)
  BY <1>5 DEF Poll
<1>6. ASSUME NEW d \in Commands \ {c}, LoopFails(d) PROVE Same(c)
  <2>1. /\ pc' = [pc EXCEPT ![d] = "kill"]
        /\ failed' = [failed EXCEPT ![d] = TRUE]
    BY <1>6 DEF LoopFails
  <2>2. UNCHANGED <<open, elapsed, revents, got, killed>>
    BY <1>6 DEF LoopFails
  <2>3. d # c /\ pc \in [Commands -> Labels]
        /\ failed \in [Commands -> BOOLEAN]
    OBVIOUS
  <2> HIDE DEF TypeOK, Same, Goto, mine, procs, Leave
  <2>4. pc'[c] = pc[c]
    BY <2>1, <2>3
  <2>5. failed'[c] = failed[c]
    BY <2>1, <2>3
  <2> QED  BY <2>2, <2>4, <2>5 DEF Same
<1>7. ASSUME NEW d \in Commands \ {c}, Read(d) PROVE Same(c)
  BY <1>7 DEF Read
<1>8. ASSUME NEW d \in Commands \ {c}, Drain(d) \/ Again(d) \/ GiveUp(d)
      PROVE  Same(c)
  BY <1>8 DEF Drain, Again, GiveUp
<1>9. ASSUME NEW d \in Commands \ {c}, Kill(d) \/ Wait(d) PROVE Same(c)
  BY <1>9 DEF Kill, Wait
<1>10. CASE \/ \E d \in Commands : Fork(d)
            \/ \E p \in Procs : Exit(p)
            \/ \E s \in Outputs : \/ \E d \in Commands : CloseOutput(d, s)
                                   \/ \E p \in Procs : Write(p, s)
            \/ Tick \/ Done \/ UNCHANGED vars
  <2> HIDE DEF TypeOK, Same, Goto, mine, procs, Leave
  <2>1. UNCHANGED mine
    BY <1>10 DEF Fork, Exit, CloseOutput, Write, Tick, Done, vars
  <2> QED  BY <1>1, <2>1
<1> HIDE DEF TypeOK, Same, Goto, mine, procs, Leave
<1> QED
  BY <1>2, <1>3, <1>4, <1>5, <1>6, <1>7, <1>8, <1>9, <1>10 DEF Next, Popen3

\* popen3 does not go back to where it started, nor to a decision it has made.
LEMMA NeverBack ==
  ASSUME TypeOK, [Next]_vars, NEW c \in Commands
  PROVE  /\ pc[c] \notin {"start", "spawn", "close"} =>
              pc'[c] \notin {"start", "spawn", "close"}
         /\ failed[c] => failed'[c]
         /\ killed[c] => killed'[c]
         /\ killed'[c] => killed[c] \/ Kill(c)
<1> USE DEF TypeOK, Goto, Leave, Outputs
<1>1. CASE ~Popen3(c)
  BY <1>1, OneMoves DEF Same
<1>2. CASE OpenPipes(c) \/ OpenPipesFails(c)
  BY <1>2 DEF OpenPipes, OpenPipesFails
<1>3. CASE Spawn(c) \/ SpawnFails(c)
  BY <1>3 DEF Spawn, SpawnFails
<1>4. CASE CloseUnused(c) \/ Measure(c)
  BY <1>4 DEF CloseUnused, Measure
<1>5. CASE Poll(c) \/ LoopFails(c) \/ Read(c)
  BY <1>5 DEF Poll, LoopFails, Read
<1>6. CASE Drain(c) \/ Again(c) \/ GiveUp(c)
  BY <1>6 DEF Drain, Again, GiveUp
<1>7. CASE Kill(c) \/ Wait(c)
  BY <1>7 DEF Kill, Wait
<1> QED  BY <1>1, <1>2, <1>3, <1>4, <1>5, <1>6, <1>7 DEF Popen3

LEMMA ReportedKept == TypeOK /\ Reported /\ [Next]_vars => Reported'
<1> SUFFICES ASSUME TypeOK, Reported, [Next]_vars,
                    NEW c \in Commands, NEW s \in Outputs,
                    "hup" \in revents'[c][s]
             PROVE  /\ pc'[c] \notin {"start", "spawn", "close"}
                    /\ HungUp(c, s)'
  BY DEF Reported
<1>1. "hup" \in revents[c][s] \/ (pc[c] = "poll" /\ HungUp(c, s))
  <2> USE DEF TypeOK, Leave, Quiet
  <2>1. CASE ~Popen3(c)
    BY <2>1, OneMoves DEF Same
  <2>2. CASE Poll(c)
    BY <2>2 DEF Poll
  <2>3. CASE OpenPipes(c) \/ OpenPipesFails(c) \/ Spawn(c) \/ SpawnFails(c)
    BY <2>3 DEF OpenPipes, OpenPipesFails, Spawn, SpawnFails
  <2>4. CASE CloseUnused(c) \/ Measure(c) \/ LoopFails(c) \/ Read(c)
    BY <2>4 DEF CloseUnused, Measure, LoopFails, Read
  <2>5. CASE Drain(c) \/ Again(c) \/ GiveUp(c)
    BY <2>5 DEF Drain, Again, GiveUp
  <2>6. CASE Kill(c) \/ Wait(c)
    BY <2>6 DEF Kill, Wait
  <2> QED  BY <2>1, <2>2, <2>3, <2>4, <2>5, <2>6 DEF Popen3
<1>2. pc[c] \notin {"start", "spawn", "close"} /\ HungUp(c, s)
  BY <1>1 DEF Reported
<1> QED  BY <1>2, HungUpStays, NeverBack

-----------------------------------------------------------------------------
(* Output.                                                                   *)

LEMMA ConservedKept == TypeOK /\ Conserved /\ [Next]_vars => Conserved'
<1> SUFFICES ASSUME TypeOK, Conserved, [Next]_vars PROVE Conserved'
  OBVIOUS
<1>1. ASSUME UNCHANGED <<got, pipe, written>> PROVE Conserved'
  BY <1>1 DEF Conserved
<1> USE DEF TypeOK, Conserved, procs, Leave, mine
<1>2. ASSUME NEW c \in Commands, Read(c) PROVE Conserved'
  <2> DEFINE s == pc[c]
  <2>1. s \in Outputs /\ written' = written
    BY <1>2 DEF Read
  <2>2. CASE "in" \in revents[c][s]
    <3>1. PICK n \in 1 .. pipe[c][s] :
            /\ got'  = [got EXCEPT ![c][s] = @ + n]
            /\ pipe' = [pipe EXCEPT ![c][s] = @ - n]
      BY <1>2, <2>2 DEF Read
    <3> HIDE DEF s
    <3> QED  BY <2>1, <3>1
  <2>3. CASE "in" \notin revents[c][s]
    BY <1>1, <1>2, <2>1, <2>3 DEF Read
  <2> QED  BY <2>2, <2>3
<1>3. ASSUME NEW c \in Commands, Drain(c) PROVE Conserved'
  BY <1>3 DEF Drain
<1>4. ASSUME NEW p \in Procs, NEW s \in Outputs, Write(p, s) PROVE Conserved'
  <2>1. p[1] \in Commands
    BY DEF Procs
  <2> QED  BY <1>4, <2>1 DEF Write
<1>5. ASSUME NEW c \in Commands, ~Read(c), ~Drain(c), Popen3(c) \/ Fork(c)
      PROVE  Conserved'
  BY <1>1, <1>5
     DEF Popen3, OpenPipes, OpenPipesFails, Spawn, SpawnFails, CloseUnused,
         Measure, Poll, LoopFails, Again, GiveUp, Kill, Wait, Fork
<1>6. CASE \/ \E p \in Procs : Exit(p)
           \/ \E s \in Outputs, c \in Commands : CloseOutput(c, s)
           \/ Tick \/ Done \/ UNCHANGED vars
  BY <1>1, <1>6 DEF Exit, CloseOutput, Tick, Done, vars
<1> HIDE DEF TypeOK, Conserved, procs, Leave, mine
<1> QED  BY <1>2, <1>3, <1>4, <1>5, <1>6 DEF Next

\* A decision to leave the loop for good with everything read is taken once.
LEMMA WholeKept ==
  TypeOK /\ Reported /\ Whole /\ [Next]_vars => Whole'
<1> SUFFICES ASSUME TypeOK, Reported, Whole, [Next]_vars,
                    NEW c \in Commands,
                    pc'[c] \in {"wait", "done"}, ~failed'[c], ~killed'[c],
                    NEW s \in Outputs
             PROVE  HungUp(c, s)' /\ pipe'[c][s] = 0
  BY DEF Whole
<1>1. CASE Drain(c)
  <2>1. "hup" \in revents[c][s]
    BY <1>1 DEF Drain, BothHungUp
  <2>2. HungUp(c, s)'
    BY <2>1, HungUpStays DEF Reported
  <2>3. pipe'[c][s] = 0
    BY <1>1 DEF Drain, TypeOK
  <2> QED  BY <2>2, <2>3
<1>2. CASE ~Drain(c)
  <2>1. pc[c] \in {"wait", "done"} /\ ~failed[c] /\ ~killed[c]
    <3> USE DEF TypeOK, Goto, Leave
    <3>1. CASE ~Popen3(c)
      BY <3>1, OneMoves DEF Same
    <3>2. CASE OpenPipes(c) \/ OpenPipesFails(c) \/ Spawn(c) \/ SpawnFails(c)
      BY <3>2 DEF OpenPipes, OpenPipesFails, Spawn, SpawnFails
    <3>3. CASE CloseUnused(c) \/ Measure(c) \/ Poll(c) \/ LoopFails(c)
      BY <3>3 DEF CloseUnused, Measure, Poll, LoopFails
    <3>4. CASE Read(c) \/ Again(c) \/ GiveUp(c)
      BY <3>4 DEF Read, Again, GiveUp
    <3>5. CASE Kill(c) \/ Wait(c)
      BY <3>5 DEF Kill, Wait
    <3> QED  BY <1>2, <3>1, <3>2, <3>3, <3>4, <3>5 DEF Popen3
  <2>2. HungUp(c, s) /\ pipe[c][s] = 0
    BY <2>1 DEF Whole
  <2>3. HungUp(c, s)'
    BY <2>1, <2>2, HungUpStays
  <2>4. pipe'[c][s] = pipe[c][s]
    <3> USE DEF TypeOK, procs, mine, Leave
    <3>1. CASE UNCHANGED pipe
      BY <3>1
    <3>2. ASSUME NEW d \in Commands, Read(d) PROVE pipe'[c][s] = pipe[c][s]
      <4>1. d # c
        BY <2>1, <3>2 DEF Read, Outputs
      <4> QED  BY <3>2, <4>1 DEF Read
    <3>3. ASSUME NEW d \in Commands, Drain(d) PROVE pipe'[c][s] = pipe[c][s]
      <4>1. d # c
        BY <2>1, <3>3 DEF Drain
      <4> QED  BY <3>3, <4>1 DEF Drain
    <3>4. ASSUME NEW p \in Procs, NEW t \in Outputs, Write(p, t)
          PROVE  pipe'[c][s] = pipe[c][s]
      <4>1. <<p[1], t>> # <<c, s>>
        BY <2>2, <3>4 DEF HungUp, Write
      <4>2. p[1] \in Commands
        BY DEF Procs
      <4> QED  BY <3>4, <4>1, <4>2 DEF Write
    <3>5. ASSUME NEW d \in Commands, ~Read(d), ~Drain(d), Popen3(d) \/ Fork(d)
          PROVE  UNCHANGED pipe
      BY <3>5
         DEF Popen3, OpenPipes, OpenPipesFails, Spawn, SpawnFails, CloseUnused,
             Measure, Poll, LoopFails, Again, GiveUp, Kill, Wait, Fork
    <3>6. CASE \/ \E p \in Procs : Exit(p)
               \/ \E t \in Outputs, d \in Commands : CloseOutput(d, t)
               \/ Tick \/ Done \/ UNCHANGED vars
      BY <3>6 DEF Exit, CloseOutput, Tick, Done, vars
    <3> HIDE DEF TypeOK, procs, mine, Leave
    <3> QED  BY <3>1, <3>2, <3>3, <3>4, <3>5, <3>6 DEF Next
  <2> QED  BY <2>2, <2>3, <2>4
<1> QED  BY <1>1, <1>2

-----------------------------------------------------------------------------
(* Time.                                                                     *)

\* Time only goes back when a command's loop is about to start.
LEMMA ClockKept ==
  ASSUME TypeOK, [Next]_vars, NEW c \in Commands, ~CloseUnused(c)
  PROVE  clock[c] <= clock'[c]
<1> USE BoundsAssumption DEF TypeOK, procs, mine, Leave
<1>1. CASE UNCHANGED clock
  BY <1>1
<1>2. ASSUME NEW d \in Commands, CloseUnused(d) PROVE clock[c] <= clock'[c]
  <2>1. d # c
    BY <1>2
  <2> QED  BY <1>2, <2>1 DEF CloseUnused
<1>3. CASE Tick
  BY <1>3 DEF Tick
<1>4. ASSUME NEW d \in Commands, ~CloseUnused(d), Popen3(d) \/ Fork(d)
      PROVE  UNCHANGED clock
  BY <1>4
     DEF Popen3, OpenPipes, OpenPipesFails, Spawn, SpawnFails, Read, Drain,
         Measure, Poll, LoopFails, Again, GiveUp, Kill, Wait, Fork
<1>5. CASE \/ \E p \in Procs : Exit(p)
           \/ \E s \in Outputs : \/ \E d \in Commands : CloseOutput(d, s)
                                  \/ \E p \in Procs : Write(p, s)
           \/ Done \/ UNCHANGED vars
  BY <1>1, <1>5 DEF Exit, CloseOutput, Write, Done, vars
<1> HIDE DEF TypeOK, procs, mine, Leave
<1> QED  BY <1>1, <1>2, <1>3, <1>4, <1>5 DEF Next

LEMMA TimelyKept ==
  TypeOK /\ TypeOK' /\ Staged /\ Timely /\ [Next]_vars => Timely'
<1> SUFFICES ASSUME TypeOK, TypeOK', Staged, Timely, [Next]_vars,
                    NEW c \in Commands
             PROVE  /\ pc'[c] \in {"poll", "out", "err", "decide"} =>
                         elapsed'[c] <= clock'[c]
                    /\ pc'[c] = "kill" /\ ~failed'[c] => clock'[c] = Timeout
                    /\ killed'[c] => pc'[c] \in {"wait", "done"}
                    /\ killed'[c] /\ ~failed'[c] => clock'[c] = Timeout
  BY DEF Timely
<1>1. /\ clock[c] \in 0 .. Timeout /\ clock'[c] \in 0 .. Timeout
      /\ elapsed[c] \in 0 .. Timeout /\ Timeout \in Nat
  BY BoundsAssumption DEF TypeOK
<1>2. ~CloseUnused(c) => clock[c] <= clock'[c]
  BY ClockKept
<1>3. /\ pc[c] \in {"poll", "out", "err", "decide"} => elapsed[c] <= clock[c]
      /\ pc[c] = "kill" /\ ~failed[c] => clock[c] = Timeout
      /\ killed[c] => pc[c] \in {"wait", "done"}
      /\ killed[c] /\ ~failed[c] => clock[c] = Timeout
  BY DEF Timely
<1> USE <1>1, <1>2, <1>3 DEF TypeOK, Goto, Leave
<1>4. CASE ~Popen3(c)
  <2>1. /\ pc'[c] = pc[c] /\ elapsed'[c] = elapsed[c]
        /\ failed'[c] = failed[c] /\ killed'[c] = killed[c]
    BY <1>4, OneMoves DEF Same
  <2>2. clock[c] <= clock'[c]
    BY <1>4 DEF Popen3
  <2> HIDE DEF TypeOK, Goto, Leave
  <2>3. clock[c] = Timeout => clock'[c] = Timeout
    BY <1>1, <2>2
  <2>4. pc'[c] \in {"poll", "out", "err", "decide"} =>
          elapsed'[c] <= clock'[c]
    BY <1>1, <1>3, <2>1, <2>2
  <2> QED  BY <2>1, <2>3, <2>4, Zenon
<1>5. CASE OpenPipes(c) \/ OpenPipesFails(c) \/ Spawn(c) \/ SpawnFails(c)
  BY <1>5 DEF OpenPipes, OpenPipesFails, Spawn, SpawnFails
<1>6. CASE CloseUnused(c)
  BY <1>6 DEF CloseUnused
<1>7. CASE Measure(c)
  BY <1>7 DEF Measure
<1>8. CASE Poll(c) \/ LoopFails(c)
  BY <1>8 DEF Poll, LoopFails, CloseUnused, Outputs
<1>9. CASE Read(c)
  <2>1. /\ pc[c] \in {"out", "err"} /\ pc'[c] \in {"err", "decide"}
        /\ UNCHANGED <<elapsed, failed, killed>>
    BY <1>9 DEF Read, Outputs
  <2>2. ~CloseUnused(c)
    BY <2>1 DEF CloseUnused
  <2> QED  BY <2>1, <2>2
<1>10. CASE Drain(c) \/ Again(c) \/ GiveUp(c)
  <2>1. /\ pc[c] = "decide" /\ pc'[c] \in {"kill", "wait", "measure"}
        /\ UNCHANGED <<elapsed, failed, killed>>
        /\ pc'[c] = "kill" => elapsed[c] >= Timeout
    BY <1>10 DEF Drain, Again, GiveUp, TimeIsOver
  <2>2. clock[c] <= clock'[c]
    BY <2>1 DEF CloseUnused
  <2>3. ~killed'[c]
    BY <2>1
  <2>4. pc'[c] = "kill" => clock'[c] = Timeout
    <3> HIDE DEF TypeOK, Goto, Leave
    <3>1. pc'[c] = "kill" => elapsed[c] >= Timeout
      BY <2>1
    <3>2. elapsed[c] <= clock[c]
      BY <1>3, <2>1
    <3>3. pc'[c] = "kill" => Timeout <= clock'[c]
      BY <1>1, <2>2, <3>1, <3>2
    <3> QED  BY <1>1, <3>3
  <2>5. pc'[c] \notin {"poll", "out", "err", "decide"}
    BY <2>1
  <2> HIDE DEF TypeOK, Goto, Leave
  <2> QED  BY <2>3, <2>4, <2>5, Zenon
<1>11. CASE Kill(c) \/ Wait(c)
  BY <1>11 DEF Kill, Wait, CloseUnused
<1> HIDE DEF TypeOK, Goto, Leave
<1> QED
  BY <1>4, <1>5, <1>6, <1>7, <1>8, <1>9, <1>10, <1>11 DEF Popen3

-----------------------------------------------------------------------------
(* Processes.                                                                *)

\* Nothing of a command starts once its popen3 has left the set-up and its
\* shell is not running.
LEMMA NoneStarts ==
  ASSUME TypeOK, [Next]_vars, NEW c \in Commands, NEW p \in Group(c),
         pc[c] # "spawn", ~Running(p), ~Running(Sh(c))
  PROVE  ~Running(p)'
<1> USE Processes DEF TypeOK, Running, procs, mine, Leave
<1>1. CASE UNCHANGED alive
  BY <1>1
<1>2. p \in Procs
  OBVIOUS
<1>3. ASSUME NEW d \in Commands, Spawn(d) \/ Fork(d) PROVE ~Running(p)'
  <2>1. d # c
    BY <1>3 DEF Spawn, Fork
  <2>2. Sh(d) # p /\ <<d, "bg">> # p
    BY <2>1 DEF Group, Sh
  <2>3. alive'[p] = alive[p]
    BY <1>2, <1>3, <2>2 DEF Spawn, Fork
  <2> QED  BY <2>3
<1>4. ASSUME NEW d \in Commands, Kill(d) PROVE ~Running(p)'
  BY <1>2, <1>4 DEF Kill
<1>5. ASSUME NEW q \in Procs, Exit(q) PROVE ~Running(p)'
  BY <1>2, <1>5 DEF Exit
<1>6. ASSUME NEW d \in Commands, ~Spawn(d), ~Kill(d), Popen3(d)
      PROVE  UNCHANGED alive
  BY <1>6
     DEF Popen3, OpenPipes, OpenPipesFails, SpawnFails, CloseUnused, Read,
         Drain, Measure, Poll, LoopFails, Again, GiveUp, Wait
<1>7. CASE \/ \E s \in Outputs : \/ \E d \in Commands : CloseOutput(d, s)
                                  \/ \E q \in Procs : Write(q, s)
           \/ Tick \/ Done \/ UNCHANGED vars
  BY <1>1, <1>7 DEF CloseOutput, Write, Tick, Done, vars
<1> HIDE DEF TypeOK, Running, procs, mine, Leave
<1> QED  BY <1>1, <1>3, <1>4, <1>5, <1>6, <1>7 DEF Next

LEMMA DeadKept == TypeOK /\ Dead /\ [Next]_vars => Dead'
<1> SUFFICES ASSUME TypeOK, Dead, [Next]_vars,
                    NEW c \in Commands, killed'[c], c \notin Stubborn
             PROVE  /\ pc'[c] \in {"wait", "done"}
                    /\ \A p \in Group(c) : ~Running(p)'
  BY DEF Dead, Group
<1>1. CASE Kill(c)
  <2>1. pc'[c] = "wait"
    BY <1>1 DEF Kill, Goto, TypeOK
  <2>2. ASSUME NEW p \in Group(c) PROVE ~Running(p)'
    BY <1>1, Processes DEF Kill, Running
  <2> QED  BY <2>1, <2>2
<1>2. CASE ~Kill(c)
  <2>1. killed[c]
    BY <1>2, NeverBack
  <2>2. /\ pc[c] \in {"wait", "done"}
        /\ \A p \in Group(c) : ~Running(p)
    BY <2>1 DEF Dead
  <2>3. ~Running(Sh(c))
    BY <2>2 DEF Group, Sh
  <2>4. \A p \in Group(c) : ~Running(p)'
    BY <2>2, <2>3, NoneStarts
  <2>5. pc'[c] \in {"wait", "done"}
    <3>1. CASE ~Popen3(c)
      BY <2>2, <3>1, OneMoves DEF Same
    <3>2. CASE Popen3(c)
      <4>1. Wait(c)
        BY <2>2, <3>2
           DEF Popen3, OpenPipes, OpenPipesFails, Spawn, SpawnFails,
               CloseUnused, Measure, Poll, LoopFails, Read, Drain, Again,
               GiveUp, Kill, Outputs
      <4> QED  BY <4>1 DEF Wait, Goto, TypeOK
    <3> QED  BY <3>1, <3>2
  <2> QED  BY <2>4, <2>5
<1> QED  BY <1>1, <1>2

LEMMA HoldingKept == TypeOK /\ Staged /\ Holding /\ [Next]_vars => Holding'
<1> SUFFICES ASSUME TypeOK, Staged, Holding, [Next]_vars,
                    NEW c \in Commands \ Silent, Running(Sh(c))',
                    NEW s \in Outputs
             PROVE  <<c, s>> \in holds'[Sh(c)]
  BY DEF Holding, Sh
<1>1. CASE Spawn(c)
  <2>1. <<s, "w">> \in open[c]
    BY <1>1 DEF Spawn, Staged, Ends, Pipes
  <2>2. Sh(c) \in Procs
    BY Processes
  <2>3. holds'[Sh(c)] =
          {q \in Commands \X Outputs : <<q[2], "w">> \in open[q[1]]}
    BY <1>1, <2>2 DEF Spawn, TypeOK
  <2> QED  BY <2>1, <2>3
<1>2. CASE ~Spawn(c)
  <2> USE Processes DEF TypeOK, Running, procs, mine, Leave
  <2>1. Running(Sh(c)) /\ holds'[Sh(c)] = holds[Sh(c)]
    <3> DEFINE Kept == Running(Sh(c)) /\ holds'[Sh(c)] = holds[Sh(c)]
    <3>1. CASE UNCHANGED <<alive, holds>>
      BY <3>1
    <3>2. ASSUME NEW d \in Commands, Spawn(d) PROVE Kept
      <4>1. Sh(d) # Sh(c)
        BY <1>2, <3>2 DEF Sh
      <4> QED  BY <3>2, <4>1 DEF Spawn
    <3>3. ASSUME NEW d \in Commands, Fork(d) PROVE Kept
      <4>1. <<d, "bg">> # Sh(c)
        BY DEF Sh
      <4> QED  BY <3>3, <4>1 DEF Fork
    <3>4. ASSUME NEW d \in Commands, Kill(d) PROVE Kept
      BY <3>4 DEF Kill
    <3>5. ASSUME NEW p \in Procs, Exit(p) PROVE Kept
      BY <3>5 DEF Exit
    <3>6. ASSUME NEW d \in Commands, NEW t \in Outputs, CloseOutput(d, t)
          PROVE  Kept
      <4>1. Sh(d) # Sh(c)
        BY <3>6 DEF CloseOutput, Sh
      <4> QED  BY <3>6, <4>1 DEF CloseOutput
    <3>7. ASSUME NEW d \in Commands, ~Spawn(d), ~Kill(d), Popen3(d)
          PROVE  UNCHANGED <<alive, holds>>
      BY <3>7
         DEF Popen3, OpenPipes, OpenPipesFails, SpawnFails, CloseUnused, Read,
             Drain, Measure, Poll, LoopFails, Again, GiveUp, Wait
    <3>8. CASE \/ \E t \in Outputs, p \in Procs : Write(p, t)
               \/ Tick \/ Done \/ UNCHANGED vars
      BY <3>1, <3>8 DEF Write, Tick, Done, vars
    <3> HIDE DEF TypeOK, Running, procs, mine, Leave, Kept
    <3> QED
      BY <3>1, <3>2, <3>3, <3>4, <3>5, <3>6, <3>7, <3>8 DEF Next, Kept
  <2> QED  BY <2>1 DEF Holding
<1> QED  BY <1>1, <1>2

-----------------------------------------------------------------------------

THEOREM AlwaysInv == Spec => []Inv
<1>1. Inv /\ [Next]_vars => Inv'
  BY Typed, StagedKept, ReportedKept, ConservedKept, WholeKept, TimelyKept,
     DeadKept, HoldingKept DEF Inv
<1> QED  BY Initially, <1>1, PTL DEF Spec

\* The type invariant of popen3.
THEOREM TypeCorrect == Spec => []TypeOK
<1>1. Inv => TypeOK
  BY DEF Inv
<1> QED  BY <1>1, AlwaysInv, PTL

\* Whatever commands run and however many at once, one that was not cut short
\* is reported with all its output.
THEOREM NoOutputLost == Spec => []OutputComplete
<1>1. Inv => OutputComplete
  <2> SUFFICES ASSUME Inv, NEW c \in Commands,
                      pc[c] = "done", ~failed[c], ~killed[c]
               PROVE  got[c] = written[c]
    BY DEF OutputComplete
  <2>1. ASSUME NEW s \in Outputs PROVE got[c][s] = written[c][s]
    <3>1. pipe[c][s] = 0 /\ pipe[c][s] + got[c][s] = written[c][s]
      BY DEF Inv, Whole, Conserved
    <3>2. got[c][s] \in Nat
      BY DEF Inv, TypeOK
    <3> QED  BY <3>1, <3>2
  <2>2. got[c] \in [Outputs -> Nat] /\ written[c] \in [Outputs -> Nat]
    BY DEF Inv, TypeOK
  <2> QED  BY <2>1, <2>2
<1> QED  BY <1>1, AlwaysInv, PTL

\* No command is killed before its time is over unless the loop has failed.
THEOREM NoneKilledEarly == Spec => []NotKilledEarly
<1>1. Inv => NotKilledEarly
  BY DEF Inv, Timely, NotKilledEarly
<1> QED  BY <1>1, AlwaysInv, PTL

\* A killed command that heeds SIGTERM leaves nothing behind.
THEOREM NothingLeftBehind == Spec => []NothingSurvivesKill
<1>1. Inv => NothingSurvivesKill
  BY DEF Inv, Dead, NothingSurvivesKill
<1> QED  BY <1>1, AlwaysInv, PTL

\* If no command closes its output before it ends, popen3 waits for no shell
\* whose time is over and which it has not killed: a shell that still runs
\* holds its streams, so they have not hung up.
THEOREM WaitsForTheLivingOnlyInTime ==
  ASSUME Silent = {}
  PROVE  Spec => []WaitIsBounded
<1>1. Inv => WaitIsBounded
  <2> SUFFICES ASSUME Inv, NEW c \in Commands, pc[c] = "wait", Running(Sh(c)),
                      ~killed[c]
               PROVE  FALSE
    BY DEF WaitIsBounded
  <2>1. ~failed[c]
    BY DEF Inv, Staged
  <2>2. HungUp(c, "out")
    BY <2>1 DEF Inv, Whole, Outputs
  <2>3. <<c, "out">> \notin holds[Sh(c)]
    BY <2>2, Processes DEF HungUp
  <2> QED  BY <2>3 DEF Inv, Holding, Outputs
<1> QED  BY <1>1, AlwaysInv, PTL
=============================================================================
