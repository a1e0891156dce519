---------------------------- MODULE ShellCommand ----------------------------
(***************************************************************************)
(* shell_command's popen3: run a command line under /bin/sh with its own   *)
(* pipes, read both output streams until they hang up or the time is over, *)
(* kill the process group if it is, and reap the child.                    *)
(*                                                                         *)
(* Every command has its own thread, and all threads share the process's   *)
(* file descriptors.  The commands themselves, the kernel's pipes and the  *)
(* clock are the environment: a shell, perhaps a process it leaves in the  *)
(* background, writing, closing, exiting and being killed at any moment.   *)
(*                                                                         *)
(* Each command is run once.  Output is counted in chunks, time in units   *)
(* of which Timeout make up the allowed time; a command's clock stops      *)
(* there, since nothing compares beyond.  killpg(SIGTERM) cannot fail on a *)
(* group whose leader has not been reaped, so the SIGKILL behind it has no *)
(* action here.                                                            *)
(***************************************************************************)
EXTENDS Naturals, FiniteSets

CONSTANTS
  Commands,    \* one thread each
  Timeout,     \* the allowed time
  MaxWrites,   \* bound: chunks the processes of each write to a stream
  Background,  \* commands that leave a process in the background
  Silent,      \* commands that close all they have of a stream before they end
  Stubborn     \* commands that ignore SIGTERM

ASSUME CommandsAssumption ==
  /\ IsFiniteSet(Commands)
  /\ Background \subseteq Commands
  /\ Silent \subseteq Commands
  /\ Stubborn \subseteq Commands
ASSUME BoundsAssumption ==
  Timeout \in Nat \ {0} /\ MaxWrites \in [Commands -> Nat]

Outputs == {"out", "err"}
Pipes   == Outputs \union {"in"}
Ends    == Pipes \X {"r", "w"}
Procs   == Commands \X {"sh", "bg"}

VARIABLES
  pc,         \* per command: where its popen3 stands
  open,       \* per command: ends of its pipes open in this process
  clock,      \* per command: time since the loop was about to start
  elapsed,    \* per command: that time when the loop last looked
  revents,    \* per command: what poll reported
  got,        \* per command and stream: data.stdout, data.stderr
  failed,     \* per command: rv < 0
  killed,     \* per command: its group was sent SIGTERM
  returncode, \* per command: data.returncode
  alive,      \* per process: "none", "running", "ended" or "terminated"
  holds,      \* per process: write ends it holds, <<command, stream>>
  pipe,       \* per command and stream: chunks in the pipe
  written     \* per command and stream: chunks written so far

mine  == <<pc, open, elapsed, revents, got, failed, killed, returncode>>
procs == <<alive, holds, written>>
vars  == <<mine, procs, clock, pipe>>

Quiet == [s \in Outputs |-> {}]
Goto(c, label) == pc' = [pc EXCEPT ![c] = label]

Running(p) == alive[p] = "running"
Sh(c) == <<c, "sh">>
Group(c) == {<<c, "sh">>, <<c, "bg">>}

\* No process has the write end of c's stream s any more, this one included.
HungUp(c, s) ==
  /\ <<s, "w">> \notin open[c]
  /\ \A p \in Procs : Running(p) => <<c, s>> \notin holds[p]

-----------------------------------------------------------------------------
(* popen3: set up                                                            *)

OpenPipes(c) ==
  /\ pc[c] = "start"
  /\ open' = [open EXCEPT ![c] = Ends]
  /\ Goto(c, "spawn")
  /\ UNCHANGED <<elapsed, revents, got, failed, killed, returncode, procs,
                 clock, pipe>>

\* One of the three pipe() calls, for in, err and out in this order, fails:
\* those before it stay open.
OpenPipesFails(c) ==
  /\ pc[c] = "start"
  /\ \E made \in {{}, {"in"}, {"in", "err"}} :
       open' = [open EXCEPT ![c] = made \X {"r", "w"}]
  /\ failed' = [failed EXCEPT ![c] = TRUE]
  /\ Goto(c, "done")
  /\ UNCHANGED <<elapsed, revents, got, killed, returncode, procs, clock, pipe>>

\* posix_spawnp.  The child gets a copy of every descriptor of this process;
\* its file actions only deal with the pipes of its own command.
Spawn(c) ==
  /\ pc[c] = "spawn"
  /\ alive' = [alive EXCEPT ![Sh(c)] = "running"]
  /\ holds' = [holds EXCEPT ![Sh(c)] =
       {q \in Commands \X Outputs : <<q[2], "w">> \in open[q[1]]}]
  /\ Goto(c, "close")
  /\ UNCHANGED <<open, elapsed, revents, got, failed, killed, returncode,
                 written, clock, pipe>>

SpawnFails(c) ==
  /\ pc[c] = "spawn"
  /\ open' = [open EXCEPT ![c] = {}]
  /\ failed' = [failed EXCEPT ![c] = TRUE]
  /\ Goto(c, "done")
  /\ UNCHANGED <<elapsed, revents, got, killed, returncode, procs, clock, pipe>>

\* close(in[0]), close(out[1]), close(err[1]), and the time starts.
CloseUnused(c) ==
  /\ pc[c] = "close"
  /\ open' = [open EXCEPT ![c] = @ \ {<<"in", "r">>, <<"out", "w">>, <<"err", "w">>}]
  /\ clock' = [clock EXCEPT ![c] = 0]
  /\ Goto(c, "measure")
  /\ UNCHANGED <<elapsed, revents, got, failed, killed, returncode, procs, pipe>>

-----------------------------------------------------------------------------
(* popen3: the loop                                                          *)

\* Wrong: a started unit of time counts as a whole one.
MeasureRoundedUp(c) ==
  /\ pc[c] = "measure"
  /\ elapsed' = [elapsed EXCEPT ![c] = clock[c] + 1]
  /\ Goto(c, "poll")
  /\ UNCHANGED <<open, revents, got, failed, killed, returncode, procs, clock,
                 pipe>>

Measure(c) ==
  /\ pc[c] = "measure"
  /\ elapsed' = [elapsed EXCEPT ![c] = clock[c]]
  /\ Goto(c, "poll")
  /\ UNCHANGED <<open, revents, got, failed, killed, returncode, procs, clock,
                 pipe>>

\* poll() is given the remaining seconds as milliseconds, so it comes back
\* at once or soon, whether there is something to read or not.
Poll(c) ==
  /\ pc[c] = "poll"
  /\ revents' = [revents EXCEPT ![c] = [s \in Outputs |->
       (IF pipe[c][s] > 0 THEN {"in"} ELSE {}) \union
       (IF HungUp(c, s) THEN {"hup"} ELSE {})]]
  /\ Goto(c, "out")
  /\ UNCHANGED <<open, elapsed, got, failed, killed, returncode, procs, clock,
                 pipe>>

\* Wrong: one stream is enough.
OneHungUp(c) == \E s \in Outputs : "hup" \in revents[c][s]

BothHungUp(c) == \A s \in Outputs : "hup" \in revents[c][s]

\* poll() or read() fails, or poll() reported POLLERR for a stream, which is
\* looked at after both have been read: leave the loop.
LoopFails(c) ==
  /\ \/ pc[c] = "poll"
     \/ pc[c] \in Outputs /\ "in" \in revents[c][pc[c]]
     \/ pc[c] = "decide" /\ ~BothHungUp(c)
  /\ failed' = [failed EXCEPT ![c] = TRUE]
  /\ Goto(c, "kill")
  /\ UNCHANGED <<open, elapsed, revents, got, killed, returncode, procs, clock,
                 pipe>>

\* Up to 4096 bytes of one stream, if poll reported any; stdout comes first.
Read(c) ==
  /\ pc[c] \in Outputs
  /\ LET s == pc[c] IN
     /\ IF "in" \in revents[c][s]
        THEN \E n \in 1 .. pipe[c][s] :
               /\ got'  = [got EXCEPT ![c][s] = @ + n]
               /\ pipe' = [pipe EXCEPT ![c][s] = @ - n]
        ELSE UNCHANGED <<got, pipe>>
     /\ Goto(c, IF s = "out" THEN "err" ELSE "decide")
  /\ UNCHANGED <<open, elapsed, revents, failed, killed, returncode, procs,
                 clock>>

\* Wrong: too soon by one; seconds compared with milliseconds.
TimeIsOverSoon(c) == elapsed[c] + 1 >= Timeout
TimeIsOverInMilliseconds(c) == elapsed[c] >= 1000 * Timeout

TimeIsOver(c) == elapsed[c] >= Timeout

\* What poll found is not looked at again.
Leave(c, label) ==
  /\ Goto(c, label)
  /\ revents' = [revents EXCEPT ![c] = Quiet]
  /\ UNCHANGED <<open, elapsed, failed, killed, returncode, procs, clock>>

\* Wrong: what is left in the pipes is left there.
DrainNot(c) ==
  /\ pc[c] = "decide"
  /\ BothHungUp(c)
  /\ Leave(c, IF TimeIsOver(c) THEN "kill" ELSE "wait")
  /\ UNCHANGED <<got, pipe>>

\* Both streams have hung up: read the rest, and leave the loop.
Drain(c) ==
  /\ pc[c] = "decide"
  /\ BothHungUp(c)
  /\ got'  = [got EXCEPT ![c] = [s \in Outputs |-> @[s] + pipe[c][s]]]
  /\ pipe' = [pipe EXCEPT ![c] = [s \in Outputs |-> 0]]
  /\ Leave(c, IF TimeIsOver(c) THEN "kill" ELSE "wait")

Again(c) ==
  /\ pc[c] = "decide"
  /\ ~BothHungUp(c) /\ ~TimeIsOver(c)
  /\ Leave(c, "measure")
  /\ UNCHANGED <<got, pipe>>

\* Wrong: a command whose time is over is waited for.
GiveUpAndWait(c) ==
  /\ pc[c] = "decide"
  /\ ~BothHungUp(c) /\ TimeIsOver(c)
  /\ Leave(c, "wait")
  /\ UNCHANGED <<got, pipe>>

GiveUp(c) ==
  /\ pc[c] = "decide"
  /\ ~BothHungUp(c) /\ TimeIsOver(c)
  /\ Leave(c, "kill")
  /\ UNCHANGED <<got, pipe>>

-----------------------------------------------------------------------------
(* popen3: the end                                                           *)

\* Wrong: kill() of the child, not killpg() of its group.
KillChild(c) ==
  /\ pc[c] = "kill"
  /\ killed' = [killed EXCEPT ![c] = TRUE]
  /\ alive' = IF Running(Sh(c)) /\ c \notin Stubborn
              THEN [alive EXCEPT ![Sh(c)] = "terminated"] ELSE alive
  /\ Goto(c, "wait")
  /\ UNCHANGED <<open, elapsed, revents, got, failed, returncode, holds,
                 written, clock, pipe>>

\* killpg(getpgid(child), SIGTERM)
Kill(c) ==
  /\ pc[c] = "kill"
  /\ killed' = [killed EXCEPT ![c] = TRUE]
  /\ alive' = [p \in Procs |->
       IF p \in Group(c) /\ Running(p) /\ c \notin Stubborn
       THEN "terminated" ELSE alive[p]]
  /\ Goto(c, "wait")
  /\ UNCHANGED <<open, elapsed, revents, got, failed, returncode, holds,
                 written, clock, pipe>>

\* waitpid(child, &status, 0) blocks until the shell has ended, and only the
\* read ends of the output pipes are closed.
Wait(c) ==
  /\ pc[c] = "wait"
  /\ alive[Sh(c)] \in {"ended", "terminated"}
  /\ returncode' = [returncode EXCEPT ![c] =
       IF alive[Sh(c)] = "ended" THEN 0 ELSE 128 + 15]
  /\ open' = [open EXCEPT ![c] = @ \ {<<"out", "r">>, <<"err", "r">>}]
  /\ Goto(c, "done")
  /\ UNCHANGED <<elapsed, revents, got, failed, killed, procs, clock, pipe>>

Popen3(c) ==
  \/ OpenPipes(c) \/ OpenPipesFails(c) \/ Spawn(c) \/ SpawnFails(c)
  \/ CloseUnused(c) \/ Measure(c) \/ Poll(c) \/ LoopFails(c) \/ Read(c)
  \/ Drain(c) \/ Again(c) \/ GiveUp(c) \/ Kill(c) \/ Wait(c)

-----------------------------------------------------------------------------
(* The commands                                                              *)

Write(p, s) ==
  /\ Running(p)
  /\ LET c == p[1] IN
     /\ <<c, s>> \in holds[p]
     /\ written[c][s] < MaxWrites[c]
     /\ written' = [written EXCEPT ![c][s] = @ + 1]
     /\ pipe' = [pipe EXCEPT ![c][s] = @ + 1]
  /\ UNCHANGED <<mine, alive, holds, clock>>

\* The shell puts a process in the background, with its descriptors.
Fork(c) ==
  /\ c \in Background
  /\ Running(Sh(c))
  /\ alive[<<c, "bg">>] = "none"
  /\ alive' = [alive EXCEPT ![<<c, "bg">>] = "running"]
  /\ holds' = [holds EXCEPT ![<<c, "bg">>] = holds[Sh(c)]]
  /\ UNCHANGED <<mine, written, clock, pipe>>

\* The shell closes all it has of one of its streams: what a redirection closes,
\* and the end of the pipe it was copied from, which the file actions leave open.
CloseOutput(c, s) ==
  /\ c \in Silent
  /\ Running(Sh(c))
  /\ holds' = [holds EXCEPT ![Sh(c)] = @ \ {<<c, s>>}]
  /\ UNCHANGED <<mine, alive, written, clock, pipe>>

Exit(p) ==
  /\ Running(p)
  /\ alive' = [alive EXCEPT ![p] = "ended"]
  /\ UNCHANGED <<mine, holds, written, clock, pipe>>

Tick ==
  /\ clock' = [c \in Commands |-> IF clock[c] < Timeout THEN clock[c] + 1
                                                        ELSE clock[c]]
  /\ clock' # clock
  /\ UNCHANGED <<mine, procs, pipe>>

Done == (\A c \in Commands : pc[c] = "done") /\ UNCHANGED vars

Init ==
  /\ pc = [c \in Commands |-> "start"]
  /\ open = [c \in Commands |-> {}]
  /\ clock = [c \in Commands |-> Timeout]
  /\ elapsed = [c \in Commands |-> 0]
  /\ revents = [c \in Commands |-> Quiet]
  /\ got = [c \in Commands |-> [s \in Outputs |-> 0]]
  /\ failed = [c \in Commands |-> FALSE]
  /\ killed = [c \in Commands |-> FALSE]
  /\ returncode = [c \in Commands |-> 255]
  /\ alive = [p \in Procs |-> "none"]
  /\ holds = [p \in Procs |-> {}]
  /\ pipe = [c \in Commands |-> [s \in Outputs |-> 0]]
  /\ written = [c \in Commands |-> [s \in Outputs |-> 0]]

Next ==
  \/ \E c \in Commands : Popen3(c) \/ Fork(c)
  \/ \E p \in Procs : Exit(p)
  \/ \E s \in Outputs : \/ \E c \in Commands : CloseOutput(c, s)
                         \/ \E p \in Procs : Write(p, s)
  \/ Tick
  \/ Done

Spec == Init /\ [][Next]_vars

\* The threads are scheduled and time passes; a command need not do anything.
FairSpec ==
  /\ Spec
  /\ \A c \in Commands : WF_vars(Popen3(c))
  /\ WF_vars(Tick)

-----------------------------------------------------------------------------
(* Properties                                                                *)

Labels == {"start", "spawn", "close", "measure", "poll", "out", "err",
           "decide", "kill", "wait", "done"}

TypeOK ==
  /\ pc \in [Commands -> Labels]
  /\ open \in [Commands -> SUBSET Ends]
  /\ clock \in [Commands -> 0 .. Timeout]
  /\ elapsed \in [Commands -> 0 .. Timeout]
  /\ revents \in [Commands -> [Outputs -> SUBSET {"in", "hup"}]]
  /\ got \in [Commands -> [Outputs -> Nat]]
  /\ failed \in [Commands -> BOOLEAN]
  /\ killed \in [Commands -> BOOLEAN]
  /\ returncode \in [Commands -> {0, 128 + 15, 255}]
  /\ alive \in [Procs -> {"none", "running", "ended", "terminated"}]
  /\ holds \in [Procs -> SUBSET (Commands \X Outputs)]
  /\ pipe \in [Commands -> [Outputs -> Nat]]
  /\ written \in [Commands -> [Outputs -> Nat]]

\* A command that was not cut short is reported with all the output it ever
\* produces, of its background process too: popen3 leaves the loop only when
\* nobody can write any more, and it reads what is left in both pipes.
OutputComplete ==
  \A c \in Commands : pc[c] = "done" /\ ~failed[c] /\ ~killed[c] =>
    got[c] = written[c]

\* popen3 only gives up on a command, and kills it, when its time is over or
\* the loop has failed; never because a look at the pipes came too soon.
NotKilledEarly ==
  \A c \in Commands : killed[c] /\ ~failed[c] => clock[c] = Timeout

\* When a command that heeds SIGTERM has been killed nothing of it goes on, the
\* process it put in the background included.
NothingSurvivesKill ==
  \A c \in Commands : killed[c] /\ c \notin Stubborn =>
    \A p \in Group(c) : ~Running(p)

\* popen3 does not wait for a shell whose time is over unless it has killed it.
WaitIsBounded ==
  \A c \in Commands : pc[c] = "wait" /\ Running(Sh(c)) =>
    killed[c] \/ clock[c] < Timeout

\* Every command is over at some time, whatever it does.
EveryCommandEnds == \A c \in Commands : <>(pc[c] = "done")
=============================================================================
