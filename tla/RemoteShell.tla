---------------------------- MODULE RemoteShell -----------------------------
(***************************************************************************)
(* One evaluation of a remote_shell_command: a parallel for_each opens an  *)
(* ssh session to every host, runs the command there, reads both streams   *)
(* until they end or the time is over, asks for the exit status, and adds  *)
(* an entry for the host to the one list, whatever became of the session.  *)
(*                                                                         *)
(* The remote commands, the network and each session's clock are the       *)
(* environment, and so is libssh: a read that finds nothing returns 0, a   *)
(* channel is at its end when the remote side closed it and nothing is     *)
(* left to read, and any call throws if the host is not reached or the     *)
(* connection is lost.  A command may end at any time or never, whether it *)
(* is sent a signal or not.  Output is counted in chunks of one read.  A   *)
(* poll that finds nothing only saves the read that would, so the two are  *)
(* one step.  The locks around all this are in DataSource.                 *)
(***************************************************************************)
EXTENDS HostEntries

CONSTANTS
  Says,   \* bound: chunks each host's command writes to a stream
  Exact   \* bound: hosts whose clock may be read at the very end of the time

ASSUME ExactAssumption == Exact \subseteq Hosts

Streams == {"out", "err"}
ASSUME SaysAssumption == Says \in [Hosts -> [Streams -> Nat]]

VARIABLES
  stage,    \* of evaluate: "none" (not called), "sessions" or "returned"
  session,  \* per host: where its ssh() stands
  clock,    \* per host: the time is "before", "at" or "after" its end
  elapsed,  \* per host: the clock when the loop last looked
  command,  \* per host: "none", "running", "closed" (its streams) or "over"
  written,  \* per host and stream: chunks the command wrote
  got,      \* per host and stream: chunks read
  ending,   \* per host: "none", "denied", "failed", "eof" or "late"
  killed,   \* per host: the command was sent SIGTERM
  dataMutex,    \* data_mutex: the sessions that hold it
  tail,     \* per host: end of the list its push_back writes to
  data      \* the entries, named by their hosts

local  == <<session, elapsed, ending>>
remote == <<clock, command, written, killed>>
list   == <<dataMutex, tail, data>>
remoteVars   == <<stage, local, remote, got, list>>

At(h, label) == stage = "sessions" /\ session[h] = label
Step(h, label) == session' = [session EXCEPT ![h] = label]
EndsAs(h, e) == ending' = [ending EXCEPT ![h] = e]

AtEof(h) == command[h] \in {"closed", "over"} /\ got[h] = written[h]

-----------------------------------------------------------------------------
(* ssh()                                                                     *)

Connect(h) ==
  /\ At(h, "connect")
  /\ Step(h, "auth")
  /\ UNCHANGED <<stage, elapsed, ending, remote, got, list>>

Authenticate(h) ==
  /\ At(h, "auth")
  /\ Step(h, "exec")
  /\ UNCHANGED <<stage, elapsed, ending, remote, got, list>>

\* Any answer but SSH_AUTH_SUCCESS.
Deny(h) ==
  /\ At(h, "auth")
  /\ EndsAs(h, "denied")
  /\ Step(h, "lock")
  /\ UNCHANGED <<stage, elapsed, remote, got, list>>

\* The channel is opened, the command sent, and the time starts.
Exec(h) ==
  /\ At(h, "exec")
  /\ command' = [command EXCEPT ![h] = "running"]
  /\ Step(h, "look")
  /\ UNCHANGED <<stage, elapsed, ending, clock, written, killed, got, list>>

Look(h) ==
  /\ At(h, "look")
  /\ elapsed' = [elapsed EXCEPT ![h] = clock[h]]
  /\ Step(h, "out")
  /\ UNCHANGED <<stage, ending, remote, got, list>>

\* Wrong: the whole buffer is appended, not just the bytes that were read.
ReadBuffer(h, s) ==
  /\ At(h, s) /\ got[h][s] < written[h][s]
  /\ got' = [got EXCEPT ![h][s] = @ + 2]
  /\ UNCHANGED <<stage, local, remote, list>>

Read(h, s) ==
  /\ At(h, s) /\ got[h][s] < written[h][s]
  /\ got' = [got EXCEPT ![h][s] = @ + 1]
  /\ UNCHANGED <<stage, local, remote, list>>

\* read() returns 0: on to the other stream, then to the end of the loop body.
NothingToRead(h, s) ==
  /\ At(h, s) /\ got[h][s] = written[h][s]
  /\ Step(h, IF s = "out" THEN "err" ELSE "test")
  /\ UNCHANGED <<stage, elapsed, ending, remote, got, list>>

\* Wrong: a command whose time is over is not sent the signal.
LeaveUnsignalled(h, e) ==
  /\ EndsAs(h, e)
  /\ Step(h, "exit")
  /\ UNCHANGED <<stage, elapsed, remote, got, list>>

\* Out of the loop: while (elapsed < timeout) and then if (elapsed > timeout),
\* of which neither holds when they are equal.  A break does not test the time,
\* but the second test comes all the same.
Leave(h, e) ==
  /\ EndsAs(h, e)
  /\ Step(h, IF elapsed[h] = "after" THEN "kill" ELSE "exit")
  /\ UNCHANGED <<stage, elapsed, remote, got, list>>

\* Wrong: what the remote side has sent, but nobody read yet, is forgotten.
BreakOnRemoteEof(h) ==
  At(h, "test") /\ command[h] \in {"closed", "over"} /\ Leave(h, "eof")

Break(h) == At(h, "test") /\ AtEof(h) /\ Leave(h, "eof")

\* Wrong: while (true), as long as there is no end of file.
GoOnForEver(h) ==
  /\ At(h, "test") /\ ~AtEof(h)
  /\ Step(h, "look")
  /\ UNCHANGED <<stage, elapsed, ending, remote, got, list>>

GoOn(h) ==
  /\ At(h, "test") /\ ~AtEof(h) /\ elapsed[h] = "before"
  /\ Step(h, "look")
  /\ UNCHANGED <<stage, elapsed, ending, remote, got, list>>

\* Wrong: a round that found no end of file is the last.
GiveUpEarly(h) == At(h, "test") /\ ~AtEof(h) /\ Leave(h, "late")

GiveUp(h) ==
  At(h, "test") /\ ~AtEof(h) /\ elapsed[h] # "before" /\ Leave(h, "late")

Kill(h) ==
  /\ At(h, "kill")
  /\ killed' = [killed EXCEPT ![h] = TRUE]
  /\ Step(h, "exit")
  /\ UNCHANGED <<stage, elapsed, ending, clock, command, written, got, list>>

\* getExitStatus, and the closing of the channel, wait for the command without
\* a limit.
GetExitStatus(h) ==
  /\ At(h, "exit") /\ command[h] = "over"
  /\ Step(h, "lock")
  /\ UNCHANGED <<stage, elapsed, ending, remote, got, list>>

\* Any call of libssh may throw, the first one if the host cannot be reached.
InSsh == {"connect", "auth", "exec", "out", "err", "test", "kill", "exit"}

\* Wrong: a session that failed adds no entry to the list.
CatchAndForget(h) ==
  /\ stage = "sessions" /\ session[h] \in InSsh
  /\ EndsAs(h, "failed")
  /\ Step(h, "done")
  /\ UNCHANGED <<stage, elapsed, remote, got, list>>

Catch(h) ==
  /\ stage = "sessions" /\ session[h] \in InSsh
  /\ EndsAs(h, "failed")
  /\ Step(h, "lock")
  /\ UNCHANGED <<stage, elapsed, remote, got, list>>

\* Wrong: push_back without the lock_guard.
BeginPushUnlocked(h) ==
  /\ At(h, "lock")
  /\ tail' = [tail EXCEPT ![h] = Len(data)]
  /\ Step(h, "push")
  /\ UNCHANGED <<stage, elapsed, ending, remote, got, dataMutex, data>>

\* lock_guard(data_mutex), and push_back finds the end of the list.
BeginPush(h) ==
  /\ At(h, "lock") /\ dataMutex = {}
  /\ dataMutex' = {h}
  /\ tail' = [tail EXCEPT ![h] = Len(data)]
  /\ Step(h, "push")
  /\ UNCHANGED <<stage, elapsed, ending, remote, got, data>>

EndPush(h) ==
  /\ At(h, "push")
  /\ data' = PushBackAt(data, tail[h], h)
  /\ dataMutex' = dataMutex \ {h}
  /\ Step(h, "done")
  /\ UNCHANGED <<stage, elapsed, ending, remote, got, tail>>

-----------------------------------------------------------------------------
(* evaluate(), and what goes on outside                                      *)

\* for_each is over when every session is.
Return ==
  /\ stage = "sessions" /\ \A h \in Hosts : session[h] = "done"
  /\ stage' = "returned"
  /\ UNCHANGED <<local, remote, got, list>>

\* The time, and what the command writes, only matter inside the loop.
InLoop(h) ==
  stage = "sessions" /\ session[h] \in {"look", "out", "err", "test"}

\* The command's time is over, perhaps at this very moment.
Tick(h) ==
  /\ InLoop(h) /\ clock[h] # "after"
  /\ \E now \in {"at", "after"} :
       /\ now = "at" => clock[h] = "before" /\ h \in Exact
       /\ clock' = [clock EXCEPT ![h] = now]
  /\ UNCHANGED <<stage, local, command, written, killed, got, list>>

Write(h, s) ==
  /\ InLoop(h) /\ command[h] = "running" /\ written[h][s] < Says[h][s]
  /\ written' = [written EXCEPT ![h][s] = @ + 1]
  /\ UNCHANGED <<stage, local, clock, command, killed, got, list>>

\* Its end only matters as long as the session may wait for it.
Watched(h) ==
  stage = "sessions" /\ session[h] \notin {"lock", "push", "done"}

Close(h) ==
  /\ Watched(h) /\ command[h] = "running"
  /\ command' = [command EXCEPT ![h] = "closed"]
  /\ UNCHANGED <<stage, local, clock, written, killed, got, list>>

Exit(h) ==
  /\ Watched(h) /\ command[h] \in {"running", "closed"}
  /\ command' = [command EXCEPT ![h] = "over"]
  /\ UNCHANGED <<stage, local, clock, written, killed, got, list>>

-----------------------------------------------------------------------------

Silence == [s \in Streams |-> 0]

Start(s) ==
  /\ stage = s
  /\ session = [h \in Hosts |-> "connect"]
  /\ clock = [h \in Hosts |-> "before"]
  /\ elapsed = [h \in Hosts |-> "before"]
  /\ command = [h \in Hosts |-> "none"]
  /\ written = [h \in Hosts |-> Silence]
  /\ got = [h \in Hosts |-> Silence]
  /\ ending = [h \in Hosts |-> "none"]
  /\ killed = [h \in Hosts |-> FALSE]
  /\ dataMutex = {}
  /\ tail = [h \in Hosts |-> 0]
  /\ data = <<>>

RemoteInit == Start("sessions")

Proceed(h) ==
  \/ Connect(h) \/ Authenticate(h) \/ Deny(h) \/ Exec(h) \/ Look(h)
  \/ \E s \in Streams : Read(h, s) \/ NothingToRead(h, s)
  \/ Break(h) \/ GoOn(h) \/ GiveUp(h) \/ Kill(h) \/ GetExitStatus(h)
  \/ BeginPush(h) \/ EndPush(h)

Ssh(h) == Proceed(h) \/ Catch(h)

Environment(h) ==
  Tick(h) \/ (\E s \in Streams : Write(h, s)) \/ Close(h) \/ Exit(h)

RemoteNext == Return \/ \E h \in Hosts : Ssh(h) \/ Environment(h)

RemoteSpec == RemoteInit /\ [][RemoteNext]_remoteVars

-----------------------------------------------------------------------------
(* Properties                                                                *)

Times == {"before", "at", "after"}
SessionLabels == InSsh \union {"look", "lock", "push", "done"}
Counts == [Hosts -> [Streams -> Nat]]

RemoteTypeOK ==
  /\ stage \in {"none", "sessions", "returned"}
  /\ session \in [Hosts -> SessionLabels]
  /\ clock \in [Hosts -> Times] /\ elapsed \in [Hosts -> Times]
  /\ command \in [Hosts -> {"none", "running", "closed", "over"}]
  /\ written \in Counts /\ got \in Counts
  /\ \A h \in Hosts, s \in Streams :
       got[h][s] <= written[h][s] /\ written[h][s] <= Says[h][s]
  /\ ending \in [Hosts -> {"none", "denied", "failed", "eof", "late"}]
  /\ killed \in [Hosts -> BOOLEAN]
  /\ dataMutex \in SUBSET Hosts
  /\ tail \in [Hosts -> Nat]
  /\ data \in Seq(Hosts)

\* A command that is still going is given up, or sent a signal, only when all
\* its time is over.
CutShortOnlyLate ==
  \A h \in Hosts : killed[h] \/ ending[h] = "late" => clock[h] # "before"

\* The list that is returned has one entry for every host, those that could
\* not be reached or did not let us in included.
OneEntryPerHost ==
  stage = "returned" =>
    NamesEveryHost(data) /\ Len(data) = Cardinality(Hosts)
=============================================================================
