-------------------------- MODULE RemoteShellProof --------------------------
(***************************************************************************)
(* However many hosts there are and whatever they do, each session keeps   *)
(* all it was sent up to the end of file, nothing is cut short before its  *)
(* time, and the list has one entry for each host.                         *)
(*                                                                         *)
(* The argument for the list is that of ShellOutputProof: a session inside *)
(* push_back holds data_mutex alone and its end of the list is still the   *)
(* end (Appending), hence the list names exactly the sessions that are     *)
(* done, each once (Entries), and for_each waits for all (Returned).  A    *)
(* session has no ending while it may still go on (Open); once it has seen *)
(* the end of the file the command can write no more (Heard), and before   *)
(* it was run it wrote nothing (Silent); and the time a session has looked *)
(* at is never ahead of its clock (Clocks).                                *)
(***************************************************************************)
EXTENDS RemoteShell, FiniteSetTheorems, TLAPS

Appending ==
  \A h \in Hosts :
    session[h] = "push" => dataMutex = {h} /\ tail[h] = Len(data)

Entries ==
  /\ \A i \in DOMAIN data : session[data[i]] = "done"
  /\ \A h \in Hosts : session[h] = "done" => \E i \in DOMAIN data : data[i] = h
  /\ NamesNoneTwice(data)

Returned == stage = "returned" => \A h \in Hosts : session[h] = "done"

Open ==
  \A h \in Hosts :
    session[h] \in {"connect", "auth", "exec", "look", "out", "err", "test"} =>
      ending[h] = "none"

Heard ==
  \A h \in Hosts : ending[h] = "eof" =>
    command[h] \in {"closed", "over"} /\ got[h] = written[h]

Clocks ==
  \A h \in Hosts :
    /\ elapsed[h] # "before" => clock[h] # "before"
    /\ session[h] = "kill" => elapsed[h] = "after"
    /\ killed[h] \/ ending[h] = "late" => clock[h] # "before"

Silent ==
  \A h \in Hosts, s \in Streams : command[h] = "none" => written[h][s] = 0

SessionInv ==
  /\ RemoteTypeOK /\ Appending /\ Entries /\ Returned
  /\ Open /\ Heard /\ Clocks /\ Silent

-----------------------------------------------------------------------------
(* The invariant.                                                            *)

LEMMA SessionsBegin ==
  ASSUME NEW s \in {"none", "sessions"}, Start(s) PROVE SessionInv
<1> USE DEF Start, Silence
<1>1. RemoteTypeOK
  BY SaysAssumption
     DEF RemoteTypeOK, SessionLabels, InSsh, Times, Counts, Streams
<1>2. Appending /\ Entries /\ Returned
  BY DEF Appending, Entries, Returned, NamesNoneTwice
<1>3. Open /\ Heard /\ Clocks /\ Silent
  BY DEF Open, Heard, Clocks, Silent
<1> QED  BY <1>1, <1>2, <1>3 DEF SessionInv

LEMMA SessionTyped ==
  RemoteTypeOK /\ Appending /\ [RemoteNext]_remoteVars => RemoteTypeOK'
<1> SUFFICES ASSUME RemoteTypeOK, Appending, [RemoteNext]_remoteVars
             PROVE  RemoteTypeOK'
  OBVIOUS
<1> USE SaysAssumption
        DEF RemoteTypeOK, SessionLabels, InSsh, Times, Counts, Streams, At,
            Step, EndsAs, Leave, local, remote, list
<1>1. ASSUME NEW h \in Hosts,
             Connect(h) \/ Authenticate(h) \/ Deny(h) \/ Exec(h) \/ Look(h)
      PROVE  RemoteTypeOK'
  <2>1. CASE Connect(h)
    BY <2>1 DEF Connect
  <2>2. CASE Authenticate(h)
    BY <2>2 DEF Authenticate
  <2>3. CASE Deny(h)
    BY <2>3 DEF Deny
  <2>4. CASE Exec(h)
    BY <2>4 DEF Exec
  <2>5. CASE Look(h)
    BY <2>5 DEF Look
  <2> QED  BY <1>1, <2>1, <2>2, <2>3, <2>4, <2>5
<1>2. ASSUME NEW h \in Hosts, NEW s \in Streams, Read(h, s)
      PROVE  RemoteTypeOK'
  <2>1. got' \in Counts
    BY <1>2 DEF Read
  <2>2. ASSUME NEW g \in Hosts, NEW t \in Streams
        PROVE  got'[g][t] <= written'[g][t] /\ written'[g][t] <= Says[g][t]
    <3>1. /\ got[g][t] \in Nat /\ written[g][t] \in Nat
          /\ got[g][t] <= written[g][t] /\ written[g][t] <= Says[g][t]
      BY DEF Counts
    <3>2. CASE g = h /\ t = s
      <4>1. got'[g][t] = got[g][t] + 1 /\ written' = written
        BY <1>2, <3>2 DEF Read, Counts
      <4> QED  BY <1>2, <3>1, <3>2, <4>1, SaysAssumption DEF Read
    <3>3. CASE ~(g = h /\ t = s)
      <4>1. got'[g][t] = got[g][t] /\ written' = written
        BY <1>2, <3>3 DEF Read, Counts
      <4> QED  BY <3>1, <4>1
    <3> QED  BY <3>2, <3>3
  <2> QED  BY <1>2, <2>1, <2>2 DEF Read
<1>3. ASSUME NEW h \in Hosts, NEW s \in Streams, NothingToRead(h, s)
      PROVE  RemoteTypeOK'
  BY <1>3 DEF NothingToRead
<1>4. ASSUME NEW h \in Hosts, Break(h) \/ GoOn(h) \/ GiveUp(h)
      PROVE  RemoteTypeOK'
  BY <1>4 DEF Break, GoOn, GiveUp
<1>5. ASSUME NEW h \in Hosts, Kill(h) \/ GetExitStatus(h) \/ Catch(h)
      PROVE  RemoteTypeOK'
  BY <1>5 DEF Kill, GetExitStatus, Catch
<1>6. ASSUME NEW h \in Hosts, BeginPush(h) PROVE RemoteTypeOK'
  BY <1>6 DEF BeginPush
<1>7. ASSUME NEW h \in Hosts, EndPush(h) PROVE RemoteTypeOK'
  <2>1. SubSeq(data, 1, tail[h]) = data
    BY <1>7 DEF EndPush, Appending
  <2>2. Append(data, h) \in Seq(Hosts)
    OBVIOUS
  <2>3. data' \in Seq(Hosts)
    BY <1>7, <2>1, <2>2 DEF EndPush, PushBackAt
  <2> QED  BY <1>7, <2>3 DEF EndPush
<1>8. ASSUME NEW h \in Hosts, Tick(h) \/ Close(h) \/ Exit(h)
      PROVE  RemoteTypeOK'
  <2>1. CASE Tick(h)
    <3>1. clock' \in [Hosts -> Times]
      BY <2>1 DEF Tick
    <3> QED  BY <2>1, <3>1 DEF Tick
  <2>2. CASE Close(h)
    BY <2>2 DEF Close
  <2>3. CASE Exit(h)
    BY <2>3 DEF Exit
  <2> QED  BY <1>8, <2>1, <2>2, <2>3
<1>9. ASSUME NEW h \in Hosts, NEW s \in Streams, Write(h, s)
      PROVE  RemoteTypeOK'
  <2>1. written' \in Counts
    BY <1>9 DEF Write
  <2>2. ASSUME NEW g \in Hosts, NEW t \in Streams
        PROVE  got'[g][t] <= written'[g][t] /\ written'[g][t] <= Says[g][t]
    <3>1. /\ got[g][t] \in Nat /\ written[g][t] \in Nat
          /\ got[g][t] <= written[g][t] /\ written[g][t] <= Says[g][t]
      BY DEF Counts
    <3>2. CASE g = h /\ t = s
      <4>1. written'[g][t] = written[g][t] + 1 /\ got' = got
        BY <1>9, <3>2 DEF Write, Counts
      <4> QED  BY <1>9, <3>1, <3>2, <4>1, SaysAssumption DEF Write
    <3>3. CASE ~(g = h /\ t = s)
      <4>1. written'[g][t] = written[g][t] /\ got' = got
        BY <1>9, <3>3 DEF Write, Counts
      <4> QED  BY <3>1, <4>1
    <3> QED  BY <3>2, <3>3
  <2> QED  BY <1>9, <2>1, <2>2 DEF Write
<1>10. CASE Return \/ UNCHANGED remoteVars
  BY <1>10 DEF Return, remoteVars
<1> QED
  BY <1>1, <1>2, <1>3, <1>4, <1>5, <1>6, <1>7, <1>8, <1>9, <1>10
     DEF RemoteNext, Ssh, Proceed, Environment

LEMMA SessionListed ==
  RemoteTypeOK /\ Appending /\ Entries /\ Returned /\ [RemoteNext]_remoteVars =>
    Appending' /\ Entries' /\ Returned'
<1> SUFFICES ASSUME RemoteTypeOK, Appending, Entries, Returned,
                    [RemoteNext]_remoteVars
             PROVE  Appending' /\ Entries' /\ Returned'
  OBVIOUS
<1> USE DEF Step, EndsAs, Leave, At, local, remote, list, NamesNoneTwice
<1>1. ASSUME UNCHANGED <<stage, session, list>>
      PROVE  Appending' /\ Entries' /\ Returned'
  BY <1>1 DEF Appending, Entries, Returned
<1>2. ASSUME NEW h \in Hosts, NEW l,
             stage = "sessions", session[h] # "push", session[h] # "done",
             l # "push", l # "done",
             session' = [session EXCEPT ![h] = l], UNCHANGED <<stage, list>>
      PROVE  Appending' /\ Entries' /\ Returned'
  BY <1>2 DEF RemoteTypeOK, Appending, Entries, Returned
<1>3. ASSUME NEW h \in Hosts, BeginPush(h)
      PROVE  Appending' /\ Entries' /\ Returned'
  BY <1>3 DEF RemoteTypeOK, Appending, Entries, Returned, BeginPush
<1>4. ASSUME NEW h \in Hosts, EndPush(h)
      PROVE  Appending' /\ Entries' /\ Returned'
  <2>1. data' = Append(data, h) /\ session[h] = "push"
    BY <1>4 DEF EndPush, Appending, RemoteTypeOK, PushBackAt
  <2>2. session' = [session EXCEPT ![h] = "done"]
    BY <1>4 DEF EndPush
  <2>3. /\ DOMAIN data' = DOMAIN data \union {Len(data) + 1}
        /\ \A i \in DOMAIN data : data'[i] = data[i]
        /\ data'[Len(data) + 1] = h
    BY <2>1 DEF RemoteTypeOK
  <2>4. \A i \in DOMAIN data : data[i] # h
    BY <2>1 DEF Entries
  <2>5. \A i \in DOMAIN data' : session'[data'[i]] = "done"
    BY <2>2, <2>3 DEF Entries, RemoteTypeOK
  <2>6. ASSUME NEW g \in Hosts, session'[g] = "done"
        PROVE  \E i \in DOMAIN data' : data'[i] = g
    BY <2>2, <2>3, <2>6 DEF Entries, RemoteTypeOK
  <2>7. NamesNoneTwice(data')
    BY <2>3, <2>4 DEF Entries
  <2>8. Appending' /\ Returned'
    <3>1. Returned'
      BY <1>4 DEF EndPush, Returned
    <3>2. \A g \in Hosts : session[g] = "push" => g = h
      BY <1>4 DEF Appending, EndPush
    <3>3. \A g \in Hosts : session'[g] # "push"
      BY <2>2, <3>2 DEF RemoteTypeOK
    <3>4. dataMutex' = {}
      BY <1>4 DEF EndPush, Appending
    <3> QED  BY <3>1, <3>3, <3>4 DEF Appending
  <2> QED  BY <2>5, <2>6, <2>7, <2>8 DEF Entries
<1>5. CASE Return
  BY <1>5 DEF Return, Appending, Entries, Returned
<1>6. ASSUME NEW h \in Hosts,
             Connect(h) \/ Authenticate(h) \/ Deny(h) \/ Exec(h) \/ Look(h)
      PROVE  Appending' /\ Entries' /\ Returned'
  BY <1>2, <1>6 DEF Connect, Authenticate, Deny, Exec, Look
<1>7. ASSUME NEW h \in Hosts, NEW s \in Streams, Read(h, s)
      PROVE  Appending' /\ Entries' /\ Returned'
  BY <1>1, <1>7 DEF Read
<1>8. ASSUME NEW h \in Hosts, NEW s \in Streams, NothingToRead(h, s)
      PROVE  Appending' /\ Entries' /\ Returned'
  BY <1>2, <1>8 DEF NothingToRead, Streams
<1>9. ASSUME NEW h \in Hosts, Break(h) \/ GoOn(h) \/ GiveUp(h)
      PROVE  Appending' /\ Entries' /\ Returned'
  BY <1>2, <1>9 DEF Break, GoOn, GiveUp
<1>10. ASSUME NEW h \in Hosts, Kill(h) \/ GetExitStatus(h) \/ Catch(h)
      PROVE  Appending' /\ Entries' /\ Returned'
  BY <1>2, <1>10 DEF Kill, GetExitStatus, Catch, InSsh
<1>11. ASSUME NEW h \in Hosts, NEW s \in Streams,
             Tick(h) \/ Write(h, s) \/ Close(h) \/ Exit(h)
      PROVE  Appending' /\ Entries' /\ Returned'
  BY <1>1, <1>11 DEF Tick, Write, Close, Exit
<1>12. CASE UNCHANGED remoteVars
  BY <1>1, <1>12 DEF remoteVars
<1> QED
  BY <1>3, <1>4, <1>5, <1>6, <1>7, <1>8, <1>9, <1>10, <1>11, <1>12
     DEF RemoteNext, Ssh, Proceed, Environment, Streams

LEMMA SessionEnded ==
  RemoteTypeOK /\ Open /\ Heard /\ Clocks /\ [RemoteNext]_remoteVars =>
    Open' /\ Heard' /\ Clocks'
<1> SUFFICES ASSUME RemoteTypeOK, Open, Heard, Clocks, [RemoteNext]_remoteVars
             PROVE  Open' /\ Heard' /\ Clocks'
  OBVIOUS
<1> USE DEF RemoteTypeOK, Open, Heard, Clocks, At, Step, EndsAs, Leave, local,
            remote, list
<1>1. ASSUME NEW h \in Hosts, Connect(h) \/ Authenticate(h) \/ Deny(h)
      PROVE  Open' /\ Heard' /\ Clocks'
  <2>1. CASE Connect(h)
    BY <2>1 DEF Connect
  <2>2. CASE Authenticate(h)
    BY <2>2 DEF Authenticate
  <2>3. CASE Deny(h)
    BY <2>3 DEF Deny
  <2> QED  BY <1>1, <2>1, <2>2, <2>3
<1>2. ASSUME NEW h \in Hosts, Exec(h) PROVE Open' /\ Heard' /\ Clocks'
  BY <1>2 DEF Exec
<1>3. ASSUME NEW h \in Hosts, Look(h) PROVE Open' /\ Heard' /\ Clocks'
  BY <1>3 DEF Look
<1>4. ASSUME NEW h \in Hosts, NEW s \in Streams, Read(h, s)
      PROVE  Open' /\ Heard' /\ Clocks'
  BY <1>4 DEF Read, Streams
<1>5. ASSUME NEW h \in Hosts, NEW s \in Streams, NothingToRead(h, s)
      PROVE  Open' /\ Heard' /\ Clocks'
  BY <1>5 DEF NothingToRead, Streams
<1>6. ASSUME NEW h \in Hosts, Break(h) PROVE Open' /\ Heard' /\ Clocks'
  BY <1>6 DEF Break, AtEof
<1>7. ASSUME NEW h \in Hosts, GoOn(h) PROVE Open' /\ Heard' /\ Clocks'
  BY <1>7 DEF GoOn
<1>8. ASSUME NEW h \in Hosts, GiveUp(h) PROVE Open' /\ Heard' /\ Clocks'
  BY <1>8 DEF GiveUp
<1>9. ASSUME NEW h \in Hosts, Kill(h) \/ GetExitStatus(h) \/ Catch(h)
      PROVE  Open' /\ Heard' /\ Clocks'
  BY <1>9 DEF Kill, GetExitStatus, Catch
<1>10. ASSUME NEW h \in Hosts, BeginPush(h) \/ EndPush(h)
      PROVE  Open' /\ Heard' /\ Clocks'
  BY <1>10 DEF BeginPush, EndPush
<1>11. ASSUME NEW h \in Hosts, Tick(h) PROVE Open' /\ Heard' /\ Clocks'
  BY <1>11 DEF Tick
<1>12. ASSUME NEW h \in Hosts, NEW s \in Streams, Write(h, s)
      PROVE  Open' /\ Heard' /\ Clocks'
  BY <1>12 DEF Write
<1>13. ASSUME NEW h \in Hosts, Close(h) \/ Exit(h)
      PROVE  Open' /\ Heard' /\ Clocks'
  <2>1. /\ UNCHANGED <<session, elapsed, ending, clock, written, killed, got>>
        /\ \A g \in Hosts : command[g] \in {"closed", "over"} =>
             command'[g] \in {"closed", "over"}
    <3>1. CASE Close(h)
      BY <3>1 DEF Close
    <3>2. CASE Exit(h)
      BY <3>2 DEF Exit
    <3> QED  BY <1>13, <3>1, <3>2
  <2> HIDE DEF RemoteTypeOK
  <2>2. Open' /\ Clocks'
    BY <2>1
  <2>3. Heard'
    BY <2>1
  <2> QED  BY <2>2, <2>3
<1>14. CASE Return \/ UNCHANGED remoteVars
  BY <1>14 DEF Return, remoteVars
<1> QED
  BY <1>1, <1>2, <1>3, <1>4, <1>5, <1>6, <1>7, <1>8, <1>9, <1>10, <1>11,
     <1>12, <1>13, <1>14 DEF RemoteNext, Ssh, Proceed, Environment

LEMMA SilentKept == RemoteTypeOK /\ Silent /\ [RemoteNext]_remoteVars => Silent'
<1> SUFFICES ASSUME RemoteTypeOK, Silent, [RemoteNext]_remoteVars PROVE Silent'
  OBVIOUS
<1> USE DEF At, Step, EndsAs, Leave, local, remote, list
<1>1. ASSUME UNCHANGED <<command, written>> PROVE Silent'
  BY <1>1 DEF Silent
<1>2. ASSUME NEW h \in Hosts, NEW c \in {"running", "closed", "over"},
             command' = [command EXCEPT ![h] = c], written' = written
      PROVE  Silent'
  BY <1>2 DEF RemoteTypeOK, Silent
<1>3. ASSUME NEW h \in Hosts, Ssh(h) PROVE Silent'
  <2>1. CASE Exec(h)
    BY <1>2, <2>1 DEF Exec
  <2>2. ASSUME ~Exec(h) PROVE UNCHANGED <<command, written>>
    BY <1>3, <2>2
       DEF Ssh, Proceed, Connect, Authenticate, Deny, Look, Read,
           NothingToRead, Break, GoOn, GiveUp, Kill, GetExitStatus, Catch,
           BeginPush, EndPush
  <2> QED  BY <1>1, <2>1, <2>2
<1>4. ASSUME NEW h \in Hosts, NEW s \in Streams, Write(h, s) PROVE Silent'
  BY <1>4 DEF Write, RemoteTypeOK, Counts, Silent
<1>5. ASSUME NEW h \in Hosts, Close(h) \/ Exit(h) PROVE Silent'
  BY <1>2, <1>5 DEF Close, Exit
<1>6. ASSUME NEW h \in Hosts, Tick(h) PROVE Silent'
  BY <1>1, <1>6 DEF Tick
<1>7. CASE Return \/ UNCHANGED remoteVars
  BY <1>1, <1>7 DEF Return, remoteVars
<1> QED  BY <1>3, <1>4, <1>5, <1>6, <1>7 DEF RemoteNext, Environment

LEMMA SessionKept == SessionInv /\ [RemoteNext]_remoteVars => SessionInv'
  BY SessionTyped, SessionListed, SessionEnded, SilentKept DEF SessionInv

\* The invariant of the argument above holds in every state.
THEOREM AlwaysSessionInv == RemoteSpec => []SessionInv
<1>1. RemoteInit => SessionInv
  BY SessionsBegin DEF RemoteInit
<1> QED  BY <1>1, SessionKept, PTL DEF RemoteSpec

-----------------------------------------------------------------------------
(* What follows from it.                                                     *)

\* Every variable keeps its type; in particular a session never has more of a
\* stream than was written to it.
THEOREM RemoteTypeCorrect == RemoteSpec => []RemoteTypeOK
<1>1. SessionInv => RemoteTypeOK
  BY DEF SessionInv
<1> QED  BY AlwaysSessionInv, <1>1, PTL

\* Whenever the clocks are read, no command loses a part of its time.
THEOREM NothingCutShortEarly == RemoteSpec => []CutShortOnlyLate
<1>1. SessionInv => CutShortOnlyLate
  BY DEF SessionInv, Clocks, CutShortOnlyLate
<1> QED  BY AlwaysSessionInv, <1>1, PTL

\* However the sessions end and overlap, every host has its one entry.
THEOREM EveryHostListed == RemoteSpec => []OneEntryPerHost
<1>1. ASSUME SessionInv, stage = "returned" PROVE OneEntryPerHost
  <2>1. NamesEveryHost(data)
    BY <1>1 DEF SessionInv, Returned, Entries, NamesEveryHost
  <2>2. Len(data) \in Nat /\ DOMAIN data = 1 .. Len(data)
        /\ \A i \in DOMAIN data : data[i] \in Hosts
    BY <1>1 DEF SessionInv, RemoteTypeOK
  <2>3. data \in Bijection(1 .. Len(data), Hosts)
    <3>1. data \in [1 .. Len(data) -> Hosts]
      BY <1>1 DEF SessionInv, RemoteTypeOK
    <3>2. IsInjective(data)
      BY <1>1 DEF SessionInv, Entries, NamesNoneTwice, IsInjective
    <3> QED  BY <2>1, <2>2, <3>1, <3>2
                DEF NamesEveryHost, Bijection, Injection, Surjection
  <2>4. Cardinality(Hosts) = Len(data)
    BY <2>2, <2>3, FS_CountingElements DEF ExistsBijection
  <2> QED  BY <2>1, <2>4 DEF OneEntryPerHost
<1>2. SessionInv => OneEntryPerHost
  BY <1>1 DEF OneEntryPerHost
<1> QED  BY AlwaysSessionInv, <1>2, PTL
=============================================================================
