------------------------- MODULE ClusterCheckProof --------------------------
(***************************************************************************)
(* However many hosts there are and whatever their sessions come to, a     *)
(* check that finds no issue stands for what every one of them said.       *)
(*                                                                         *)
(* The argument: the steps of the sessions are those of RemoteShell and    *)
(* the steps of the check those of ShellOutput, and neither touches the    *)
(* other's variables, so the invariants of both proofs hold of the two     *)
(* together (BothKept).  No iteration of the check of an evaluated object  *)
(* gets past its rules before the evaluation has returned, and from then   *)
(* on no session moves: the child of a host remains the verdict on all its *)
(* session ever reads (Judged).                                            *)
(***************************************************************************)
EXTENDS ClusterCheck, ShellOutputProof, RemoteShellProof

Judged ==
  Evaluated =>
    \A h \in Hosts :
      pc[h] \in {"lock", "push", "done"} =>
        stage = "returned" /\ child[h] = Verdict(h)

ClusterInv == Inv /\ SessionInv /\ expected \in Expectation /\ Judged

-----------------------------------------------------------------------------

LEMMA BothKept ==
  Inv /\ SessionInv /\ expected \in Expectation /\ [ClusterNext]_allVars =>
    Inv' /\ SessionInv' /\ expected' \in Expectation
<1>1. [ClusterNext]_allVars => [Next]_vars /\ [RemoteNext]_remoteVars
  BY DEF ClusterNext, Evaluate, CheckJson, allVars
<1>2. [ClusterNext]_allVars => expected' = expected \/ expected' \in Expectations
  BY DEF ClusterNext, Evaluate, CheckJson, allVars
<1> QED  BY <1>1, <1>2, Kept, SessionKept, ExpectationsAssumption

\* A session never moves once evaluate() has returned.
LEMMA NothingAfterReturn == RemoteNext => stage = "sessions"
  BY DEF RemoteNext, Ssh, Proceed, Environment, Return, Connect, Authenticate,
         Deny, Exec, Look, Read, NothingToRead, Break, GoOn, GiveUp, Kill,
         GetExitStatus, Catch, BeginPush, EndPush, Tick, Write, Close, Exit,
         At, Watched, InLoop

LEMMA StageMoves == RemoteNext => stage' \in {"sessions", "returned"}
<1>1. CASE Return
  BY <1>1 DEF Return
<1>2. ASSUME NEW h \in Hosts, Ssh(h) \/ Environment(h) PROVE stage' = stage
  BY <1>2
     DEF Ssh, Proceed, Environment, Connect, Authenticate, Deny, Exec, Look,
         Read, NothingToRead, Break, Leave, GoOn, GiveUp, Kill, GetExitStatus,
         Catch, BeginPush, EndPush, Tick, Write, Close, Exit
<1> QED  BY <1>1, <1>2, NothingAfterReturn DEF RemoteNext

LEMMA JudgedKept ==
  TypeOK /\ RemoteTypeOK /\ Judged /\ [ClusterNext]_allVars => Judged'
<1> SUFFICES ASSUME TypeOK, RemoteTypeOK, Judged, [ClusterNext]_allVars
             PROVE  Judged'
  OBVIOUS
<1>1. CASE Evaluate
  <2>1. /\ stage = "sessions" /\ UNCHANGED pc
    BY <1>1, NothingAfterReturn DEF Evaluate, vars
  <2>2. \A h \in Hosts : pc'[h] \notin {"lock", "push", "done"}
    BY <2>1 DEF Judged, Evaluated
  <2> QED  BY <2>2 DEF Judged
<1>2. CASE CheckJson /\ Evaluated
  <2>1. /\ stage = "returned" /\ UNCHANGED <<stage, got, expected>>
        /\ Next
    BY <1>2 DEF CheckJson, Evaluated, remoteVars, RemoteTypeOK
  <2>2. ASSUME NEW h \in Hosts, pc'[h] \in {"lock", "push", "done"}
        PROVE  child'[h] = Verdict(h)
    <3>1. CASE pc[h] = "ready"
      <4>1. pc'[h] = "lock"
        BY <2>1, <2>2, <3>1
           DEF Next, Iterate, CheckHost, Throw, Cancel, BeginAdd, EndAdd, Join,
               PropagateIssue, PropagatePriority, Done, vars, Goto, TypeOK
      <4> QED  BY <1>2, <3>1, <4>1 DEF CheckJson
    <3>2. CASE pc[h] # "ready"
      <4>1. pc[h] \in {"lock", "push", "done"} /\ child'[h] = child[h]
        <5>1. ASSUME NEW g \in Hosts, CheckHost(g)
              PROVE  pc'[h] = pc[h] /\ child'[h] = child[h]
          BY <3>2, <5>1 DEF CheckHost, Goto, TypeOK
        <5>2. ASSUME NEW g \in Hosts,
                     Throw(g) \/ Cancel(g) \/ BeginAdd(g) \/ EndAdd(g)
              PROVE  pc[h] \in {"lock", "push", "done"} /\ child' = child
          BY <2>2, <5>2
             DEF Throw, Cancel, BeginAdd, EndAdd, Goto, TypeOK
        <5>3. ASSUME Join \/ PropagateIssue \/ PropagatePriority \/ Done
              PROVE  pc' = pc /\ child' = child
          BY <5>3 DEF Join, PropagateIssue, PropagatePriority, Done, vars
        <5> QED  BY <2>1, <2>2, <5>1, <5>2, <5>3 DEF Next, Iterate
      <4> QED  BY <1>2, <4>1 DEF Judged
    <3> QED  BY <3>1, <3>2
  <2>3. \A h \in Hosts : Verdict(h)' = Verdict(h)
    BY <2>1 DEF Verdict, Said
  <2> QED  BY <2>1, <2>2, <2>3 DEF Judged
<1>3. CASE CheckJson /\ ~Evaluated
  BY <1>3 DEF CheckJson, Evaluated, remoteVars, Judged
<1>4. CASE UNCHANGED allVars
  <2>1. UNCHANGED <<pc, child, stage, got, expected>>
    BY <1>4 DEF allVars, vars, remoteVars
  <2>2. \A h \in Hosts : Verdict(h)' = Verdict(h)
    BY <2>1 DEF Verdict, Said
  <2> QED  BY <2>1, <2>2 DEF Judged, Evaluated
<1> QED  BY <1>1, <1>2, <1>3, <1>4 DEF ClusterNext

\* What is proved of the check and of the sessions each by itself holds of the
\* two together, whether the JSON is that of an evaluated object or not.
THEOREM AlwaysClusterInv == ClusterSpec => []ClusterInv
<1>1. ClusterInit => ClusterInv
  <2> SUFFICES ASSUME ClusterInit PROVE ClusterInv
    OBVIOUS
  <2>1. Inv
    BY Initially DEF ClusterInit
  <2>2. SessionInv
    BY SessionsBegin DEF ClusterInit, RemoteInit
  <2>3. expected \in Expectation
    BY DEF ClusterInit, Expectation
  <2>4. Judged
    <3>1. \A h \in Hosts : pc[h] = "ready"
      BY DEF ClusterInit, Init
    <3> QED  BY <3>1 DEF Judged
  <2> QED  BY <2>1, <2>2, <2>3, <2>4 DEF ClusterInv
<1>2. ClusterInv /\ [ClusterNext]_allVars => ClusterInv'
  BY BothKept, JudgedKept DEF ClusterInv, Inv, SessionInv
<1> QED  BY <1>1, <1>2, PTL DEF ClusterSpec

\* If check() of an evaluated object finds no issue, what each host's session
\* read meets the expectation; it is all the command said if the session came to
\* the end of the file, and something only if the command was run.
THEOREM NoIssueAlwaysMeansEveryHostSaidIt ==
  ClusterSpec => []NoIssueMeansEveryHostSaidIt
<1>1. ASSUME ClusterInv, Evaluated, caller = "returned", issue = NO,
             NEW h \in Hosts
      PROVE  /\ 0 \notin expected.meet =>
                  /\ command[h] # "none"
                  /\ \E n \in expected.meet : n <= written[h]["out"]
             /\ ending[h] = "eof" => written[h]["out"] \in expected.meet
  <2>1. child[h].issue <= NO /\ child[h] \in ResultOf
    BY <1>1, InvGivesWorst DEF ClusterInv, WorstHostDecides, Inv, TypeOK
  <2>2. child[h].issue = NO
    BY <2>1 DEF ResultOf, NO, YES, MAYBE
  <2>3. pc[h] = "done" /\ child[h] = Verdict(h)
    BY <1>1 DEF ClusterInv, Inv, Joined, Judged
  <2>4. got[h]["out"] \in expected.meet
    BY <2>2, <2>3 DEF Verdict, Said, NO, YES, MAYBE
  <2>5. "out" \in Streams
    BY DEF Streams
  <2>6. /\ written[h]["out"] \in Nat /\ got[h]["out"] \in Nat
        /\ got[h]["out"] <= written[h]["out"]
    BY <1>1, <2>5 DEF ClusterInv, SessionInv, RemoteTypeOK, Counts
  <2>7. 0 \notin expected.meet => command[h] # "none"
    <3>1. command[h] = "none" => written[h]["out"] = 0
      BY <1>1, <2>5 DEF ClusterInv, SessionInv, Silent
    <3>2. command[h] = "none" => got[h]["out"] = 0
      BY <2>6, <3>1
    <3> QED  BY <2>4, <3>2
  <2>8. ending[h] = "eof" => written[h]["out"] \in expected.meet
    BY <1>1, <2>4 DEF ClusterInv, SessionInv, Heard
  <2> QED  BY <2>4, <2>6, <2>7, <2>8
<1>2. ClusterInv => NoIssueMeansEveryHostSaidIt
  BY <1>1 DEF NoIssueMeansEveryHostSaidIt
<1> QED  BY AlwaysClusterInv, <1>2, PTL
=============================================================================
