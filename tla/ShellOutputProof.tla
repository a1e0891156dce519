-------------------------- MODULE ShellOutputProof --------------------------
(***************************************************************************)
(* However many hosts there are, shell_output::check loses none of them    *)
(* and reports the worst.                                                  *)
(*                                                                         *)
(* The argument: while an iteration is in push_back it holds the mutex     *)
(* alone, so the end of the vector it found is still the end (Pushing);    *)
(* hence the vector names exactly the iterations that are done, each once  *)
(* (Tree).  An iteration is only cancelled when another one threw, and     *)
(* for_each then throws too, so a caller that gets past it finds every     *)
(* iteration done (Joined), and the maxima it takes range over all hosts.  *)
(***************************************************************************)
EXTENDS ShellOutput, TLAPS

Pushing ==
  \A h \in Hosts : pc[h] = "push" => mutex = {h} /\ size[h] = Len(children)

Tree ==
  /\ \A i \in DOMAIN children : pc[children[i]] = "done"
  /\ \A h \in Hosts : pc[h] = "done" => \E i \in DOMAIN children : children[i] = h
  /\ NamesNoneTwice(children)

Failing ==
  /\ \A h \in malformed : pc[h] \in {"ready", "threw", "cancelled"}
  /\ \A h \in Hosts : pc[h] = "cancelled" => Threw

Joined ==
  /\ caller \in {"issue", "priority", "returned"} =>
       \A h \in Hosts : pc[h] = "done"
  /\ caller \in {"priority", "returned"} =>
       issue = MaxOr({child[h].issue : h \in Reported}, NewResult.issue)
  /\ caller = "returned" =>
       priority = MaxOr({child[h].priority : h \in Reported}, NewResult.priority)

Inv == TypeOK /\ Pushing /\ Tree /\ Failing /\ Joined

-----------------------------------------------------------------------------
(* Maxima of issues and of priorities.                                       *)

LEMMA MaxOrIsLargest ==
  ASSUME NEW S, S \subseteq 0 .. 3, NEW d \in 0 .. 3
  PROVE  /\ MaxOr(S, d) \in 0 .. 3
         /\ S # {} => MaxOr(S, d) \in S /\ \A x \in S : x <= MaxOr(S, d)
<1>1. CASE S = {}
  BY <1>1 DEF MaxOr
<1>2. CASE S # {}
  <2>1. \E m \in S : \A x \in S : m >= x
    <3>1. CASE 3 \in S  BY <3>1
    <3>2. CASE 3 \notin S /\ 2 \in S  BY <3>2
    <3>3. CASE 3 \notin S /\ 2 \notin S /\ 1 \in S  BY <3>3
    <3>4. CASE 3 \notin S /\ 2 \notin S /\ 1 \notin S
      <4>1. \A x \in S : x = 0
        BY <3>4
      <4>2. PICK m \in S : TRUE
        BY <1>2
      <4>3. \A x \in S : m >= x
        BY <4>1
      <4> QED  BY <4>3
    <3> QED  BY <3>1, <3>2, <3>3, <3>4
  <2>2. Max(S) \in S /\ \A x \in S : Max(S) >= x
    BY <2>1 DEF Max
  <2> QED  BY <1>2, <2>2 DEF MaxOr
<1> QED  BY <1>1, <1>2

LEMMA LargestIssue ==
  ASSUME NEW S, S \subseteq {NO, YES, MAYBE}
  PROVE  MaxOr(S, NewResult.issue) \in {NO, YES, MAYBE}
<1>1. S \subseteq 0 .. 3 /\ NewResult.issue \in 0 .. 3
  BY DEF NO, YES, MAYBE, NewResult
<1>2. CASE S = {}
  BY <1>2 DEF MaxOr, NewResult
<1>3. CASE S # {}
  <2>1. MaxOr(S, NewResult.issue) \in S
    BY <1>1, <1>3, MaxOrIsLargest
  <2> QED  BY <2>1
<1> QED  BY <1>2, <1>3

LEMMA LargestPriority ==
  ASSUME NEW S, S \subseteq {INFO, WARNING, NOTICE}
  PROVE  MaxOr(S, NewResult.priority) \in {INFO, WARNING, NOTICE}
<1>1. S \subseteq 0 .. 3 /\ NewResult.priority \in 0 .. 3
  BY DEF INFO, WARNING, NOTICE, NewResult
<1>2. CASE S = {}
  BY <1>2 DEF MaxOr, NewResult
<1>3. CASE S # {}
  <2>1. MaxOr(S, NewResult.priority) \in S
    BY <1>1, <1>3, MaxOrIsLargest
  <2> QED  BY <2>1
<1> QED  BY <1>2, <1>3

LEMMA ChildrenAreResults ==
  ASSUME TypeOK, NEW S \in SUBSET Hosts
  PROVE  /\ {child[h].issue : h \in S} \subseteq {NO, YES, MAYBE}
         /\ {child[h].priority : h \in S} \subseteq {INFO, WARNING, NOTICE}
  BY DEF TypeOK, ResultOf

LEMMA ReportedAreHosts == TypeOK => Reported \in SUBSET Hosts
  BY DEF TypeOK, Reported

-----------------------------------------------------------------------------
(* The invariant.                                                            *)

LEMMA Initially == Init => Inv
<1> SUFFICES ASSUME Init PROVE Inv
  OBVIOUS
<1>1. TypeOK
  BY DEF Init, TypeOK, Labels, ResultOf, NewResult, Issues, Over
<1>2. Pushing /\ Tree
  BY DEF Init, Pushing, Tree, NamesNoneTwice
<1>3. Failing /\ Joined
  BY DEF Init, Failing, Joined
<1> QED  BY <1>1, <1>2, <1>3 DEF Inv

LEMMA Typed == TypeOK /\ Pushing /\ [Next]_vars => TypeOK'
<1> SUFFICES ASSUME TypeOK, Pushing, [Next]_vars PROVE TypeOK'
  OBVIOUS
<1> USE DEF TypeOK, Labels, Over, Goto, given, PushBackAt
<1>1. ASSUME NEW h \in Hosts, CheckHost(h) PROVE TypeOK'
  BY <1>1 DEF CheckHost
<1>2. ASSUME NEW h \in Hosts, Throw(h) \/ Cancel(h) PROVE TypeOK'
  BY <1>2 DEF Throw, Cancel
<1>3. ASSUME NEW h \in Hosts, BeginAdd(h) PROVE TypeOK'
  BY <1>3 DEF BeginAdd
<1>4. ASSUME NEW h \in Hosts, EndAdd(h) PROVE TypeOK'
  <2>1. SubSeq(children, 1, size[h]) = children
    BY <1>4 DEF EndAdd, Pushing
  <2>2. Append(children, h) \in Seq(Hosts)
    OBVIOUS
  <2>3. children' \in Seq(Hosts)
    BY <1>4, <2>1, <2>2 DEF EndAdd
  <2> QED  BY <1>4, <2>3 DEF EndAdd
<1>5. CASE Join
  BY <1>5 DEF Join
<1>6. CASE PropagateIssue
  <2> DEFINE S == {child[h].issue : h \in Reported}
  <2>1. S \subseteq {NO, YES, MAYBE}
    BY ChildrenAreResults, ReportedAreHosts
  <2>2. MaxOr(S, NewResult.issue) \in {NO, YES, MAYBE}
    BY <2>1, LargestIssue
  <2>3. issue' \in Issues
    BY <1>6, <2>2 DEF PropagateIssue, Issues
  <2> QED  BY <1>6, <2>3 DEF PropagateIssue
<1>7. CASE PropagatePriority
  <2> DEFINE S == {child[h].priority : h \in Reported}
  <2>1. S \subseteq {INFO, WARNING, NOTICE}
    BY ChildrenAreResults, ReportedAreHosts
  <2>2. MaxOr(S, NewResult.priority) \in {INFO, WARNING, NOTICE}
    BY <2>1, LargestPriority
  <2>3. priority' \in {INFO, NOTICE, WARNING}
    BY <1>7, <2>2 DEF PropagatePriority
  <2> QED  BY <1>7, <2>3 DEF PropagatePriority
<1>8. CASE Done \/ UNCHANGED vars
  BY <1>8 DEF Done, vars, given
<1> QED  BY <1>1, <1>2, <1>3, <1>4, <1>5, <1>6, <1>7, <1>8 DEF Next, Iterate

LEMMA Pushed == TypeOK /\ Pushing /\ [Next]_vars => Pushing'
<1> SUFFICES ASSUME TypeOK, Pushing, [Next]_vars PROVE Pushing'
  OBVIOUS
<1> USE DEF TypeOK, Pushing, Goto, given, PushBackAt
<1>1. ASSUME NEW h \in Hosts, CheckHost(h) \/ Throw(h) \/ Cancel(h)
      PROVE  Pushing'
  BY <1>1 DEF CheckHost, Throw, Cancel
<1>2. ASSUME NEW h \in Hosts, BeginAdd(h) PROVE Pushing'
  BY <1>2 DEF BeginAdd
<1>3. ASSUME NEW h \in Hosts, EndAdd(h) PROVE Pushing'
  BY <1>3 DEF EndAdd
<1>4. CASE Join \/ PropagateIssue \/ PropagatePriority \/ Done \/ UNCHANGED vars
  BY <1>4 DEF Join, PropagateIssue, PropagatePriority, Done, vars, given
<1> QED  BY <1>1, <1>2, <1>3, <1>4 DEF Next, Iterate

LEMMA TreeKept == TypeOK /\ Pushing /\ Tree /\ [Next]_vars => Tree'
<1> SUFFICES ASSUME TypeOK, Pushing, Tree, [Next]_vars PROVE Tree'
  OBVIOUS
<1>1. ASSUME NEW h \in Hosts,
             CheckHost(h) \/ Throw(h) \/ Cancel(h) \/ BeginAdd(h)
      PROVE  Tree'
  BY <1>1 DEF TypeOK, Tree, CheckHost, Throw, Cancel, BeginAdd, Goto,
              NamesNoneTwice
<1>2. ASSUME NEW h \in Hosts, EndAdd(h) PROVE Tree'
  <2>1. children' = Append(children, h) /\ pc[h] = "push"
    BY <1>2 DEF EndAdd, Pushing, TypeOK, PushBackAt
  <2>2. pc' = [pc EXCEPT ![h] = "done"]
    BY <1>2 DEF EndAdd, Goto
  <2>3. DOMAIN children' = DOMAIN children \union {Len(children) + 1}
    BY <2>1 DEF TypeOK
  <2>4. /\ \A i \in DOMAIN children : children'[i] = children[i]
        /\ children'[Len(children) + 1] = h
    BY <2>1 DEF TypeOK
  <2>5. \A i \in DOMAIN children : children[i] # h
    BY <2>1 DEF Tree
  <2>6. \A i \in DOMAIN children' : pc'[children'[i]] = "done"
    BY <2>2, <2>3, <2>4 DEF Tree, TypeOK
  <2>7. ASSUME NEW g \in Hosts, pc'[g] = "done"
        PROVE  \E i \in DOMAIN children' : children'[i] = g
    BY <2>2, <2>3, <2>4, <2>7 DEF Tree, TypeOK
  <2>8. NamesNoneTwice(children')
    BY <2>3, <2>4, <2>5 DEF Tree, NamesNoneTwice
  <2> QED  BY <2>6, <2>7, <2>8 DEF Tree
<1>3. CASE Join \/ PropagateIssue \/ PropagatePriority \/ Done \/ UNCHANGED vars
  BY <1>3 DEF Tree, Join, PropagateIssue, PropagatePriority, Done, vars, given,
              NamesNoneTwice
<1> QED  BY <1>1, <1>2, <1>3 DEF Next, Iterate

LEMMA FailingKept == TypeOK /\ Failing /\ [Next]_vars => Failing'
<1> SUFFICES ASSUME TypeOK, Failing, [Next]_vars PROVE Failing'
  OBVIOUS
<1> USE DEF TypeOK, Failing, Threw, Goto, given
<1>1. ASSUME NEW h \in Hosts, CheckHost(h) \/ BeginAdd(h) \/ EndAdd(h)
      PROVE  Failing'
  BY <1>1 DEF CheckHost, BeginAdd, EndAdd
<1>2. ASSUME NEW h \in Hosts, Throw(h) PROVE Failing'
  BY <1>2 DEF Throw
<1>3. ASSUME NEW h \in Hosts, Cancel(h) PROVE Failing'
  BY <1>3 DEF Cancel
<1>4. CASE Join \/ PropagateIssue \/ PropagatePriority \/ Done \/ UNCHANGED vars
  BY <1>4 DEF Join, PropagateIssue, PropagatePriority, Done, vars, given
<1> QED  BY <1>1, <1>2, <1>3, <1>4 DEF Next, Iterate

LEMMA JoinedKept == Inv /\ [Next]_vars => Joined'
<1> SUFFICES ASSUME Inv, [Next]_vars PROVE Joined'
  OBVIOUS
<1> USE DEF Inv, Joined
<1>1. ASSUME NEW h \in Hosts, Iterate(h) PROVE Joined'
  <2>1. caller' \in {"fanout", "terminated"}
    BY <1>1 DEF Iterate, CheckHost, Throw, Cancel, BeginAdd, EndAdd
  <2> QED  BY <2>1
<1>2. CASE Join
  <2>1. caller' = "threw" \/ (caller' = "issue" /\ ~Threw)
    BY <1>2 DEF Join
  <2>2. ASSUME caller' = "issue" PROVE \A h \in Hosts : pc'[h] = "done"
    BY <1>2, <2>1, <2>2 DEF Join, Failing, Threw
  <2> QED  BY <2>1, <2>2
<1>3. CASE PropagateIssue
  BY <1>3 DEF PropagateIssue, Reported
<1>4. CASE PropagatePriority
  BY <1>4 DEF PropagatePriority, Reported
<1>5. CASE Done \/ UNCHANGED vars
  BY <1>5 DEF Done, vars, given, Reported
<1> QED  BY <1>1, <1>2, <1>3, <1>4, <1>5 DEF Next

LEMMA Kept == Inv /\ [Next]_vars => Inv'
  BY Typed, Pushed, TreeKept, FailingKept, JoinedKept DEF Inv

\* The invariant of the argument above holds in every state.
THEOREM AlwaysInv == Spec => []Inv
  BY Initially, Kept, PTL DEF Spec

-----------------------------------------------------------------------------
(* What follows from it.                                                     *)

\* The type invariant of the parallel check.
THEOREM CheckTypeCorrect == Spec => []TypeOK
<1>1. Inv => TypeOK
  BY DEF Inv
<1> QED  BY <1>1, AlwaysInv, PTL

\* However the iterations overlap, every host has its one child.
THEOREM EveryHostReported == Spec => []OneChildPerHost
<1>1. Inv => OneChildPerHost
  BY DEF Inv, Joined, Tree, OneChildPerHost, NamesEveryHost
<1> QED  BY AlwaysInv, <1>1, PTL

\* A result is only returned if no host was left out.
THEOREM NoHostIgnored == Spec => []MalformedIsNotIgnored
<1>1. Inv => MalformedIsNotIgnored
  BY DEF Inv, TypeOK, Joined, Failing, MalformedIsNotIgnored
<1> QED  BY AlwaysInv, <1>1, PTL

LEMMA InvGivesWorst == Inv => WorstHostDecides
<1>1. ASSUME Inv, caller = "returned", Hosts # {} PROVE WorstHostDecides
  <2> DEFINE I == {child[h].issue : h \in Hosts}
             P == {child[h].priority : h \in Hosts}
  <2>1. Reported = Hosts
    BY <1>1 DEF Inv, Joined, Tree, Reported, TypeOK
  <2>2. issue = MaxOr(I, NewResult.issue) /\ priority = MaxOr(P, NewResult.priority)
    BY <1>1, <2>1 DEF Inv, Joined
  <2>3. I \subseteq 0 .. 3 /\ P \subseteq 0 .. 3 /\ I # {} /\ P # {}
    <3>1. I \subseteq {NO, YES, MAYBE} /\ P \subseteq {INFO, WARNING, NOTICE}
      BY <1>1, ChildrenAreResults DEF Inv
    <3>2. PICK h \in Hosts : TRUE
      BY <1>1
    <3>3. child[h].issue \in I /\ child[h].priority \in P
      BY <3>2
    <3>4. {NO, YES, MAYBE} \subseteq 0 .. 3 /\ {INFO, WARNING, NOTICE} \subseteq 0 .. 3
      BY DEF NO, MAYBE, YES, INFO, NOTICE, WARNING
    <3> QED  BY <3>1, <3>3, <3>4
  <2>4. NewResult.issue \in 0 .. 3 /\ NewResult.priority \in 0 .. 3
    BY DEF NewResult, MAYBE, NOTICE
  <2>5. issue \in I /\ \A x \in I : x <= issue
    BY <2>2, <2>3, <2>4, MaxOrIsLargest
  <2>6. priority \in P /\ \A x \in P : x <= priority
    BY <2>2, <2>3, <2>4, MaxOrIsLargest
  <2> QED  BY <2>5, <2>6 DEF WorstHostDecides
<1> QED  BY <1>1 DEF WorstHostDecides

\* The returned issue and priority are those of the worst hosts.
THEOREM WorstHostAlwaysDecides == Spec => []WorstHostDecides
  BY AlwaysInv, InvGivesWorst, PTL
=============================================================================
