---------------------------- MODULE ClusterCheck ----------------------------
(***************************************************************************)
(* shell_output::check of a cluster: either of the JSON of a remote shell  *)
(* command, wherever it comes from (ShellOutput), or of the object itself, *)
(* which is evaluated first (RemoteShell) and then cast: the entry of each *)
(* host holds what its session read, and is checked against the output     *)
(* that is expected.                                                       *)
(*                                                                         *)
(* What a command may say is one text, and an output is its first chunks.  *)
(* An expectation is the set of the outputs that meet it: one, if it is a  *)
(* plain text, those a regex is found in, all of them if that is empty.    *)
(***************************************************************************)
EXTENDS ShellOutput, RemoteShell

CONSTANT
  Expectations  \* bound: what a check may expect

\* config.output, with config.regex: the lengths of the outputs that meet it,
\* and whether it is a regex at all or std::regex throws.
Expectation == [meet : SUBSET Nat, valid : BOOLEAN]
ASSUME ExpectationsAssumption == Expectations \subseteq Expectation

VARIABLE
  expected  \* of the output of each host; chosen when check() gets to it

allVars == <<vars, expected, remoteVars>>

Evaluated == stage # "none"

-----------------------------------------------------------------------------

\* Wrong: the output need only start with one that is expected.
SaidPrefix(h) == \E n \in expected.meet : got[h]["out"] >= n

\* The second rule: stdout == config.output, or the regex is found in stdout.
Said(h) == got[h]["out"] \in expected.meet

\* The answer of the rules to what the session with h read.  The first rule
\* always passes: the cast gives every entry an output.
Verdict(h) ==
  CASE ~expected.valid -> [issue |-> MAYBE, priority |-> NOTICE]
    [] expected.valid /\ Said(h) -> [issue |-> NO, priority |-> INFO]
    [] OTHER -> [issue |-> YES, priority |-> WARNING]

\* check(const json &)
CheckJson ==
  /\ stage # "sessions"
  /\ Next
  /\ Evaluated =>
       \A h \in Hosts :
         pc[h] = "ready" /\ pc'[h] = "lock" => child'[h] = Verdict(h)
  /\ UNCHANGED <<expected, remoteVars>>

\* d.evaluate(); the JSON is then handed to check(const json &).
Evaluate ==
  /\ RemoteNext
  /\ expected' \in IF stage' = "returned" THEN Expectations ELSE {expected}
  /\ UNCHANGED vars

\* Every output of an evaluated object is a string: no iteration throws, and
\* what would become of an exception makes no difference.
ClusterInit ==
  /\ Init
  /\ Start("none") \/ (RemoteInit /\ malformed = {} /\ ~terminates)
  /\ expected = [meet |-> {}, valid |-> TRUE]

ClusterNext == Evaluate \/ CheckJson

ClusterSpec == ClusterInit /\ [][ClusterNext]_allVars

\* Every session goes on while it can, and every time ends.  No command need
\* end, signal or not, and no connection need get lost.
ClusterFairSpec ==
  /\ ClusterSpec
  /\ \A h \in Hosts :
       /\ WF_allVars(Proceed(h) /\ UNCHANGED <<vars, expected>>)
       /\ WF_allVars(Tick(h) /\ UNCHANGED <<vars, expected>>)
       /\ WF_allVars(CheckJson /\ Iterate(h))
  /\ WF_allVars(Return /\ Evaluate)
  /\ WF_allVars(CheckJson /\ (Join \/ PropagateIssue \/ PropagatePriority))

-----------------------------------------------------------------------------
(* Properties                                                                *)

\* A check that finds no issue read, from every host, what meets its
\* expectation; so, unless no output does, each was reached and let us in, and
\* all that one said whose session was not cut short meets it.
NoIssueMeansEveryHostSaidIt ==
  Evaluated /\ caller = "returned" /\ issue = NO =>
    \A h \in Hosts :
      /\ 0 \notin expected.meet =>
           /\ command[h] # "none"
           /\ \E n \in expected.meet : n <= written[h]["out"]
      /\ ending[h] = "eof" => written[h]["out"] \in expected.meet

\* The exit status of h's command is waited for, and it goes on: it was told to
\* end; or it closed its streams, which is taken for its end; or the clock was
\* read at the very end of its time, so that it is neither read from nor told.
WaitsForEver(h) ==
  /\ At(h, "exit") /\ command[h] # "over"
  /\ killed[h] \/ command[h] = "closed" \/ elapsed[h] = "at"

\* The check comes to an end, with or without a result, unless the command of
\* some host never does and the session waits for it in one of these ways: a
\* command that runs on with its streams open does not go unsignalled, one that
\* ends does not hold anybody up, and nothing but a command does.
CheckEnds ==
  <>(caller \in Over) \/ \E h \in Hosts : <>[]WaitsForEver(h)
=============================================================================
