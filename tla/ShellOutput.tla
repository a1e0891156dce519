---------------------------- MODULE ShellOutput -----------------------------
(***************************************************************************)
(* shell_output::check on the JSON of a remote_shell_command: the rules    *)
(* are applied to the output of every host by a parallel for_each, each    *)
(* iteration adds a child to the one result, and when all are over the     *)
(* result takes the worst issue and priority of its children.              *)
(*                                                                         *)
(* An iteration throws if the output it finds is not a string.  for_each   *)
(* by TBB, or one iteration after the other, then starts no further ones,  *)
(* lets the others end and throws to the caller; for_each by libdispatch   *)
(* or the standard library's parallel policy ends the program.             *)
(*                                                                         *)
(* The hosts are the entries of the "data" array; one iteration each.      *)
(***************************************************************************)
EXTENDS HostEntries, FiniteSetsExt, Severity

VARIABLES
  malformed,   \* hosts whose output is not a string; chosen once
  terminates,  \* an exception in an iteration ends the program; chosen once
  pc,        \* per host: where its iteration stands
  child,     \* per host: the result of its rules
  size,      \* per host: end of the vector its push_back writes to
  mutex,     \* result.cpp's mutex: the iterations that hold it
  children,  \* the result's children, named by their hosts
  caller,    \* where check() stands
  issue, priority  \* of the result

given == <<malformed, terminates>>
vars == <<given, pc, child, size, mutex, children, caller, issue, priority>>

\* What rules_engine::check makes of one host's output.
ResultOf == {[issue |-> NO, priority |-> INFO],
             [issue |-> YES, priority |-> WARNING],
             [issue |-> MAYBE, priority |-> NOTICE]}

Goto(h, label) == pc' = [pc EXCEPT ![h] = label]
Threw == \E h \in Hosts : pc[h] = "threw"

-----------------------------------------------------------------------------
(* One iteration                                                             *)

\* rules_engine::check: it shares the rules with the other iterations, which
\* only read them.
CheckHost(h) ==
  /\ caller = "fanout"
  /\ pc[h] = "ready" /\ h \notin malformed
  /\ child' \in {[child EXCEPT ![h] = r] : r \in ResultOf}
  /\ Goto(h, "lock")
  /\ UNCHANGED <<given, size, mutex, children, caller, issue, priority>>

Throw(h) ==
  /\ caller = "fanout"
  /\ pc[h] = "ready" /\ h \in malformed
  /\ Goto(h, "threw")
  /\ caller' = IF terminates THEN "terminated" ELSE "fanout"
  /\ UNCHANGED <<given, child, size, mutex, children, issue, priority>>

\* An iteration that was not started when another one threw never is.
Cancel(h) ==
  /\ caller = "fanout"
  /\ pc[h] = "ready" /\ Threw
  /\ Goto(h, "cancelled")
  /\ UNCHANGED <<given, child, size, mutex, children, caller, issue, priority>>

\* Wrong: add_child without its lock_guard.
BeginAddUnlocked(h) ==
  /\ caller = "fanout"
  /\ pc[h] = "lock"
  /\ size' = [size EXCEPT ![h] = Len(children)]
  /\ Goto(h, "push")
  /\ UNCHANGED <<given, child, mutex, children, caller, issue, priority>>

\* add_child: lock_guard, and push_back finds the end of the vector.
BeginAdd(h) ==
  /\ caller = "fanout"
  /\ pc[h] = "lock" /\ mutex = {}
  /\ mutex' = {h}
  /\ size' = [size EXCEPT ![h] = Len(children)]
  /\ Goto(h, "push")
  /\ UNCHANGED <<given, child, children, caller, issue, priority>>

EndAdd(h) ==
  /\ caller = "fanout"
  /\ pc[h] = "push"
  /\ children' = PushBackAt(children, size[h], h)
  /\ mutex' = mutex \ {h}
  /\ Goto(h, "done")
  /\ UNCHANGED <<given, child, size, caller, issue, priority>>

-----------------------------------------------------------------------------
(* check()                                                                   *)

\* Wrong: for_each does not wait for all of its iterations.
JoinEarly ==
  /\ caller = "fanout"
  /\ \A h \in Hosts : pc[h] # "ready"
  /\ caller' = IF Threw THEN "threw" ELSE "issue"
  /\ UNCHANGED <<given, pc, child, size, mutex, children, issue, priority>>

\* Wrong: an exception of an iteration gets lost.
JoinForgiving ==
  /\ caller = "fanout"
  /\ \A h \in Hosts : pc[h] \in {"done", "threw", "cancelled"}
  /\ caller' = "issue"
  /\ UNCHANGED <<given, pc, child, size, mutex, children, issue, priority>>

\* for_each returns, or throws what an iteration threw.
Join ==
  /\ caller = "fanout"
  /\ \A h \in Hosts : pc[h] \in {"done", "threw", "cancelled"}
  /\ caller' = IF Threw THEN "threw" ELSE "issue"
  /\ UNCHANGED <<given, pc, child, size, mutex, children, issue, priority>>

\* The default if there is nothing to take the maximum of.
MaxOr(S, default) == IF S = {} THEN default ELSE Max(S)
Reported == {children[i] : i \in DOMAIN children}

\* Wrong: the children's priorities are taken for their issues.
PropagateIssueByPriority ==
  /\ caller = "issue" /\ mutex = {}
  /\ issue' = MaxOr({child[h].priority : h \in Reported}, NewResult.issue)
  /\ caller' = "priority"
  /\ UNCHANGED <<given, pc, child, size, mutex, children, priority>>

\* propagate(): each maximum locks the mutex for its own look at the children,
\* none of which has children of its own.
PropagateIssue ==
  /\ caller = "issue" /\ mutex = {}
  /\ issue' = MaxOr({child[h].issue : h \in Reported}, NewResult.issue)
  /\ caller' = "priority"
  /\ UNCHANGED <<given, pc, child, size, mutex, children, priority>>

PropagatePriority ==
  /\ caller = "priority" /\ mutex = {}
  /\ priority' = MaxOr({child[h].priority : h \in Reported}, NewResult.priority)
  /\ caller' = "returned"
  /\ UNCHANGED <<given, pc, child, size, mutex, children, issue>>

Init ==
  /\ malformed \in SUBSET Hosts
  /\ terminates \in BOOLEAN
  /\ pc = [h \in Hosts |-> "ready"]
  /\ child = [h \in Hosts |-> NewResult]
  /\ size = [h \in Hosts |-> 0]
  /\ mutex = {}
  /\ children = <<>>
  /\ caller = "fanout"
  /\ issue = NewResult.issue
  /\ priority = NewResult.priority

Iterate(h) == CheckHost(h) \/ Throw(h) \/ Cancel(h) \/ BeginAdd(h) \/ EndAdd(h)

Over == {"returned", "threw", "terminated"}
Done == caller \in Over /\ UNCHANGED vars

Next ==
  \/ \E h \in Hosts : Iterate(h)
  \/ Join \/ PropagateIssue \/ PropagatePriority
  \/ Done

Spec == Init /\ [][Next]_vars

-----------------------------------------------------------------------------
(* Properties                                                                *)

Labels == {"ready", "lock", "push", "done", "threw", "cancelled"}

TypeOK ==
  /\ malformed \in SUBSET Hosts
  /\ terminates \in BOOLEAN
  /\ pc \in [Hosts -> Labels]
  /\ child \in [Hosts -> ResultOf]
  /\ size \in [Hosts -> Nat]
  /\ mutex \in SUBSET Hosts
  /\ children \in Seq(Hosts)
  /\ caller \in Over \union {"fanout", "issue", "priority"}
  /\ issue \in Issues
  /\ priority \in {INFO, NOTICE, WARNING}

\* A result that is returned has one child for every host: however the
\* iterations overlap, none is lost and none is there twice.
OneChildPerHost ==
  caller \in {"issue", "priority", "returned"} =>
    NamesEveryHost(children) /\ NamesNoneTwice(children)

\* No host with an issue is hidden: the result's issue and priority are the
\* worst among the hosts, and one of them has it.
WorstHostDecides ==
  caller = "returned" /\ Hosts # {} =>
    /\ \A h \in Hosts : child[h].issue <= issue /\ child[h].priority <= priority
    /\ \E h \in Hosts : child[h].issue = issue
    /\ \E h \in Hosts : child[h].priority = priority

\* Hosts are checked all or not at all: if one of them cannot be checked there
\* is no result that looks complete without it.
MalformedIsNotIgnored ==
  caller \in {"issue", "priority", "returned"} => malformed = {}
=============================================================================
