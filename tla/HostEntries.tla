----------------------------- MODULE HostEntries -----------------------------
(***************************************************************************)
(* A vector that gets one entry for each host, named by the host here: the *)
(* list of a remote_shell_command, and the children of the result of       *)
(* shell_output::check.  Either is filled by the iterations of a parallel  *)
(* for_each, on threads of their own, so a push_back is not one step: it   *)
(* finds the end of the vector, and writes its entry there later.          *)
(***************************************************************************)
EXTENDS Sequences, FiniteSets, Naturals

\* The hosts a command is run on, and its output checked from.
CONSTANT Hosts

ASSUME HostsAssumption == IsFiniteSet(Hosts)

\* push_back that found the end behind n entries: what others added behind
\* them since then is lost.
PushBackAt(entries, n, h) == Append(SubSeq(entries, 1, n), h)

NamesEveryHost(entries) ==
  \A h \in Hosts : \E i \in DOMAIN entries : entries[i] = h

NamesNoneTwice(entries) ==
  \A i, k \in DOMAIN entries : entries[i] = entries[k] => i = k
=============================================================================
