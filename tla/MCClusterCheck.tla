--------------------------- MODULE MCClusterCheck ---------------------------
(* A small instance of ClusterCheck: two hosts, of which the clock of one    *)
(* may be read at the very end of the time.                                  *)
EXTENDS ClusterCheck

CONSTANTS h1, h2

Two == {h1, h2}
First == {h1}

\* One chunk of output from each, and no errors, which no rule looks at.
OneChunk == [h \in Hosts |-> [out |-> 1, err |-> 0]]

\* No output, the one chunk, or either; and what is no regex.
SomeExpectations ==
  {[meet |-> m, valid |-> TRUE] : m \in {{0}, {1}, {0, 1}}}
    \union {[meet |-> {}, valid |-> FALSE]}
=============================================================================
