--------------------------- MODULE MCShellCommand ---------------------------
(* Small instances of ShellCommand: one command, or two run by two threads,  *)
(* the second of which writes nothing.                                       *)
EXTENDS ShellCommand

CONSTANTS c1, c2

One  == {c1}
Two  == {c1, c2}
None == {}

TwoChunks      == [c \in {c1} |-> 2]
FirstOneWrites == [c \in {c1, c2} |-> IF c = c1 THEN 1 ELSE 0]
=============================================================================
