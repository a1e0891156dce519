------------------------------ MODULE MCChecks ------------------------------
(* An instance of Checks: a check whose rules allow one use only, used twice. *)
EXTENDS Checks

SizeTwice == [physical_size |-> 2]
=============================================================================
