------------------------------ MODULE Severity ------------------------------
(* result::issue_t and result::priority_t, as the enumerations number them,  *)
(* and what a new result has.                                                *)

NO == 0
MAYBE == 1
YES == 2
Issues == {NO, MAYBE, YES}

INFO == 1
NOTICE == 2
WARNING == 3

NewResult == [issue |-> MAYBE, priority |-> NOTICE]
=============================================================================
