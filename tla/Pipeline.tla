------------------------------ MODULE Pipeline ------------------------------
(***************************************************************************)
(* From a request to a verdict: check objects (Checks) are handed either   *)
(* any JSON, or what data::evaluate (Factory) answered, as the samples     *)
(* that pipe the one into the other do.                                    *)
(*                                                                         *)
(* The JSON of a source has every key its cast writes, measured or not;    *)
(* only what is looked up in a list or a map may be missing.               *)
(***************************************************************************)
EXTENDS Checks, Factory

VARIABLES
  evaluated,  \* the check is handed answers; chosen once
  lenient,    \* its reference is met by zeros and by no output; chosen once
  judged      \* the answer the last call of check() was handed

given == <<evaluated, lenient>>
allVars == <<vars, given, judged, factoryVars>>

-----------------------------------------------------------------------------
(* What a check sees of an answer                                            *)

\* Sources whose JSON holds only what was found.
Sparse == {"getfsstat", "getmntent", "environment"}

\* Zeros may meet a reference, as no output may; but a load of 0 always does,
\* and one to be divided by a scale of 0 never.
ValueOfNothing(name) ==
  IF name = "getloadavg" \/ (lenient /\ check # "load_average")
  THEN "good" ELSE "bad"

Measured(d) == d.from # Never
ValueOf(name, d) == IF Measured(d) THEN d.value ELSE ValueOfNothing(name)

\* A list is searched for its first entry that fits.
First(a) == IF a.data = <<>> THEN Zeros ELSE Head(a.data)

\* JSON that is null has no name to ask for, and looks like that of an unknown
\* source: check() throws.
Seen(a) ==
  CASE a = Null \/ a.name \notin DOMAIN Adds ->
         [name |-> "another", keys |-> {}, value |-> "good"]
    [] a # Null /\ a.name \in DOMAIN Adds \intersect PerHost ->
         [name    |-> a.name,
          entries |-> {[keys |-> KeysOf(a.name), value |-> ValueOf(a.name, d)] :
                         d \in Range(a.data)}]
    [] OTHER ->
         [name  |-> a.name,
          keys  |-> IF a.data = <<>> /\ a.name \in Sparse THEN {}
                    ELSE KeysOf(a.name),
          value |-> ValueOf(a.name, First(a))]

-----------------------------------------------------------------------------

Evaluate ==
  /\ evaluated /\ pc = "idle"
  /\ FactoryNext
  /\ UNCHANGED <<vars, given, judged>>

\* check() of any JSON, or of an answer; bound: no more calls than requests.
Judge ==
  /\ step = "answered"
  /\ Next
  /\ IF evaluated /\ calls' # calls
     THEN /\ calls < requests /\ answer # Threw
          /\ j' = Seen(answer) /\ judged' = answer
     ELSE UNCHANGED judged
  /\ UNCHANGED <<given, factoryVars>>

\* All requests have been made; there may be nothing, or no call, left to check.
Stop ==
  /\ evaluated /\ requests = MaxRequests /\ step = "answered"
  /\ pc = "idle"
  /\ UNCHANGED allVars

PipelineInit ==
  /\ Init /\ FactoryInit
  /\ evaluated \in BOOLEAN /\ lenient \in BOOLEAN
  /\ judged = Null

PipelineNext == Evaluate \/ Judge \/ Stop

PipelineSpec == PipelineInit /\ [][PipelineNext]_allVars

-----------------------------------------------------------------------------
(* Properties                                                                *)

\* The data a check goes by.
Consulted(a) ==
  IF a.name \in PerHost THEN Range(a.data) ELSE {First(a)}

\* A check that finds no issue in an answer has seen a measured value that meets
\* its reference; one of the output of several hosts has seen one for each, and
\* there are hosts.  What is left are references that no measurement also meets,
\* and getloadavg, whose cast writes a load of 0 after getloadavg() failed.
NoIssueMeansMeasured ==
  evaluated /\ pc = "idle" /\ outcome = "NO" =>
    /\ Consulted(judged) # {}
    /\ \A d \in Consulted(judged) :
         IF Measured(d) THEN d.value = "good"
                        ELSE lenient \/ judged.name = "getloadavg"
=============================================================================
