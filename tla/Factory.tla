------------------------------ MODULE Factory -------------------------------
(***************************************************************************)
(* data::evaluate of a JSON object: it names a data source, of which an    *)
(* object is made from the JSON, evaluated and cast back to JSON.  An      *)
(* exception of the evaluation or of the cast becomes a null; one of       *)
(* from_json, which is called outside the try, goes to the caller.         *)
(*                                                                         *)
(* The object is new and nobody else has it, so its locks make no          *)
(* difference; what a collection does is what Sources says of its kind.    *)
(* Data is a sequence of collections: one for a struct, for a list or an   *)
(* output as many as were put into it, none if it is empty; what a remote  *)
(* command collects, though, is as many entries as it has hosts.  An       *)
(* object that is cast without having been collected has its zeros in the  *)
(* JSON.                                                                   *)
(***************************************************************************)
EXTENDS Naturals, Sequences

CONSTANTS
  Names,        \* of the data sources the requests may ask for
  Unavailable,       \* those this build cannot evaluate
  NumHosts,     \* bound: hosts of a remote command
  MaxRequests   \* bound: calls of evaluate

LOCAL S == INSTANCE Sources

KindOf ==
  [environment |-> S!environment, getcpuid |-> S!getcpuid,
   getfsstat |-> S!getfsstat, getloadavg |-> S!getloadavg,
   getmntent |-> S!getmntent, getrlimit |-> S!getrlimit,
   mpirun |-> S!mpirun, nvml |-> S!nvml,
   osu_micro_benchmarks |-> S!osu_micro_benchmarks,
   pciaccess |-> S!pciaccess, pciutils |-> S!pciutils, ps |-> S!ps,
   remote_shell_command |-> S!remote_shell_command(FALSE),
   shell_command |-> S!shell_command(FALSE), stat |-> S!stat,
   stream |-> S!stream, sysconf |-> S!sysconf, sysctl |-> S!sysctl,
   sysinfo |-> S!sysinfo, udev |-> S!udev, umad |-> S!umad,
   uname |-> S!uname]

ASSUME NamesAssumption ==
  Names \subseteq DOMAIN KindOf /\ Unavailable \subseteq Names
ASSUME BoundsAssumption == NumHosts \in Nat \ {0} /\ MaxRequests \in Nat

Values == {"good", "bad"}

\* A datum: the collection it is from, and how it compares with a reference.
Never == 0  \* the zeros of an object that was not collected
Given == 1  \* the request
Datum == [from : 0 .. MaxRequests + 1, value : Values]
Zeros == [from |-> Never, value |-> "bad"]

\* What collection n of a source may put into its data.  The entry of a host
\* that could not be reached, or said nothing, has no output.
Collection(name, n) ==
  LET now == [from : {n}, value : Values] IN
  IF name = "remote_shell_command"
  THEN [1 .. NumHosts -> now \union {Zeros}]
  ELSE [1 .. 1 -> now]

\* What is not the JSON of a source.
Null  == [kind |-> "null"]
Threw == [kind |-> "threw"]

VARIABLES
  requests,  \* calls of evaluate so far
  request,   \* the JSON of the last of them
  object,    \* the data source made of it
  step,      \* "answered", or what evaluate is about to do: "evaluate", "cast"
  answer     \* of the last call: JSON, Null or Threw

factoryVars == <<requests, request, object, step, answer>>

Another == "another"  \* the name of no source
NoObject ==
  [name |-> Another, configured |-> TRUE, collected |-> FALSE, data |-> <<>>]

\* "has" says that there is a key "data" at all.
JsonOf(name, configured, has, data) ==
  [kind |-> "json", name |-> name, configured |-> configured, typed |-> TRUE,
   has |-> has, data |-> data]

\* A map or a list starts empty, and so does a command's output.
Empty(name) ==
  KindOf[name].store = "append" \/ name \in {"environment", "udev"}
Initially(name) == IF Empty(name) THEN <<>> ELSE <<Zeros>>

\* Sources whose command is in their configuration: without it evaluate throws,
\* or from_json does when it cannot tell which MPI or benchmark is meant.
EvaluateNeeds == {"shell_command", "remote_shell_command"}
FromJsonNeeds == {"mpirun", "osu_micro_benchmarks"}

\* Sources whose cast converts numbers it finds in the output, and throws if
\* they are out of range.
CastParses == {"ps", "osu_micro_benchmarks", "stream"}

-----------------------------------------------------------------------------
(* Making the object                                                         *)

Request(x) ==
  /\ step = "answered"
  /\ requests < MaxRequests
  /\ requests' = requests + 1
  /\ request' = x

Unrecognized(x) ==
  /\ Request(x)
  /\ x.name \notin Names
  /\ answer' = Null
  /\ UNCHANGED <<object, step>>

\* from_json throws: a value has the wrong type, or is not one it knows.
FromJsonThrows(x) ==
  /\ Request(x)
  /\ x.name \in Names
  /\ ~x.typed \/ (x.name \in FromJsonNeeds /\ ~x.configured)
  /\ answer' = Threw
  /\ UNCHANGED <<object, step>>

Readable(x) ==
  x.name \in Names /\ x.typed /\ (x.name \in FromJsonNeeds => x.configured)

\* The object from_json makes: with data it counts as collected.
Made(x) ==
  [name |-> x.name, configured |-> x.configured,
   collected |-> x.has,
   data |-> IF x.has THEN x.data ELSE Initially(x.name)]

\* Wrong: data in the JSON does not mark the object collected.
FromJsonUnmarked(x) ==
  /\ Request(x)
  /\ Readable(x)
  /\ object' = [Made(x) EXCEPT !.collected = FALSE]
  /\ step' = "evaluate"
  /\ UNCHANGED answer

FromJson(x) ==
  /\ Request(x)
  /\ Readable(x)
  /\ object' = Made(x)
  /\ step' = "evaluate"
  /\ UNCHANGED answer

-----------------------------------------------------------------------------
(* d.evaluate()                                                              *)

Kind == KindOf[object.name]
Configured == object.name \in EvaluateNeeds => object.configured
Enabled == object.name \notin Unavailable

\* evaluate returns, and the object is gone.
Answer(x) ==
  /\ answer' = x
  /\ step' = "answered"
  /\ object' = NoObject

\* The source is not enabled, or evaluate throws "Missing command" or "Empty
\* host list" before it looks whether the object has been collected.
Refuse ==
  /\ step = "evaluate"
  /\ ~Enabled \/ ~Configured
  /\ Answer(Null)
  /\ UNCHANGED <<requests, request>>

Evaluates == step = "evaluate" /\ Enabled /\ Configured

Cached ==
  /\ Evaluates /\ object.collected
  /\ step' = "cast"
  /\ UNCHANGED <<requests, request, object, answer>>

Collect ==
  /\ Evaluates /\ ~object.collected
  /\ \E new \in Collection(object.name, requests + 1) :
       object' = [object EXCEPT
         !.collected = TRUE,
         !.data = IF Kind.store = "append" THEN @ \o new ELSE new]
  /\ step' = "cast"
  /\ UNCHANGED <<requests, request, answer>>

\* The failure is logged, and evaluate returns as if there had been none; a
\* collection that was cut short is even marked.
CollectQuietly ==
  /\ Evaluates /\ ~object.collected
  /\ \/ "quiet" \in Kind.fails /\ UNCHANGED object
     \/ "stopped" \in Kind.fails /\ object' = [object EXCEPT !.collected = TRUE]
  /\ step' = "cast"
  /\ UNCHANGED <<requests, request, answer>>

\* The exception is caught, logged and answered with a null.
CollectThrows ==
  /\ Evaluates /\ ~object.collected
  /\ Kind.fails \intersect {"throws", "breaks"} # {}
  /\ Answer(Null)
  /\ UNCHANGED <<requests, request>>

-----------------------------------------------------------------------------
(* The cast                                                                  *)

Cast ==
  /\ step = "cast"
  /\ Answer(JsonOf(object.name, object.configured, TRUE, object.data))
  /\ UNCHANGED <<requests, request>>

CastThrows ==
  /\ step = "cast"
  /\ object.name \in CastParses /\ object.data # <<>>
  /\ Answer(Null)
  /\ UNCHANGED <<requests, request>>

-----------------------------------------------------------------------------

Answered == answer.kind = "json"

\* A request asks for a source, with or without data of its own, or is an
\* earlier answer once more.
Requests ==
  LET data == {<<[from |-> Given, value |-> v]>> : v \in Values}
      all  == Names \union {Another}
      bare == Names \intersect (EvaluateNeeds \union FromJsonNeeds)
      ask  == {JsonOf(n, TRUE, FALSE, <<>>) : n \in all}
      tell == {JsonOf(n, TRUE, TRUE, d) : n \in Names, d \in data}
  IN ask \union tell
       \union {[x EXCEPT !.typed = FALSE] : x \in ask}
       \union {JsonOf(n, FALSE, FALSE, <<>>) : n \in bare}
       \union (IF Answered THEN {answer} ELSE {})

FactoryInit ==
  /\ requests = 0
  /\ request = JsonOf(Another, TRUE, FALSE, <<>>)
  /\ object = NoObject
  /\ step = "answered"
  /\ answer = Null

FactoryNext ==
  \/ \E x \in Requests : Unrecognized(x) \/ FromJsonThrows(x) \/ FromJson(x)
  \/ Refuse \/ Cached \/ Collect \/ CollectQuietly \/ CollectThrows
  \/ Cast \/ CastThrows

FactorySpec == FactoryInit /\ [][FactoryNext]_factoryVars

-----------------------------------------------------------------------------
(* Properties                                                                *)

\* What the answer to the present request may hold: the data of the request, if
\* it has any; otherwise one new collection, or what a new object has, and that
\* only if the source may fail without an exception.  Nothing of an earlier
\* request is left in it, and what is sent back comes back as it is.
AnswerIsOfThisRequest ==
  step = "answered" /\ Answered =>
    /\ answer.name = request.name
    /\ request.has => answer.data = request.data
    /\ ~request.has =>
         \/ answer.data \in Collection(request.name, requests + 1)
         \/ /\ answer.data = Initially(request.name)
            /\ KindOf[request.name].fails \intersect {"quiet", "stopped"} # {}
=============================================================================
