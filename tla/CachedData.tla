----------------------------- MODULE CachedData -----------------------------
(***************************************************************************)
(* What a data source promises its callers, with no word about locks:      *)
(*                                                                         *)
(*   - the object has one value at any time, and JSON is the value of one  *)
(*     instant between the call and the answer;                            *)
(*   - evaluating takes a sample of the system at most once per call, and  *)
(*     only when there is no value yet or the caller insists;              *)
(*   - a sample replaces the value, and is newer than it;                  *)
(*   - unless the source may fail, there is a value when evaluate returns. *)
(***************************************************************************)
EXTENDS Naturals, Sequences

CONSTANTS
  Threads, Objects,
  MayFail,   \* the objects whose evaluation may end without a value
  Samples    \* the numbers a sample may get

VARIABLES
  value,     \* per object: <<s>> for sample s, <<>> for none
  known,     \* per object: the value counts as collected
  request,   \* per thread: the call it is in
  obj,       \* per thread: the object of that call
  sampled,   \* per thread: the call has taken its sample
  answer     \* per thread: the JSON its last call answered, if it was to_json

cache == <<value, known>>
vars  == <<cache, request, obj, sampled, answer>>

Requests == {"none", "evaluate", "force", "json"}
NoAnswer == "none"

Init ==
  /\ value \in [Objects -> {<<>>, <<0>>}]
  /\ known \in [Objects -> BOOLEAN]
  /\ request = [t \in Threads |-> "none"]
  /\ obj \in [Threads -> Objects]
  /\ sampled = [t \in Threads |-> FALSE]
  /\ answer = [t \in Threads |-> NoAnswer]

Invoke(t, o, what) ==
  /\ request[t] = "none"
  /\ request' = [request EXCEPT ![t] = what]
  /\ obj' = [obj EXCEPT ![t] = o]
  /\ answer' = [answer EXCEPT ![t] = NoAnswer]
  /\ UNCHANGED <<cache, sampled>>

Newer(s, v) == \A i \in DOMAIN v : s > v[i]

Sample(t, s) ==
  /\ ~sampled[t]
  /\ \/ request[t] = "force"
     \/ request[t] = "evaluate" /\ ~known[obj[t]]
  /\ Newer(s, value[obj[t]])
  /\ value' = [value EXCEPT ![obj[t]] = <<s>>]
  /\ known' = [known EXCEPT ![obj[t]] = TRUE]
  /\ sampled' = [sampled EXCEPT ![t] = TRUE]
  /\ UNCHANGED <<request, obj, answer>>

Finish(t) ==
  /\ request' = [request EXCEPT ![t] = "none"]
  /\ sampled' = [sampled EXCEPT ![t] = FALSE]
  /\ UNCHANGED <<cache, obj>>

Return(t) ==
  /\ request[t] \in {"evaluate", "force"}
  /\ \/ sampled[t]
     \/ request[t] = "evaluate" /\ known[obj[t]]
     \/ obj[t] \in MayFail
  /\ Finish(t)
  /\ UNCHANGED answer

Answer(t) ==
  /\ request[t] = "json"
  /\ Finish(t)
  /\ answer' = [answer EXCEPT ![t] = value[obj[t]]]

Next == \E t \in Threads :
  \/ \E o \in Objects, what \in Requests \ {"none"} : Invoke(t, o, what)
  \/ \E s \in Samples : Sample(t, s)
  \/ Return(t)
  \/ Answer(t)

Spec == Init /\ [][Next]_vars
=============================================================================
