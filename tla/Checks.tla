------------------------------- MODULE Checks -------------------------------
(***************************************************************************)
(* A check object that is handed one JSON object after the other, as the   *)
(* sample samples/c++/check.cpp does: rules_engine::check, and the checks  *)
(* derived from it, which add their rules anew in every call; and the disk *)
(* checks, which search a list instead.                                    *)
(*                                                                         *)
(* A rule is a lambda.  Some only look at the JSON object they are given,  *)
(* some at a local variable of the check() call that added them, captured  *)
(* by reference; once that call has returned, what such a rule answers is  *)
(* undefined.                                                              *)
(*                                                                         *)
(* A JSON object is abstracted to the source it names, the keys it has and *)
(* how its value compares with the reference; or, if it holds the output   *)
(* of several hosts, to the source and what is there for each of them.     *)
(***************************************************************************)
EXTENDS Naturals, Sequences, Functions, CheckRules

CONSTANT
  Uses  \* bound: for each check of the catalogue, the calls made to one object

ASSUME UsesAssumption ==
  DOMAIN Uses \subseteq DOMAIN Catalogue /\ Uses \in [DOMAIN Uses -> Nat]

VARIABLES
  check,   \* which check this is; chosen once
  rules,   \* rules_engine::rules: what each tests, and the call that added it
  calls,   \* calls of check() so far
  j,       \* the JSON object of the last of them
  at,      \* the rule to apply next
  pc,      \* "idle", or "apply" in rules_engine::check
  outcome  \* how the last call ended: its issue, or "threw"

vars == <<check, rules, calls, j, at, pc, outcome>>

Adds == Catalogue[check].adds

Rule == [tests : {"key"}, key : KeyNames, captures : BOOLEAN]
          \union [tests : {"value"}, captures : BOOLEAN]

\* What must be there for the value to be there.
KeysOf(name) ==
  IF Catalogue[check].searches THEN {"file_system"}
  ELSE {r.key : r \in {q \in Range(Adds[name]) : q.tests = "key"}}
Keys == UNION {KeysOf(name) : name \in DOMAIN Adds}

\* "good" and "bad" say whether the value meets the reference, "refused" that
\* matching it throws, "mistyped" that it is not of the type the check reads;
\* a value that is not there is read as a default.
Comparisons == {"good", "bad", "refused", "mistyped"}
MayBe(name, x) ==
  /\ x.value \in {"refused", "mistyped"} /\ name \in DOMAIN Adds =>
       KeysOf(name) \subseteq x.keys
  /\ x.value = "refused" => Catalogue[check].matches

Entries(name) ==
  {x \in [keys : SUBSET Keys, value : Comparisons] : MayBe(name, x)}

Json ==
  {x \in [name : (DOMAIN Adds \ PerHost) \union {"another"},
          keys : SUBSET Keys, value : Comparisons] : MayBe(x.name, x)}
    \union UNION {[name : {n}, entries : SUBSET Entries(n)] :
                    n \in DOMAIN Adds \intersect PerHost}

Recognized(x) == x.name \in DOMAIN Adds

Mistyped(x) ==
  IF x.name \in PerHost THEN \E e \in x.entries : e.value = "mistyped"
                        ELSE x.value = "mistyped"

\* The rules behind those of earlier calls, the first "count" of this one.
AddRules(x, count) ==
  rules' = rules \o [i \in 1 .. count |->
                       [rule |-> Adds[x.name][i], call |-> calls + 1]]

-----------------------------------------------------------------------------
(* Applying rules                                                            *)

\* What a rule may answer of x: "true", "false", or an exception.
Answers(r, x) ==
  IF r.rule.captures /\ r.call # calls THEN {"true", "false", "throws"}
  ELSE IF r.rule.tests = "key"
       THEN {IF r.rule.key \in x.keys THEN "true" ELSE "false"}
       ELSE {CASE x.value = "good"    -> "true"
               [] x.value = "refused" -> "throws"
               [] OTHER               -> "false"}

End(result) ==
  /\ pc' = "idle"
  /\ outcome' = result

\* Wrong: the rule behind a rule that is true is passed over.
RuleTrueSkips ==
  /\ pc = "apply"
  /\ at \in DOMAIN rules
  /\ "true" \in Answers(rules[at], j)
  /\ at' = at + 2
  /\ UNCHANGED <<check, rules, calls, j, pc, outcome>>

RuleTrue ==
  /\ pc = "apply"
  /\ at \in DOMAIN rules
  /\ "true" \in Answers(rules[at], j)
  /\ at' = at + 1
  /\ UNCHANGED <<check, rules, calls, j, pc, outcome>>

\* all_of stops at the first rule that is not obeyed.
RuleFalse ==
  /\ pc = "apply"
  /\ at \in DOMAIN rules
  /\ "false" \in Answers(rules[at], j)
  /\ End("YES")
  /\ UNCHANGED <<check, rules, calls, j, at>>

RuleThrows ==
  /\ pc = "apply"
  /\ at \in DOMAIN rules
  /\ "throws" \in Answers(rules[at], j)
  /\ End("MAYBE")
  /\ UNCHANGED <<check, rules, calls, j, at>>

AllRulesTrue ==
  /\ pc = "apply"
  /\ at \notin DOMAIN rules
  /\ End("NO")
  /\ UNCHANGED <<check, rules, calls, j, at>>

\* The same in one go, of an entry: what the rules that are there make of it.
Gives(x, issue) ==
  LET obeyed(i) == "true" \in Answers(rules[i], x)
      first(i)  == \A k \in 1 .. i - 1 : obeyed(k)
  IN \/ issue = "NO"    /\ \A i \in DOMAIN rules : obeyed(i)
     \/ issue = "YES"   /\ \E i \in DOMAIN rules :
                              first(i) /\ "false" \in Answers(rules[i], x)
     \/ issue = "MAYBE" /\ \E i \in DOMAIN rules :
                              first(i) /\ "throws" \in Answers(rules[i], x)

\* propagate: the worst of the children's issues, and MAYBE if there are none.
Worst(issues) ==
  IF "YES" \in issues THEN "YES" ELSE IF issues = {"NO"} THEN "NO" ELSE "MAYBE"

-----------------------------------------------------------------------------
(* check(j)                                                                  *)

Call(x) ==
  /\ pc = "idle"
  /\ calls < Uses[check]
  /\ calls' = calls + 1
  /\ check' = check
  /\ j' = x
  /\ at' = 1

\* throw std::runtime_error("Unrecognized JSON object"), before any rule.
CheckUnrecognized(x) ==
  /\ Call(x)
  /\ ~Recognized(x)
  /\ End("threw")
  /\ UNCHANGED rules

\* j.value() throws: outside the try, and behind some of the rules.
CheckMistyped(x) ==
  /\ Call(x)
  /\ Recognized(x) /\ Mistyped(x)
  /\ \E count \in Catalogue[check].reads : AddRules(x, count)
  /\ End("threw")

Applies(x) == Recognized(x) /\ ~Mistyped(x) /\ ~Catalogue[check].searches

\* Wrong: the rules are only added by the first call.
CheckAddingOnce(x) ==
  /\ Call(x)
  /\ Applies(x) /\ x.name \notin PerHost
  /\ IF calls = 0 THEN AddRules(x, Len(Adds[x.name])) ELSE rules' = rules
  /\ pc' = "apply"
  /\ outcome' = "none"

Check(x) ==
  /\ Call(x)
  /\ Applies(x) /\ x.name \notin PerHost
  /\ AddRules(x, Len(Adds[x.name]))
  /\ pc' = "apply"
  /\ outcome' = "none"

\* Wrong: propagate() is forgotten, and the issue is that of a new result.
CheckHostsUnpropagated(x) ==
  /\ Call(x)
  /\ Applies(x) /\ x.name \in PerHost
  /\ AddRules(x, Len(Adds[x.name]))
  /\ End("MAYBE")

\* Each entry of the list makes a child of the one result.  The iterations
\* themselves, which run in parallel, are those of ShellOutput; of what becomes
\* of their exceptions only one that gets to the caller is of interest here.
CheckHosts(x) ==
  /\ Call(x)
  /\ Applies(x) /\ x.name \in PerHost
  /\ AddRules(x, Len(Adds[x.name]))
  /\ End(Worst({i \in {"NO", "YES", "MAYBE"} :
                  \E e \in x.entries : Gives(e, i)'}))

\* Wrong: a file system that is not found has no issue.
SearchTrusting(x) ==
  /\ Call(x)
  /\ Recognized(x) /\ ~Mistyped(x) /\ Catalogue[check].searches
  /\ End(IF "file_system" \in x.keys /\ x.value = "bad" THEN "YES" ELSE "NO")
  /\ UNCHANGED rules

\* amount_free::check and percent_free::check: done in one go.  An amount that
\* does not fit its 64 bits is a value like any other here.
Search(x) ==
  /\ Call(x)
  /\ Recognized(x) /\ ~Mistyped(x) /\ Catalogue[check].searches
  /\ End(IF "file_system" \notin x.keys THEN "MAYBE"
         ELSE IF x.value = "bad" THEN "YES" ELSE "NO")
  /\ UNCHANGED rules

Init ==
  /\ check \in DOMAIN Uses
  /\ rules = <<>>
  /\ calls = 0
  /\ j = [name |-> "another", keys |-> {}, value |-> "good"]
  /\ at = 1
  /\ pc = "idle"
  /\ outcome = "none"

Done == pc = "idle" /\ calls = Uses[check] /\ UNCHANGED vars

Next ==
  \/ \E x \in Json : CheckUnrecognized(x) \/ CheckMistyped(x) \/ Check(x)
                     \/ CheckHosts(x) \/ Search(x)
  \/ RuleTrue \/ RuleFalse \/ RuleThrows \/ AllRulesTrue
  \/ Done

Spec == Init /\ [][Next]_vars

-----------------------------------------------------------------------------
(* Properties                                                                *)

TypeOK ==
  /\ check \in DOMAIN Uses
  /\ rules \in Seq([rule : Rule, call : 1 .. Uses[check]])
  /\ calls \in 0 .. Uses[check]
  /\ j \in Json
  /\ at \in 1 .. Len(rules) + 1
  /\ pc \in {"idle", "apply"}
  /\ outcome \in {"none", "threw", "NO", "YES", "MAYBE"}

\* What a check object that has never been used says of the keys and the value
\* of x, and of JSON as a whole.
VerdictOn(name, x) ==
  IF ~(KeysOf(name) \subseteq x.keys)
  THEN IF Catalogue[check].searches THEN "MAYBE" ELSE "YES"
  ELSE CASE x.value = "good" -> "NO"
         [] x.value = "bad" -> "YES"
         [] OTHER -> "MAYBE"

Verdict(x) ==
  IF ~Recognized(x) \/ Mistyped(x) THEN "threw"
  ELSE IF x.name \in PerHost
       THEN Worst({VerdictOn(x.name, e) : e \in x.entries})
       ELSE VerdictOn(x.name, x)

\* A call's result speaks of the JSON object it was given and of nothing else:
\* neither the calls before it, the rules they left behind, nor those that
\* ended half way change what it says.
VerdictIsOfThisData ==
  pc = "idle" /\ calls > 0 => outcome = Verdict(j)
=============================================================================
