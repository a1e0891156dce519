--------------------------- MODULE PipelineProof ----------------------------
(***************************************************************************)
(* However many requests are made and checks are called: the answer to a   *)
(* request is of that request alone, the verdict on it speaks of that      *)
(* answer alone, and one without an issue has seen a measured value.       *)
(*                                                                         *)
(* The argument for the factory: an object that is about to be evaluated   *)
(* is the one from_json made of the present request, and one that is about *)
(* to be cast still has its name, and its data or what one collection made *)
(* of it (FactoryInv).                                                     *)
(*                                                                         *)
(* For a check object: the rules earlier calls left behind are applied     *)
(* again.  If one of them looks at a local variable there are none, as the *)
(* object is not used again (UsedAsMeant); otherwise its sources all have  *)
(* the same rules (WellFormed), and those left behind are rules of this    *)
(* call too (RulesAdded).  Such rules make of an entry what the verdict on *)
(* it says (GivesVerdict), whether they are applied one step after the     *)
(* other or, to the hosts of a list, in one.                               *)
(*                                                                         *)
(* For the two together: what the check was handed last is what it sees of *)
(* the answer it judged (Handed).                                          *)
(***************************************************************************)
EXTENDS Pipeline, SequenceTheorems, WellFoundedInduction, TLAPS

-----------------------------------------------------------------------------
(* The factory                                                               *)

\* The data that may come of a request.
Comes(d) ==
  /\ request.has => d = request.data
  /\ ~request.has =>
       \/ d \in Collection(request.name, requests + 1)
       \/ /\ d = Initially(request.name)
          /\ KindOf[request.name].fails \intersect {"quiet", "stopped"} # {}

FactoryInv ==
  /\ step = "evaluate" => object = Made(request)
  /\ step = "cast" => object.name = request.name /\ Comes(object.data)
  /\ step = "answered" /\ Answered =>
       answer.name = request.name /\ Comes(answer.data)

\* A collection is a sequence.
LEMMA CollectionIsSeq ==
  ASSUME NEW name, NEW n, NEW new \in Collection(name, n)
  PROVE  new \in Seq([from : {n}, value : Values] \union {Zeros})
<1> DEFINE now == [from : {n}, value : Values]
<1>1. new \in [1 .. NumHosts -> now \union {Zeros}] \/ new \in [1 .. 1 -> now]
  BY DEF Collection
<1> HIDE DEF now
<1>2. \E k \in Nat : new \in [1 .. k -> now \union {Zeros}]
  <2>1. NumHosts \in Nat /\ 1 \in Nat
    BY BoundsAssumption
  <2> QED  BY <1>1, <2>1
<1>3. new \in Seq(now \union {Zeros})
  BY <1>2
<1> QED  BY <1>3 DEF now

LEMMA OneCollection ==
  ASSUME step = "evaluate", object = Made(request), Collect
  PROVE  step' = "cast" /\ object'.name = request.name /\ Comes(object'.data)
<1>1. PICK new \in Collection(object.name, requests + 1) :
        object' = [object EXCEPT
          !.collected = TRUE,
          !.data = IF Kind.store = "append" THEN @ \o new ELSE new]
  BY DEF Collect
<1>2. ~request.has /\ object.name = request.name
      /\ object.data = Initially(request.name)
  BY DEF Collect, Evaluates, Made
<1>3. Kind.store = "append" => object.data = <<>>
  BY <1>2 DEF Kind, Initially, Empty
<1>4. <<>> \o new = new
  BY CollectionIsSeq, ConcatEmptySeq
<1>5. object'.data = new /\ object'.name = object.name
  <2>1. /\ object'.name = object.name
        /\ object'.data = IF Kind.store = "append" THEN object.data \o new
                                                   ELSE new
    BY <1>1 DEF Made
  <2> QED  BY <1>3, <1>4, <2>1
<1> QED  BY <1>2, <1>5 DEF Collect, Comes

LEMMA FactoryBegins == FactoryInit => FactoryInv
  BY DEF FactoryInit, FactoryInv, Answered, Null

LEMMA FactoryKept == FactoryInv /\ [FactoryNext]_factoryVars => FactoryInv'
<1> SUFFICES ASSUME FactoryInv, [FactoryNext]_factoryVars PROVE FactoryInv'
  OBVIOUS
<1>1. ASSUME NEW x, Unrecognized(x) \/ FromJsonThrows(x) PROVE FactoryInv'
  BY <1>1 DEF FactoryInv, Unrecognized, FromJsonThrows, Request, Answered, Null,
              Threw
<1>2. ASSUME NEW x, FromJson(x) PROVE FactoryInv'
  BY <1>2 DEF FactoryInv, FromJson, Request, Made
<1>3. CASE Refuse \/ CollectThrows \/ CastThrows
  BY <1>3 DEF FactoryInv, Refuse, CollectThrows, CastThrows, Answer, Answered,
              Null
<1>4. CASE Cached
  <2>1. step = "evaluate" /\ object = Made(request) /\ object.collected
    BY <1>4 DEF Cached, Evaluates, FactoryInv
  <2>2. request.has /\ object.name = request.name /\ object.data = request.data
    BY <2>1 DEF Made
  <2> QED  BY <1>4, <2>2 DEF Cached, FactoryInv, Comes
<1>5. CASE Collect
  <2>1. step' = "cast" /\ object'.name = request.name /\ Comes(object'.data)
    BY <1>5, OneCollection DEF Collect, Evaluates, FactoryInv
  <2> QED  BY <1>5, <2>1 DEF Collect, FactoryInv, Comes
<1>6. CASE CollectQuietly
  <2>1. step = "evaluate" /\ object = Made(request) /\ ~object.collected
    BY <1>6 DEF CollectQuietly, Evaluates, FactoryInv
  <2>2. ~request.has /\ object.name = request.name
        /\ object.data = Initially(request.name)
    BY <2>1 DEF Made
  <2>3. object'.name = object.name /\ object'.data = object.data
    BY <1>6, <2>1 DEF CollectQuietly, Made
  <2>4. KindOf[request.name].fails \intersect {"quiet", "stopped"} # {}
    BY <1>6, <2>2 DEF CollectQuietly, Kind
  <2> QED  BY <1>6, <2>2, <2>3, <2>4 DEF CollectQuietly, FactoryInv, Comes
<1>7. CASE Cast
  BY <1>7 DEF Cast, Answer, Answered, JsonOf, FactoryInv, Comes
<1>8. CASE UNCHANGED factoryVars
  BY <1>8 DEF factoryVars, FactoryInv, Comes, Answered
<1> QED
  BY <1>1, <1>2, <1>3, <1>4, <1>5, <1>6, <1>7, <1>8 DEF FactoryNext

\* Whatever was asked before, an answer is of the request it answers: what the
\* request brings comes back, and what it does not is from one collection of
\* its own, or is that of a new object whose source failed quietly.
THEOREM AnswerAlwaysOfItsRequest == FactorySpec => []AnswerIsOfThisRequest
<1>1. FactoryInv => AnswerIsOfThisRequest
  BY DEF FactoryInv, Comes, AnswerIsOfThisRequest
<1> QED  BY FactoryBegins, <1>1, FactoryKept, PTL DEF FactorySpec

-----------------------------------------------------------------------------
(* The catalogue of checks                                                   *)

\* The rules s of one source, as a check that reads values among them adds them.
Suits(s, reads) == s \in Seq(Rule) /\ reads \subseteq 0 .. Len(s)
TestsValue(s) == \E r \in Range(s) : r.tests = "value"
Captures(s) == \E r \in Range(s) : r.captures

\* What holds of each check k of the catalogue; in particular, if no rule looks
\* at a local variable then the rules are the same for all its sources.
WellFormed(k) ==
  /\ "another" \notin DOMAIN k.adds
  /\ \A n \in DOMAIN k.adds : Suits(k.adds[n], k.reads)
  /\ \/ k.searches /\ ~k.matches /\ DOMAIN k.adds \intersect PerHost = {}
     \/ ~k.searches /\ \A n \in DOMAIN k.adds : TestsValue(k.adds[n])
  /\ \/ \E n \in DOMAIN k.adds : Captures(k.adds[n])
     \/ \A n, m \in DOMAIN k.adds : k.adds[n] = k.adds[m]

LEMMA ValueRules ==
  /\ LocalValueRule \in Rule /\ ValueRule \in Rule
  /\ LocalValueRule.tests = "value" /\ ValueRule.tests = "value"
  /\ LocalValueRule.captures
<1>1. LocalValueRule \in Rule /\ ValueRule \in Rule
  BY DEF ValueRule, LocalValueRule, Rule
<1>2. LocalValueRule.tests = "value" /\ ValueRule.tests = "value"
  BY Zenon DEF ValueRule, LocalValueRule
<1>3. LocalValueRule.captures
  BY Zenon DEF LocalValueRule
<1> QED  BY <1>1, <1>2, <1>3

LEMMA OneRule ==
  ASSUME NEW reads \in SUBSET (0 .. 1)
  PROVE  /\ Suits(<<LocalValueRule>>, reads)
         /\ TestsValue(<<LocalValueRule>>) /\ Captures(<<LocalValueRule>>)
<1> DEFINE s == <<LocalValueRule>>
<1>1. Suits(s, reads) /\ LocalValueRule \in Range(s)
  BY ValueRules DEF Suits, Range
<1> HIDE DEF s
<1>2. TestsValue(s) /\ Captures(s)
  BY <1>1, ValueRules, Zenon DEF TestsValue, Captures
<1> QED  BY <1>1, <1>2 DEF s

LEMMA TwoRules ==
  ASSUME NEW r \in Rule, NEW v \in {ValueRule, LocalValueRule},
         NEW reads \in SUBSET (0 .. 2)
  PROVE  /\ Suits(<<r, v>>, reads) /\ TestsValue(<<r, v>>)
         /\ v = LocalValueRule => Captures(<<r, v>>)
<1> DEFINE s == <<r, v>>
<1>1. v \in Rule
  BY ValueRules
<1>2. Suits(s, reads) /\ v \in Range(s)
  BY <1>1 DEF Suits, Range
<1> HIDE DEF s
<1>3. TestsValue(s) /\ (v = LocalValueRule => Captures(s))
  BY <1>2, ValueRules, Zenon DEF TestsValue, Captures
<1> QED  BY <1>2, <1>3 DEF s

LEMMA KeyRules ==
  ASSUME NEW k \in KeyNames
  PROVE  KeyRule(k) \in Rule /\ LocalKeyRule(k) \in Rule
  BY DEF KeyRule, LocalKeyRule, Rule

LEMMA CoreCount == WellFormed(core_count)
<1> DEFINE R == {LocalKeyRule("nprocessors_onln"), LocalKeyRule("core_count")}
<1>1. /\ DOMAIN core_count.adds = {"sysconf", "sysctl"}
      /\ core_count.reads = {2}
  BY DEF core_count
<1>2. \A n \in DOMAIN core_count.adds :
        \E r \in R : core_count.adds[n] = <<r, LocalValueRule>>
  BY <1>1 DEF core_count
<1>3. core_count.searches = FALSE
  BY Zenon DEF core_count
<1>4. R \subseteq Rule /\ {2} \in SUBSET (0 .. 2)
  BY KeyRules DEF KeyNames
<1> HIDE DEF R
<1>5. \A r \in R : /\ Suits(<<r, LocalValueRule>>, {2})
                   /\ TestsValue(<<r, LocalValueRule>>)
                   /\ Captures(<<r, LocalValueRule>>)
  BY <1>4, TwoRules
<1>6. /\ "sysconf" \in DOMAIN core_count.adds
      /\ "another" \notin DOMAIN core_count.adds
  BY <1>1
<1>7. \A n \in DOMAIN core_count.adds :
        /\ Suits(core_count.adds[n], {2})
        /\ TestsValue(core_count.adds[n]) /\ Captures(core_count.adds[n])
  BY <1>2, <1>5, Zenon
<1> QED  BY <1>1, <1>3, <1>6, <1>7, Zenon DEF WellFormed

LEMMA PhysicalSize == WellFormed(physical_size)
<1>1. /\ DOMAIN physical_size.adds = {"sysconf", "sysctl", "sysinfo"}
      /\ physical_size.reads = {0}
  BY DEF physical_size
<1>2. \A n \in DOMAIN physical_size.adds :
        physical_size.adds[n] = <<LocalValueRule>>
  BY <1>1 DEF physical_size
<1>3. physical_size.searches = FALSE
  BY Zenon DEF physical_size
<1>4. {0} \in SUBSET (0 .. 1)
  OBVIOUS
<1>5. /\ Suits(<<LocalValueRule>>, {0})
      /\ TestsValue(<<LocalValueRule>>) /\ Captures(<<LocalValueRule>>)
  BY <1>4, OneRule
<1>6. /\ "sysconf" \in DOMAIN physical_size.adds
      /\ "another" \notin DOMAIN physical_size.adds
  BY <1>1
<1> QED  BY <1>1, <1>2, <1>3, <1>5, <1>6, Zenon DEF WellFormed

LEMMA Permissions == WellFormed(permissions)
<1> DEFINE r == KeyRule("mode")
<1>1. /\ DOMAIN permissions.adds = {"stat"} /\ permissions.reads = {0, 2}
      /\ permissions.adds["stat"] = <<r, LocalValueRule>>
  BY DEF permissions
<1>2. permissions.searches = FALSE
  BY Zenon DEF permissions
<1>3. r \in Rule /\ {0, 2} \in SUBSET (0 .. 2)
  BY KeyRules DEF KeyNames
<1> HIDE DEF r
<1>4. /\ Suits(<<r, LocalValueRule>>, {0, 2})
      /\ TestsValue(<<r, LocalValueRule>>) /\ Captures(<<r, LocalValueRule>>)
  BY <1>3, TwoRules
<1>5. "stat" # "another"
  OBVIOUS
<1> QED  BY <1>1, <1>2, <1>4, <1>5, Zenon DEF WellFormed

LEMMA LoadAverage == WellFormed(load_average)
<1> DEFINE R == {KeyRule("load"), KeyRule("fscale"), KeyRule("loads_scale")}
<1>1. /\ DOMAIN load_average.adds = {"getloadavg", "sysctl", "sysinfo"}
      /\ load_average.reads = {1}
  BY DEF load_average
<1>2. \A n \in DOMAIN load_average.adds :
        \E r \in R : load_average.adds[n] = <<r, LocalValueRule>>
  BY <1>1 DEF load_average
<1>3. load_average.searches = FALSE
  BY Zenon DEF load_average
<1>4. R \subseteq Rule /\ {1} \in SUBSET (0 .. 2)
  BY KeyRules DEF KeyNames
<1> HIDE DEF R
<1>5. \A r \in R : /\ Suits(<<r, LocalValueRule>>, {1})
                   /\ TestsValue(<<r, LocalValueRule>>)
                   /\ Captures(<<r, LocalValueRule>>)
  BY <1>4, TwoRules
<1>6. /\ "sysctl" \in DOMAIN load_average.adds
      /\ "another" \notin DOMAIN load_average.adds
  BY <1>1
<1>7. \A n \in DOMAIN load_average.adds :
        /\ Suits(load_average.adds[n], {1})
        /\ TestsValue(load_average.adds[n]) /\ Captures(load_average.adds[n])
  BY <1>2, <1>5, Zenon
<1> QED  BY <1>1, <1>3, <1>6, <1>7, Zenon DEF WellFormed

\* The two checks that match values against regular expressions.
LEMMA SameRules ==
  ASSUME NEW k, NEW r \in Rule,
         "another" \notin DOMAIN k.adds, k.reads = {2}, k.searches = FALSE,
         \A n \in DOMAIN k.adds : k.adds[n] = <<r, ValueRule>>
  PROVE  WellFormed(k)
<1>1. {2} \in SUBSET (0 .. 2)
  OBVIOUS
<1>2. Suits(<<r, ValueRule>>, {2}) /\ TestsValue(<<r, ValueRule>>)
  BY <1>1, TwoRules
<1> QED  BY <1>2, Zenon DEF WellFormed

LEMMA EnvironmentCheck == WellFormed(environment)
<1> DEFINE r == KeyRule("variable")
<1>1. /\ DOMAIN environment.adds = {"environment"} /\ environment.reads = {2}
      /\ environment.adds["environment"] = <<r, ValueRule>>
  BY DEF environment
<1>2. environment.searches = FALSE
  BY Zenon DEF environment
<1>3. r \in Rule /\ "environment" # "another"
  BY KeyRules DEF KeyNames
<1> HIDE DEF r
<1>4. /\ "another" \notin DOMAIN environment.adds
      /\ \A n \in DOMAIN environment.adds : environment.adds[n] = <<r, ValueRule>>
  BY <1>1, <1>3
<1> QED  BY <1>1, <1>2, <1>3, <1>4, SameRules, Zenon

LEMMA ShellOutputCheck == WellFormed(shell_output)
<1> DEFINE r == KeyRule("stdout")
<1>1. /\ DOMAIN shell_output.adds = {"shell_command", "remote_shell_command"}
      /\ shell_output.reads = {2}
  BY DEF shell_output
<1>2. \A n \in DOMAIN shell_output.adds : shell_output.adds[n] = <<r, ValueRule>>
  BY <1>1 DEF shell_output
<1>3. shell_output.searches = FALSE
  BY Zenon DEF shell_output
<1>4. r \in Rule /\ "another" \notin DOMAIN shell_output.adds
  BY <1>1, KeyRules DEF KeyNames
<1> HIDE DEF r
<1> QED  BY <1>1, <1>2, <1>3, <1>4, SameRules, Zenon

LEMMA AmountFree == WellFormed(amount_free)
<1>1. /\ DOMAIN amount_free.adds = {"getfsstat", "getmntent"}
      /\ amount_free.reads = {0}
  BY DEF amount_free
<1>2. \A n \in DOMAIN amount_free.adds : amount_free.adds[n] = <<>>
  BY <1>1 DEF amount_free
<1>3. amount_free.searches /\ ~amount_free.matches
  BY Zenon DEF amount_free
<1>4. Suits(<<>>, {0})
  BY DEF Suits
<1>5. /\ "another" \notin DOMAIN amount_free.adds
      /\ DOMAIN amount_free.adds \intersect PerHost = {}
  BY <1>1 DEF PerHost
<1> QED  BY <1>1, <1>2, <1>3, <1>4, <1>5, Zenon DEF WellFormed

LEMMA CatalogueWellFormed ==
  \A c \in DOMAIN Catalogue : WellFormed(Catalogue[c])
<1>1. /\ DOMAIN Catalogue =
           {"core_count", "physical_size", "permissions", "load_average",
            "environment", "shell_output", "amount_free", "percent_free"}
      /\ Catalogue["core_count"] = core_count
      /\ Catalogue["physical_size"] = physical_size
      /\ Catalogue["permissions"] = permissions
      /\ Catalogue["load_average"] = load_average
      /\ Catalogue["environment"] = environment
      /\ Catalogue["shell_output"] = shell_output
      /\ Catalogue["amount_free"] = amount_free
      /\ Catalogue["percent_free"] = amount_free
  BY DEF Catalogue, percent_free
<1> QED
  BY <1>1, CoreCount, PhysicalSize, Permissions, LoadAverage, EnvironmentCheck,
     ShellOutputCheck, AmountFree

-----------------------------------------------------------------------------
(* One check object.                                                         *)

\* A check with a rule that looks at a local variable of the call that added it
\* is used for one call at most; those without may be used again.
UsedAsMeant ==
  \A c \in DOMAIN Uses :
    (\E n \in DOMAIN Catalogue[c].adds : Captures(Catalogue[c].adds[n])) =>
      Uses[c] <= 1

\* What the object's rules are, whichever calls they are from.
KeptRules ==
  \A i \in DOMAIN rules :
    /\ rules[i].call <= calls
    /\ \E n \in DOMAIN Adds : rules[i].rule \in Range(Adds[n])

\* All rules for the source are there, the rules left behind by other calls are
\* the same, and none of these looks at a local variable.
RulesOf(name) ==
  /\ \A i \in DOMAIN rules :
       /\ rules[i].rule \in Range(Adds[name])
       /\ rules[i].rule.captures => rules[i].call = calls
  /\ \A r \in Range(Adds[name]) : \E i \in DOMAIN rules : rules[i].rule = r

\* What is being applied; the rules passed over were true.
Applying ==
  pc = "apply" =>
    /\ calls > 0 /\ Applies(j) /\ j.name \notin PerHost
    /\ RulesOf(j.name)
    /\ \A i \in 1 .. at - 1 : "true" \in Answers(rules[i], j)

ChecksInv == TypeOK /\ KeptRules /\ Applying /\ VerdictIsOfThisData

LEMMA ChecksBegin == Init => ChecksInv
<1> SUFFICES ASSUME Init PROVE ChecksInv
  OBVIOUS
<1> USE DEF Init
<1>1. check \in DOMAIN Uses /\ Uses[check] \in Nat
  BY UsesAssumption
<1>2. j \in Json
  BY DEF Json, MayBe, Comparisons
<1>3. TypeOK
  BY <1>1, <1>2 DEF TypeOK
<1>4. KeptRules /\ Applying /\ VerdictIsOfThisData
  BY DEF KeptRules, Applying, VerdictIsOfThisData
<1> QED  BY <1>3, <1>4 DEF ChecksInv

LEMMA SameCheck ==
  ASSUME check' = check
  PROVE  /\ Adds' = Adds /\ Json' = Json /\ \A n : KeysOf(n)' = KeysOf(n)
         /\ Verdict(j)' = Verdict(j') /\ Recognized(j)' = Recognized(j')
<1>1. Adds' = Adds /\ Recognized(j)' = Recognized(j')
  BY DEF Adds, Recognized
<1>2. \A n : KeysOf(n)' = KeysOf(n)
  BY <1>1 DEF KeysOf
<1>3. Keys' = Keys
  BY <1>1, <1>2 DEF Keys
<1>4. \A n, x : MayBe(n, x)' = MayBe(n, x)
  BY <1>1, <1>2 DEF MayBe
<1>5. Json' = Json
  BY <1>1, <1>3, <1>4 DEF Json, Entries
<1>6. \A n, x : VerdictOn(n, x)' = VerdictOn(n, x)
  BY <1>2 DEF VerdictOn
<1>7. Verdict(j)' = Verdict(j')
  BY <1>1, <1>6 DEF Verdict, Mistyped
<1> QED  BY <1>1, <1>2, <1>5, <1>7

LEMMA OneMoreCall ==
  ASSUME TypeOK, NEW x, Call(x)
  PROVE  /\ check' = check /\ j' = x /\ at' = 1 /\ calls' = calls + 1
         /\ calls \in Nat /\ calls + 1 \in 1 .. Uses[check]
  BY UsesAssumption DEF Call, TypeOK

Entry == [rule : Rule, call : 1 .. Uses[check]]

\* A rule is one of x's, and was added by the present call.
New(e, x) == e.rule \in Range(Adds[x.name]) /\ e.call = calls + 1

LEMMA EntriesAreRules ==
  ASSUME TypeOK, NEW i \in DOMAIN rules
  PROVE  rules[i].call \in Nat /\ rules[i].rule \in Rule
<1>1. Uses[check] \in Nat
  BY UsesAssumption DEF TypeOK
<1>2. rules \in Seq(Entry)
  BY DEF TypeOK, Entry
<1>3. rules[i] \in Entry
  BY <1>2
<1>4. rules[i].call \in 1 .. Uses[check] /\ rules[i].rule \in Rule
  BY <1>3 DEF Entry
<1> QED  BY <1>1, <1>4

\* A call keeps the rules that are there; those behind them are its own, and if
\* it adds all its rules they are all there.
LEMMA Added ==
  ASSUME TypeOK, NEW x, Call(x), Recognized(x),
         NEW count \in 0 .. Len(Adds[x.name]), AddRules(x, count)
  PROVE  /\ rules' \in Seq(Entry)
         /\ \A i \in DOMAIN rules : i \in DOMAIN rules' /\ rules'[i] = rules[i]
         /\ \A i \in DOMAIN rules' \ DOMAIN rules : New(rules'[i], x)
         /\ count = Len(Adds[x.name]) =>
              \A r \in Range(Adds[x.name]) :
                \E i \in DOMAIN rules' : rules'[i].rule = r
<1> DEFINE new == [i \in 1 .. count |->
                     [rule |-> Adds[x.name][i], call |-> calls + 1]]
<1>1. Adds[x.name] \in Seq(Rule)
  BY UsesAssumption, CatalogueWellFormed
     DEF TypeOK, Recognized, Adds, WellFormed, Suits
<1>2. count \in Nat /\ calls + 1 \in 1 .. Uses[check]
  BY <1>1, OneMoreCall
<1>3. \A i \in 1 .. count :
        i \in DOMAIN Adds[x.name] /\ Adds[x.name][i] \in Rule
  BY <1>1
<1>4. \A i \in 1 .. count :
        /\ [rule |-> Adds[x.name][i], call |-> calls + 1] \in Entry
        /\ New([rule |-> Adds[x.name][i], call |-> calls + 1], x)
  BY <1>2, <1>3 DEF Entry, New, Range
<1>5. /\ new \in Seq(Entry) /\ Len(new) = count
      /\ \A i \in 1 .. count : New(new[i], x) /\ new[i].rule = Adds[x.name][i]
  BY <1>2, <1>4
<1>6. rules \in Seq(Entry)
  BY DEF TypeOK, Entry
<1> DEFINE all == rules \o new
<1> HIDE DEF new
<1>7. /\ all \in Seq(Entry) /\ Len(all) = Len(rules) + count
      /\ \A i \in 1 .. Len(rules) + count :
           all[i] = IF i <= Len(rules) THEN rules[i] ELSE new[i - Len(rules)]
  BY <1>5, <1>6, ConcatProperties
<1>8. rules' = all
  BY DEF AddRules, new
<1> HIDE DEF all
<1>9. /\ rules' \in Seq(Entry) /\ DOMAIN rules' = 1 .. Len(rules) + count
      /\ DOMAIN rules = 1 .. Len(rules) /\ Len(rules) \in Nat
      /\ DOMAIN new = 1 .. count
  BY <1>5, <1>6, <1>7, <1>8
<1>10. \A i \in DOMAIN rules : i \in DOMAIN rules' /\ rules'[i] = rules[i]
  BY <1>2, <1>7, <1>8, <1>9
<1>11. ASSUME NEW i \in DOMAIN rules' \ DOMAIN rules PROVE New(rules'[i], x)
  <2>1. i - Len(rules) \in 1 .. count /\ rules'[i] = new[i - Len(rules)]
    BY <1>2, <1>7, <1>8, <1>9, <1>11
  <2> QED  BY <1>5, <2>1
<1>12. ASSUME count = Len(Adds[x.name]), NEW r \in Range(Adds[x.name])
       PROVE  \E i \in DOMAIN rules' : rules'[i].rule = r
  <2>1. PICK k \in 1 .. count : Adds[x.name][k] = r
    BY <1>1, <1>12 DEF Range
  <2> DEFINE i == Len(rules) + k
  <2>2. /\ i \in 1 .. Len(rules) + count /\ ~(i <= Len(rules))
        /\ i - Len(rules) = k
    BY <1>2, <1>9, <2>1
  <2> HIDE DEF i
  <2>3. rules'[i] = new[k] /\ i \in DOMAIN rules'
    BY <1>7, <1>8, <1>9, <2>2
  <2> QED  BY <1>5, <2>1, <2>3
<1> QED  BY <1>9, <1>10, <1>11, <1>12

LEMMA ChecksTyped == TypeOK /\ [Next]_vars => TypeOK'
<1> SUFFICES ASSUME TypeOK, [Next]_vars PROVE TypeOK'
  OBVIOUS
<1>1. ASSUME check' = check PROVE Entry' = Entry /\ Json' = Json
  BY <1>1, SameCheck DEF Entry
<1>2. ASSUME NEW x \in Json, Call(x), rules' \in Seq(Entry),
             pc' \in {"idle", "apply"},
             outcome' \in {"none", "threw", "NO", "YES", "MAYBE"}
      PROVE  TypeOK'
  <2>1. /\ check' = check /\ j' = x /\ at' = 1
        /\ calls' \in 1 .. Uses[check]
    BY <1>2, OneMoreCall
  <2>2. at' \in 1 .. Len(rules') + 1
    BY <1>2, <2>1
  <2> QED  BY <1>1, <1>2, <2>1, <2>2 DEF TypeOK, Entry
<1>3. ASSUME NEW x \in Json, Recognized(x), Call(x),
             NEW count \in 0 .. Len(Adds[x.name]), AddRules(x, count)
      PROVE  rules' \in Seq(Entry)
  BY <1>3, Added
<1>4. rules \in Seq(Entry)
  BY DEF TypeOK, Entry
<1>5. ASSUME NEW x \in Json, CheckUnrecognized(x) \/ Search(x) PROVE TypeOK'
  BY <1>2, <1>4, <1>5 DEF CheckUnrecognized, Search, End
<1>6. ASSUME NEW x \in Json, CheckMistyped(x) PROVE TypeOK'
  <2>1. PICK count \in Catalogue[check].reads : AddRules(x, count)
    BY <1>6 DEF CheckMistyped
  <2>2. Recognized(x) /\ Call(x) /\ pc' = "idle" /\ outcome' = "threw"
    BY <1>6 DEF CheckMistyped, End
  <2>3. count \in 0 .. Len(Adds[x.name])
    BY <2>2, UsesAssumption, CatalogueWellFormed
       DEF TypeOK, Recognized, Adds, WellFormed, Suits
  <2> QED  BY <1>2, <1>3, <2>1, <2>2, <2>3
<1>7. ASSUME NEW x \in Json, Check(x) PROVE TypeOK'
  <2>1. /\ Recognized(x) /\ Call(x) /\ pc' = "apply" /\ outcome' = "none"
        /\ AddRules(x, Len(Adds[x.name]))
    BY <1>7 DEF Check, Applies
  <2>2. Adds[x.name] \in Seq(Rule)
    BY <2>1, UsesAssumption, CatalogueWellFormed
       DEF TypeOK, Recognized, Adds, WellFormed, Suits
  <2>3. Len(Adds[x.name]) \in 0 .. Len(Adds[x.name])
    BY <2>2
  <2> QED  BY <1>2, <1>3, <2>1, <2>3
<1>11. ASSUME NEW x \in Json, CheckHosts(x) PROVE TypeOK'
  <2>1. /\ Recognized(x) /\ Call(x) /\ pc' = "idle"
        /\ AddRules(x, Len(Adds[x.name]))
    BY <1>11 DEF CheckHosts, Applies, End
  <2>2. outcome' \in {"NO", "YES", "MAYBE"}
    BY <1>11 DEF CheckHosts, End, Worst
  <2>3. Adds[x.name] \in Seq(Rule)
    BY <2>1, UsesAssumption, CatalogueWellFormed
       DEF TypeOK, Recognized, Adds, WellFormed, Suits
  <2>4. Len(Adds[x.name]) \in 0 .. Len(Adds[x.name])
    BY <2>3
  <2> QED  BY <1>2, <1>3, <2>1, <2>2, <2>4
<1>8. CASE RuleTrue
  <2>1. at' \in 1 .. Len(rules') + 1
    BY <1>8 DEF RuleTrue, TypeOK
  <2> QED  BY <1>1, <1>8, <2>1 DEF RuleTrue, TypeOK
<1>9. CASE RuleFalse \/ RuleThrows \/ AllRulesTrue
  BY <1>1, <1>9 DEF RuleFalse, RuleThrows, AllRulesTrue, End, TypeOK
<1>10. CASE Done \/ UNCHANGED vars
  BY <1>1, <1>10 DEF Done, vars, TypeOK
<1> QED  BY <1>5, <1>6, <1>7, <1>8, <1>9, <1>10, <1>11 DEF Next

\* A call that ends at once, with or without rules of its own.
LEMMA EndsAtOnce ==
  ASSUME ChecksInv, NEW x \in Json, Call(x),
         pc' = "idle", outcome' = Verdict(x),
         \/ rules' = rules
         \/ /\ Recognized(x)
            /\ \E count \in 0 .. Len(Adds[x.name]) : AddRules(x, count)
  PROVE  KeptRules' /\ Applying' /\ VerdictIsOfThisData'
<1>1. /\ check' = check /\ j' = x /\ at' = 1 /\ calls' = calls + 1
      /\ calls \in Nat /\ calls + 1 \in 1 .. Uses[check]
  BY OneMoreCall DEF ChecksInv
<1>2. /\ Adds' = Adds /\ Json' = Json /\ Verdict(j)' = Verdict(x)
      /\ Entry' = Entry
  BY <1>1, SameCheck DEF Entry
<1>3. /\ rules' \in Seq(Entry)
      /\ \A i \in DOMAIN rules' :
           \/ i \in DOMAIN rules /\ rules'[i] = rules[i]
           \/ Recognized(x) /\ New(rules'[i], x)
  <2>1. CASE rules' = rules
    BY <2>1 DEF ChecksInv, TypeOK, Entry
  <2>2. ASSUME Recognized(x), NEW count \in 0 .. Len(Adds[x.name]),
               AddRules(x, count)
        PROVE  <1>3!1 /\ <1>3!2
    BY <2>2, Added DEF ChecksInv
  <2> QED  BY <2>1, <2>2
<1>4. KeptRules'
  <2>1. ASSUME NEW i \in DOMAIN rules'
        PROVE  /\ rules'[i].call <= calls + 1
               /\ \E n \in DOMAIN Adds : rules'[i].rule \in Range(Adds[n])
    <3>1. CASE i \in DOMAIN rules /\ rules'[i] = rules[i]
      <4>1. rules[i].call \in Nat
        BY <3>1, EntriesAreRules DEF ChecksInv
      <4> QED  BY <1>1, <3>1, <4>1 DEF ChecksInv, KeptRules
    <3>2. CASE Recognized(x) /\ New(rules'[i], x)
      BY <1>1, <3>2 DEF New, Recognized
    <3> QED  BY <1>3, <3>1, <3>2
  <2> QED  BY <1>1, <1>2, <2>1 DEF KeptRules
<1>5. Applying' /\ VerdictIsOfThisData'
  BY <1>2 DEF Applying, VerdictIsOfThisData
<1> QED  BY <1>4, <1>5

\* Rules of earlier calls can only be there if no rule looks at a local
\* variable, and then those calls added the same rules.
LEMMA LeftBehind ==
  ASSUME UsedAsMeant, TypeOK, KeptRules, calls < Uses[check],
         NEW i \in DOMAIN rules, NEW x, Recognized(x)
  PROVE  rules[i].rule \in Range(Adds[x.name]) /\ ~rules[i].rule.captures
<1>1. rules[i].call \in 1 .. Uses[check]
  <2>1. rules \in Seq(Entry)
    BY DEF TypeOK, Entry
  <2>2. rules[i] \in Entry
    BY <2>1
  <2> QED  BY <2>2 DEF Entry
<1>2. Uses[check] \in Nat /\ calls \in Nat /\ check \in DOMAIN Uses
  BY UsesAssumption DEF TypeOK
<1>3. Uses[check] > 1
  BY <1>1, <1>2 DEF KeptRules
<1>4. \A n \in DOMAIN Adds : ~Captures(Adds[n])
  BY <1>2, <1>3 DEF UsedAsMeant, Adds
<1>5. \A n, m \in DOMAIN Adds : Adds[n] = Adds[m]
  BY <1>2, <1>4, UsesAssumption, CatalogueWellFormed DEF WellFormed, Adds
<1>6. PICK n \in DOMAIN Adds : rules[i].rule \in Range(Adds[n])
  BY DEF KeptRules
<1>7. x.name \in DOMAIN Adds /\ Adds[x.name] = Adds[n]
  BY <1>5 DEF Recognized
<1> QED  BY <1>4, <1>6, <1>7 DEF Captures

\* With all its rules added, the object's rules are those of x.
LEMMA RulesAdded ==
  ASSUME UsedAsMeant, ChecksInv, NEW x, Call(x), Recognized(x),
         AddRules(x, Len(Adds[x.name]))
  PROVE  /\ check' = check /\ j' = x /\ at' = 1 /\ calls' > 0
         /\ KeptRules' /\ RulesOf(x.name)'
<1>1. /\ check' = check /\ j' = x /\ at' = 1 /\ calls' = calls + 1
      /\ calls \in Nat /\ calls < Uses[check]
  BY OneMoreCall DEF ChecksInv, Call
<1>2. Adds' = Adds
  BY <1>1, SameCheck
<1>3. Len(Adds[x.name]) \in Nat
  <2>1. Adds[x.name] \in Seq(Rule)
    BY UsesAssumption, CatalogueWellFormed
       DEF ChecksInv, TypeOK, Recognized, Adds, WellFormed, Suits
  <2> QED  BY <2>1
<1>4. /\ \A i \in DOMAIN rules : i \in DOMAIN rules' /\ rules'[i] = rules[i]
      /\ \A i \in DOMAIN rules' \ DOMAIN rules : New(rules'[i], x)
      /\ \A r \in Range(Adds[x.name]) :
           \E i \in DOMAIN rules' : rules'[i].rule = r
  <2>1. Len(Adds[x.name]) \in 0 .. Len(Adds[x.name]) /\ TypeOK
    BY <1>3 DEF ChecksInv
  <2> QED  BY <2>1, Added
<1>5. ASSUME NEW i \in DOMAIN rules'
      PROVE  /\ rules'[i].rule \in Range(Adds[x.name])
             /\ rules'[i].rule.captures => rules'[i].call = calls + 1
             /\ rules'[i].call <= calls + 1
  <2>1. CASE i \in DOMAIN rules
    <3>1. rules'[i] = rules[i]
      BY <1>4, <2>1
    <3>2. rules[i].rule \in Range(Adds[x.name]) /\ ~rules[i].rule.captures
      BY <1>1, <2>1, LeftBehind DEF ChecksInv
    <3>3. rules[i].call \in Nat /\ rules[i].call <= calls
      BY <2>1, EntriesAreRules DEF ChecksInv, KeptRules
    <3>4. rules'[i].call <= calls + 1
      BY <1>1, <3>1, <3>3
    <3> QED  BY <3>1, <3>2, <3>4
  <2>2. CASE i \notin DOMAIN rules
    <3>1. New(rules'[i], x)
      BY <1>4, <2>2
    <3> QED  BY <1>1, <3>1 DEF New
  <2> QED  BY <2>1, <2>2
<1>6. KeptRules'
  <2>1. x.name \in DOMAIN Adds
    BY DEF Recognized
  <2> QED  BY <1>1, <1>2, <1>5, <2>1 DEF KeptRules
<1>7. RulesOf(x.name)'
  BY <1>1, <1>2, <1>4, <1>5 DEF RulesOf
<1> QED  BY <1>1, <1>6, <1>7

LEMMA CheckKeeps ==
  ASSUME UsedAsMeant, ChecksInv, NEW x \in Json, Check(x)
  PROVE  KeptRules' /\ Applying' /\ VerdictIsOfThisData'
<1>1. /\ Call(x) /\ Applies(x) /\ x.name \notin PerHost /\ Recognized(x)
      /\ AddRules(x, Len(Adds[x.name])) /\ pc' = "apply"
  BY DEF Check, Applies
<1>2. /\ check' = check /\ j' = x /\ at' = 1 /\ calls' > 0
      /\ KeptRules' /\ RulesOf(x.name)'
  BY <1>1, RulesAdded
<1>3. Applies(j)' /\ (j.name \notin PerHost)'
  BY <1>1, <1>2, SameCheck DEF Applies, Mistyped, Recognized
<1>4. Applying'
  <2>1. 1 .. at' - 1 = {}
    BY <1>2
  <2> QED  BY <1>2, <1>3, <2>1 DEF Applying, RulesOf
<1>5. VerdictIsOfThisData'
  BY <1>1 DEF VerdictIsOfThisData
<1> QED  BY <1>2, <1>4, <1>5

\* The rest of a JSON object, whether it is of one host or of several.
LEMMA JsonIs ==
  ASSUME NEW x \in Json
  PROVE  /\ x.name \notin PerHost =>
              MayBe(x.name, x) /\ x.value \in Comparisons
         /\ x.name \in PerHost =>
              x.name \in DOMAIN Adds /\ x.entries \subseteq Entries(x.name)
<1>1. "another" \notin PerHost
  BY DEF PerHost
<1>2. CASE x \in [name : (DOMAIN Adds \ PerHost) \union {"another"},
                  keys : SUBSET Keys, value : Comparisons] /\ MayBe(x.name, x)
  BY <1>1, <1>2
<1>3. ASSUME NEW n \in DOMAIN Adds \intersect PerHost,
             x \in [name : {n}, entries : SUBSET Entries(n)]
      PROVE  /\ x.name \in PerHost /\ x.name \in DOMAIN Adds
             /\ x.entries \subseteq Entries(x.name)
  BY <1>3
<1> QED  BY <1>2, <1>3 DEF Json

\* What a rule answers: no local variable is gone.
LEMMA AnswersOfRules ==
  ASSUME TypeOK, ~Catalogue[check].searches, NEW name, RulesOf(name),
         NEW i \in DOMAIN rules, NEW x
  PROVE  LET r == rules[i].rule IN
         \/ /\ r.tests = "key" /\ r.key \in KeysOf(name)
            /\ Answers(rules[i], x) =
                 {IF r.key \in x.keys THEN "true" ELSE "false"}
         \/ /\ r.tests = "value"
            /\ Answers(rules[i], x) = {CASE x.value = "good"    -> "true"
                                         [] x.value = "refused" -> "throws"
                                         [] OTHER               -> "false"}
<1> DEFINE r == rules[i].rule
<1>1. r \in Range(Adds[name]) /\ (r.captures => rules[i].call = calls)
  BY DEF RulesOf
<1>2. r.tests = "key" \/ r.tests = "value"
  BY EntriesAreRules DEF Rule
<1>3. ~(r.captures /\ rules[i].call # calls)
  BY <1>1
<1>4. CASE r.tests = "key"
  <2>1. r.key \in KeysOf(name)
    BY <1>1, <1>4 DEF KeysOf
  <2>2. Answers(rules[i], x) = {IF r.key \in x.keys THEN "true" ELSE "false"}
    BY <1>3, <1>4 DEF Answers
  <2> QED  BY <1>4, <2>1, <2>2
<1>5. CASE r.tests = "value"
  BY <1>3, <1>5 DEF Answers
<1> QED  BY <1>2, <1>4, <1>5

\* If all the rules are obeyed then what they test is there and is good.
LEMMA AllObeyed ==
  ASSUME TypeOK, ~Catalogue[check].searches, NEW name \in DOMAIN Adds,
         RulesOf(name), NEW x,
         \A i \in DOMAIN rules : "true" \in Answers(rules[i], x)
  PROVE  KeysOf(name) \subseteq x.keys /\ x.value = "good"
<1>1. ASSUME NEW r \in Range(Adds[name])
      PROVE  IF r.tests = "key" THEN r.key \in x.keys ELSE x.value = "good"
  <2>1. PICK i \in DOMAIN rules : rules[i].rule = r
    BY DEF RulesOf
  <2>2. "true" \in Answers(rules[i], x)
    OBVIOUS
  <2> QED  BY <2>1, <2>2, AnswersOfRules
<1>2. KeysOf(name) \subseteq x.keys
  BY <1>1 DEF KeysOf
<1>3. x.value = "good"
  <2>1. PICK r \in Range(Adds[name]) : r.tests = "value"
    BY UsesAssumption, CatalogueWellFormed
       DEF WellFormed, TestsValue, TypeOK, Adds
  <2> QED  BY <1>1, <2>1
<1> QED  BY <1>2, <1>3

\* If they are not, there is a first that is not.
LEMMA FirstDisobeyed ==
  ASSUME NEW bad \in SUBSET Nat, bad # {}
  PROVE  \E i \in bad : \A k \in 1 .. i - 1 : k \notin bad
<1> DEFINE Less == OpToRel(<, Nat)
<1>1. IsWellFoundedOn(Less, Nat)
  BY NatLessThanWellFounded
<1>2. \A k, i \in Nat : k < i => <<k, i>> \in Less
  <2>1. Less = {p \in Nat \X Nat : p[1] < p[2]}
    BY Zenon DEF OpToRel
  <2> QED  BY <2>1
<1> HIDE DEF Less
<1>3. PICK i \in bad : \A k \in bad : <<k, i>> \notin Less
  BY <1>1, WFMin, Zenon
<1>4. \A k \in 1 .. i - 1 : k \in Nat /\ k < i
  OBVIOUS
<1> QED  BY <1>2, <1>3, <1>4

\* What the rules make of an entry is the verdict on it.
GivesVerdict ==
  TypeOK /\ ~Catalogue[check].searches =>
    \A name \in DOMAIN Adds : RulesOf(name) =>
      \A e : MayBe(name, e) /\ e.value \in Comparisons \ {"mistyped"} =>
        \A issue \in {"NO", "YES", "MAYBE"} :
          Gives(e, issue) <=> issue = VerdictOn(name, e)

LEMMA RulesGiveVerdict == GivesVerdict
<1> SUFFICES ASSUME TypeOK, ~Catalogue[check].searches,
                    NEW name \in DOMAIN Adds, RulesOf(name),
                    NEW e, MayBe(name, e),
                    e.value \in Comparisons \ {"mistyped"}
             PROVE  \A issue \in {"NO", "YES", "MAYBE"} :
                      Gives(e, issue) <=> issue = VerdictOn(name, e)
  BY DEF GivesVerdict
<1> DEFINE there == KeysOf(name) \subseteq e.keys
<1>1. /\ e.value \in {"good", "bad", "refused"}
      /\ e.value = "refused" => there
  BY DEF Comparisons, MayBe
<1>2. VerdictOn(name, e) = IF ~there THEN "YES"
                           ELSE CASE e.value = "good" -> "NO"
                                  [] e.value = "bad" -> "YES"
                                  [] OTHER -> "MAYBE"
  BY DEF VerdictOn
<1>3. ASSUME NEW i \in DOMAIN rules
      PROVE  /\ "false" \in Answers(rules[i], e) => ~there \/ e.value = "bad"
             /\ "throws" \in Answers(rules[i], e) => e.value = "refused"
             /\ there /\ e.value = "good" => "true" \in Answers(rules[i], e)
             /\ \/ "true" \in Answers(rules[i], e)
                \/ "false" \in Answers(rules[i], e)
                \/ "throws" \in Answers(rules[i], e)
  BY <1>1, AnswersOfRules
<1>4. /\ Gives(e, "NO") => there /\ e.value = "good"
      /\ Gives(e, "YES") => ~there \/ e.value = "bad"
      /\ Gives(e, "MAYBE") => e.value = "refused"
  BY <1>3, AllObeyed DEF Gives
<1>5. Gives(e, "NO") \/ Gives(e, "YES") \/ Gives(e, "MAYBE")
  <2> DEFINE bad == {i \in DOMAIN rules : "true" \notin Answers(rules[i], e)}
  <2>1. CASE bad = {}
    BY <2>1 DEF Gives
  <2>2. CASE bad # {}
    <3>1. DOMAIN rules = 1 .. Len(rules) /\ Len(rules) \in Nat
      BY DEF TypeOK
    <3>2. PICK i \in bad : \A k \in 1 .. i - 1 : k \notin bad
      <4>1. bad \in SUBSET Nat
        BY <3>1
      <4> HIDE DEF bad
      <4> QED  BY <2>2, <4>1, FirstDisobeyed
    <3>3. \A k \in 1 .. i - 1 : k \in DOMAIN rules
      BY <3>1, <3>2
    <3>4. \A k \in 1 .. i - 1 : "true" \in Answers(rules[k], e)
      BY <3>2, <3>3
    <3>5. i \in DOMAIN rules /\ ("false" \in Answers(rules[i], e)
                                 \/ "throws" \in Answers(rules[i], e))
      BY <1>3, <3>2
    <3> QED  BY <3>4, <3>5 DEF Gives
  <2> QED  BY <2>1, <2>2
<1> QED  BY <1>1, <1>2, <1>4, <1>5

\* The verdict on the present JSON is what the rules make of it.
LEMMA VerdictOfRules ==
  ASSUME ChecksInv, pc = "apply", NEW issue \in {"NO", "YES", "MAYBE"},
         Gives(j, issue)
  PROVE  issue = Verdict(j)
<1>1. /\ j \in Json /\ Recognized(j) /\ ~Mistyped(j) /\ j.name \notin PerHost
      /\ ~Catalogue[check].searches /\ RulesOf(j.name)
  BY DEF ChecksInv, TypeOK, Applying, Applies
<1>2. MayBe(j.name, j) /\ j.value \in Comparisons \ {"mistyped"}
  BY <1>1, JsonIs DEF Mistyped
<1>3. issue = VerdictOn(j.name, j)
  BY <1>1, <1>2, RulesGiveVerdict DEF GivesVerdict, ChecksInv, Recognized
<1> QED  BY <1>1, <1>3 DEF Verdict

LEMMA RulesEnd ==
  ASSUME ChecksInv, RuleFalse \/ RuleThrows \/ AllRulesTrue
  PROVE  pc = "apply" /\ outcome' = Verdict(j)
<1>1. pc = "apply" /\ outcome' \in {"NO", "YES", "MAYBE"}
  BY DEF RuleFalse, RuleThrows, AllRulesTrue, End
<1>2. \A i \in 1 .. at - 1 : "true" \in Answers(rules[i], j)
  BY <1>1 DEF ChecksInv, Applying
<1>3. ASSUME RuleFalse PROVE Gives(j, outcome')
  BY <1>2, <1>3 DEF RuleFalse, End, Gives
<1>4. ASSUME RuleThrows PROVE Gives(j, outcome')
  BY <1>2, <1>4 DEF RuleThrows, End, Gives
<1>5. ASSUME AllRulesTrue PROVE Gives(j, outcome')
  <2>1. DOMAIN rules = 1 .. Len(rules) /\ at \in 1 .. Len(rules) + 1
        /\ Len(rules) \in Nat
    BY DEF ChecksInv, TypeOK
  <2>2. \A i \in DOMAIN rules : i \in 1 .. at - 1
    BY <1>5, <2>1 DEF AllRulesTrue
  <2> QED  BY <1>2, <1>5, <2>2 DEF AllRulesTrue, End, Gives
<1>6. Gives(j, outcome')
  BY <1>3, <1>4, <1>5
<1> QED  BY <1>1, <1>6, VerdictOfRules

LEMMA RulesKeep ==
  ASSUME ChecksInv, RuleTrue \/ RuleFalse \/ RuleThrows \/ AllRulesTrue
  PROVE  KeptRules' /\ Applying' /\ VerdictIsOfThisData'
<1>1. UNCHANGED <<check, rules, calls, j>>
  BY DEF RuleTrue, RuleFalse, RuleThrows, AllRulesTrue
<1>2. /\ Adds' = Adds /\ Verdict(j)' = Verdict(j)
      /\ Recognized(j)' = Recognized(j)
  BY <1>1, SameCheck
<1>3. KeptRules'
  BY <1>1, <1>2 DEF ChecksInv, KeptRules
<1>4. CASE RuleTrue
  <2>1. /\ pc = "apply" /\ at \in DOMAIN rules
        /\ "true" \in Answers(rules[at], j)
        /\ at' = at + 1 /\ UNCHANGED <<pc, outcome>>
    BY <1>4 DEF RuleTrue
  <2>2. at \in Nat
    BY <2>1 DEF ChecksInv, TypeOK
  <2>3. \A i \in 1 .. at' - 1 : "true" \in Answers(rules[i], j)'
    <3>1. \A i \in 1 .. at' - 1 : i \in 1 .. at - 1 \/ i = at
      BY <2>1, <2>2
    <3>2. \A i \in 1 .. at' - 1 : "true" \in Answers(rules[i], j)
      BY <2>1, <3>1 DEF ChecksInv, Applying
    <3> QED  BY <1>1, <3>2 DEF Answers
  <2>4. Applying'
    <3>1. /\ calls > 0 /\ Applies(j) /\ j.name \notin PerHost
          /\ RulesOf(j.name)
      BY <2>1 DEF ChecksInv, Applying
    <3>2. Applies(j)' /\ RulesOf(j.name)'
      BY <1>1, <1>2, <3>1 DEF Applies, Mistyped, RulesOf
    <3> QED  BY <1>1, <2>3, <3>1, <3>2 DEF Applying
  <2>5. VerdictIsOfThisData'
    BY <2>1 DEF VerdictIsOfThisData
  <2> QED  BY <1>3, <2>4, <2>5
<1>5. CASE RuleFalse \/ RuleThrows \/ AllRulesTrue
  <2>1. pc' = "idle"
    BY <1>5 DEF RuleFalse, RuleThrows, AllRulesTrue, End
  <2>2. outcome' = Verdict(j)
    BY <1>5, RulesEnd
  <2>3. Applying' /\ VerdictIsOfThisData'
    BY <1>2, <2>1, <2>2 DEF Applying, VerdictIsOfThisData
  <2> QED  BY <1>3, <2>3
<1> QED  BY <1>4, <1>5

LEMMA HostsKeep ==
  ASSUME UsedAsMeant, ChecksInv, NEW x \in Json, CheckHosts(x), TypeOK'
  PROVE  KeptRules' /\ Applying' /\ VerdictIsOfThisData'
<1> DEFINE Issue == {"NO", "YES", "MAYBE"}
           found == {i \in Issue : \E e \in x.entries : Gives(e, i)'}
<1>1. /\ Call(x) /\ Applies(x) /\ Recognized(x) /\ x.name \in PerHost
      /\ AddRules(x, Len(Adds[x.name]))
      /\ pc' = "idle" /\ outcome' = Worst(found)
  BY DEF CheckHosts, Applies, End
<1>2. /\ check' = check /\ j' = x /\ KeptRules' /\ RulesOf(x.name)'
  BY <1>1, RulesAdded
<1>3. /\ Adds' = Adds /\ Verdict(j)' = Verdict(x)
      /\ \A n, e : MayBe(n, e)' = MayBe(n, e)
      /\ \A n, e : VerdictOn(n, e)' = VerdictOn(n, e)
  BY <1>2, SameCheck DEF MayBe, VerdictOn
<1>4. \A e \in x.entries :
        MayBe(x.name, e) /\ e.value \in Comparisons \ {"mistyped"}
  BY <1>1, JsonIs DEF Applies, Mistyped, Entries
<1>5. GivesVerdict'
  BY RulesGiveVerdict, PTL
<1>6. \A e \in x.entries : \A i \in Issue :
        Gives(e, i)' <=> i = VerdictOn(x.name, e)
  BY <1>1, <1>2, <1>3, <1>4, <1>5 DEF GivesVerdict, Applies, Recognized
<1>7. \A e \in x.entries : VerdictOn(x.name, e) \in Issue
  BY <1>1 DEF VerdictOn, Applies
<1>8. found = {VerdictOn(x.name, e) : e \in x.entries}
  BY <1>6, <1>7
<1>9. outcome' = Verdict(x)
  BY <1>1, <1>8 DEF Verdict, Applies
<1> QED  BY <1>1, <1>2, <1>3, <1>9 DEF Applying, VerdictIsOfThisData

LEMMA CallsKeep ==
  ASSUME ChecksInv, NEW x \in Json,
         CheckUnrecognized(x) \/ CheckMistyped(x) \/ Search(x)
  PROVE  KeptRules' /\ Applying' /\ VerdictIsOfThisData'
<1>1. CASE CheckUnrecognized(x)
  <2>1. /\ Call(x) /\ pc' = "idle" /\ outcome' = "threw" /\ rules' = rules
        /\ ~Recognized(x)
    BY <1>1 DEF CheckUnrecognized, End
  <2>2. outcome' = Verdict(x)
    BY <2>1 DEF Verdict
  <2> QED  BY <2>1, <2>2, EndsAtOnce
<1>2. CASE CheckMistyped(x)
  <2>1. /\ Call(x) /\ pc' = "idle" /\ outcome' = "threw" /\ Recognized(x)
        /\ Mistyped(x)
        /\ \E count \in Catalogue[check].reads : AddRules(x, count)
    BY <1>2 DEF CheckMistyped, End
  <2>2. outcome' = Verdict(x)
    BY <2>1 DEF Verdict
  <2>3. Catalogue[check].reads \subseteq 0 .. Len(Adds[x.name])
    BY <2>1, UsesAssumption, CatalogueWellFormed
       DEF ChecksInv, TypeOK, Recognized, Adds, WellFormed, Suits
  <2>4. \E count \in 0 .. Len(Adds[x.name]) : AddRules(x, count)
    BY <2>1, <2>3
  <2> QED  BY <2>1, <2>2, <2>4, EndsAtOnce
<1>3. CASE Search(x)
  <2>1. /\ Call(x) /\ pc' = "idle" /\ rules' = rules /\ Recognized(x)
        /\ ~Mistyped(x) /\ Catalogue[check].searches
        /\ outcome' = IF "file_system" \notin x.keys THEN "MAYBE"
                      ELSE IF x.value = "bad" THEN "YES" ELSE "NO"
    BY <1>3 DEF Search, End
  <2>2. WellFormed(Catalogue[check])
    BY UsesAssumption, CatalogueWellFormed DEF ChecksInv, TypeOK
  <2>3. /\ ~Catalogue[check].matches
        /\ DOMAIN Adds \intersect PerHost = {}
    BY <2>1, <2>2 DEF WellFormed, Adds
  <2>4. x.name \notin PerHost /\ x.value \in {"good", "bad"}
    BY <2>1, <2>3, JsonIs DEF Recognized, Mistyped, MayBe, Comparisons
  <2>5. KeysOf(x.name) = {"file_system"}
    BY <2>1 DEF KeysOf
  <2>6. outcome' = Verdict(x)
    BY <2>1, <2>4, <2>5 DEF Verdict, VerdictOn
  <2> QED  BY <2>1, <2>6, EndsAtOnce
<1> QED  BY <1>1, <1>2, <1>3

LEMMA ChecksKept ==
  ASSUME UsedAsMeant PROVE ChecksInv /\ [Next]_vars => ChecksInv'
<1> SUFFICES ASSUME ChecksInv, [Next]_vars PROVE ChecksInv'
  OBVIOUS
<1>1. TypeOK'
  BY ChecksTyped DEF ChecksInv
<1>2. CASE Done \/ UNCHANGED vars
  <2>1. UNCHANGED vars
    BY <1>2 DEF Done
  <2>2. /\ Adds' = Adds /\ Verdict(j)' = Verdict(j)
        /\ Recognized(j)' = Recognized(j)
    BY <2>1, SameCheck DEF vars
  <2>3. KeptRules'
    BY <2>1, <2>2 DEF vars, ChecksInv, KeptRules
  <2>4. \A i : Answers(rules[i], j)' = Answers(rules[i], j)
    BY <2>1 DEF vars, Answers
  <2>5. Applies(j)' = Applies(j) /\ RulesOf(j.name)' = RulesOf(j.name)
    BY <2>1, <2>2 DEF vars, Applies, Mistyped, RulesOf
  <2>6. Applying'
    BY <2>1, <2>4, <2>5 DEF vars, ChecksInv, Applying
  <2>7. VerdictIsOfThisData'
    BY <2>1, <2>2 DEF vars, ChecksInv, VerdictIsOfThisData
  <2> QED  BY <1>1, <2>3, <2>6, <2>7 DEF ChecksInv
<1>3. ASSUME ~UNCHANGED vars, ~Done
      PROVE  KeptRules' /\ Applying' /\ VerdictIsOfThisData'
  BY <1>1, <1>3, CheckKeeps, HostsKeep, CallsKeep, RulesKeep DEF Next
<1> QED  BY <1>1, <1>2, <1>3 DEF ChecksInv

\* The type invariant of a check object, however often it is used.
THEOREM ChecksTypeCorrect == Spec => []TypeOK
<1>1. Init => TypeOK
  BY ChecksBegin DEF ChecksInv
<1> QED  BY <1>1, ChecksTyped, PTL DEF Spec

\* Whatever a check object was handed before, its verdict is on this JSON.
THEOREM VerdictAlwaysOfThisData ==
  ASSUME UsedAsMeant PROVE Spec => []VerdictIsOfThisData
<1>1. ChecksInv => VerdictIsOfThisData
  BY DEF ChecksInv
<1> QED  BY ChecksBegin, ChecksKept, <1>1, PTL DEF Spec

-----------------------------------------------------------------------------
(* From a request to a verdict                                               *)

Handed ==
  /\ outcome # "none" => calls > 0
  /\ evaluated /\ calls > 0 => j = Seen(judged)

PipelineInv == FactoryInv /\ ChecksInv /\ Handed

LEMMA CallsCount ==
  ASSUME TypeOK, Next
  PROVE  /\ check' = check /\ calls \in Nat
         /\ \/ calls' = calls + 1
            \/ calls' = calls /\ j' = j /\ (pc = "apply" \/ outcome' = outcome)
<1>1. calls \in Nat
  BY UsesAssumption DEF TypeOK
<1>2. ASSUME NEW x \in Json,
             \/ CheckUnrecognized(x) \/ CheckMistyped(x) \/ Check(x)
             \/ CheckHosts(x) \/ Search(x)
      PROVE  check' = check /\ calls' = calls + 1
  BY <1>2
     DEF CheckUnrecognized, CheckMistyped, Check, CheckHosts, Search, Call
<1>3. ASSUME RuleTrue \/ RuleFalse \/ RuleThrows \/ AllRulesTrue
      PROVE  UNCHANGED <<check, calls, j>> /\ pc = "apply"
  BY <1>3 DEF RuleTrue, RuleFalse, RuleThrows, AllRulesTrue
<1>4. ASSUME Done PROVE UNCHANGED <<check, calls, j, outcome>>
  BY <1>4 DEF Done, vars
<1> QED  BY <1>1, <1>2, <1>3, <1>4 DEF Next

LEMMA SameAnswer ==
  ASSUME UNCHANGED <<check, lenient>>
  PROVE  Seen(judged)' = Seen(judged')
<1>1. \A n : KeysOf(n)' = KeysOf(n)
  BY SameCheck
<1>2. \A n, d : ValueOf(n, d)' = ValueOf(n, d)
  BY DEF ValueOf, ValueOfNothing
<1>3. Adds' = Adds
  BY SameCheck
<1> QED  BY <1>1, <1>2, <1>3 DEF Seen, First

LEMMA HandedKept ==
  ChecksInv /\ Handed /\ [PipelineNext]_allVars => Handed'
<1> SUFFICES ASSUME ChecksInv, Handed, [PipelineNext]_allVars PROVE Handed'
  OBVIOUS
<1>1. ASSUME UNCHANGED <<vars, given, judged>> PROVE Handed'
  <2>1. UNCHANGED <<check, lenient, evaluated, outcome, calls, j, judged>>
    BY <1>1 DEF vars, given
  <2>2. Seen(judged)' = Seen(judged)
    BY <2>1, SameAnswer
  <2> QED  BY <2>1, <2>2 DEF Handed
<1>2. CASE Judge
  <2>1. Next /\ UNCHANGED <<evaluated, lenient>>
    BY <1>2 DEF Judge, given
  <2>2. /\ check' = check /\ calls \in Nat
        /\ \/ calls' = calls + 1
           \/ calls' = calls /\ j' = j /\ (pc = "apply" \/ outcome' = outcome)
    BY <2>1, CallsCount DEF ChecksInv
  <2>3. Seen(judged)' = Seen(judged')
    BY <2>1, <2>2, SameAnswer
  <2>4. CASE calls' = calls + 1
    <3>1. calls' > 0 /\ calls' # calls
      BY <2>2, <2>4
    <3>2. evaluated => j' = Seen(judged')
      BY <1>2, <3>1 DEF Judge
    <3> QED  BY <2>1, <2>3, <3>1, <3>2 DEF Handed
  <2>5. CASE calls' = calls /\ j' = j /\ (pc = "apply" \/ outcome' = outcome)
    <3>1. judged' = judged
      BY <1>2, <2>5 DEF Judge
    <3>2. pc = "apply" => calls > 0
      BY DEF ChecksInv, Applying
    <3> QED  BY <2>1, <2>3, <2>5, <3>1, <3>2 DEF Handed
  <2> QED  BY <2>2, <2>4, <2>5
<1>3. CASE Evaluate \/ Stop \/ UNCHANGED allVars
  BY <1>1, <1>3 DEF Evaluate, Stop, allVars
<1> QED  BY <1>2, <1>3 DEF PipelineNext

\* What is proved of the factory and of the checks each by itself holds of the
\* two together.
THEOREM AlwaysPipelineInv ==
  ASSUME UsedAsMeant PROVE PipelineSpec => []PipelineInv
<1>1. PipelineInit => PipelineInv
  <2>1. PipelineInit => outcome = "none" /\ calls = 0
    BY DEF PipelineInit, Init
  <2> QED  BY <2>1, FactoryBegins, ChecksBegin
              DEF PipelineInit, PipelineInv, Handed
<1>2. PipelineInv /\ [PipelineNext]_allVars => PipelineInv'
  <2>1. [PipelineNext]_allVars => [FactoryNext]_factoryVars /\ [Next]_vars
    BY DEF PipelineNext, Evaluate, Judge, Stop, allVars
  <2> QED  BY <2>1, FactoryKept, ChecksKept, HandedKept DEF PipelineInv
<1> QED  BY <1>1, <1>2, PTL DEF PipelineSpec

\* A check that finds no issue in an answer has seen a measured value that meets
\* its reference, for each of the hosts if there is a list of them, unless no
\* measurement meets it too or it is a load.
THEOREM NoIssueAlwaysMeansMeasured ==
  ASSUME UsedAsMeant PROVE PipelineSpec => []NoIssueMeansMeasured
<1>1. ASSUME NEW name, NEW d, ValueOf(name, d) = "good"
      PROVE  IF Measured(d) THEN d.value = "good"
                            ELSE lenient \/ name = "getloadavg"
  BY <1>1 DEF ValueOf, ValueOfNothing
<1>2. ASSUME PipelineInv, evaluated, pc = "idle", outcome = "NO"
      PROVE  /\ Consulted(judged) # {}
             /\ \A d \in Consulted(judged) : ValueOf(judged.name, d) = "good"
  <2>1. calls > 0 /\ j = Seen(judged) /\ Verdict(j) = "NO"
    BY <1>2 DEF PipelineInv, ChecksInv, Handed, VerdictIsOfThisData
  <2>2. Recognized(j)
    BY <2>1 DEF Verdict
  <2>3. j.name # "another"
    BY <1>2, <2>2, UsesAssumption, CatalogueWellFormed
       DEF PipelineInv, ChecksInv, TypeOK, WellFormed, Adds, Recognized
  <2>4. judged # Null /\ judged.name \in DOMAIN Adds
    BY <2>1, <2>3 DEF Seen
  <2>5. CASE judged.name \in PerHost
    <3> DEFINE Part(d) ==
                 [keys |-> KeysOf(judged.name), value |-> ValueOf(judged.name, d)]
    <3>1. /\ j.name = judged.name
          /\ j.entries = {Part(d) : d \in Range(judged.data)}
      BY <2>1, <2>4, <2>5 DEF Seen
    <3>2. {VerdictOn(j.name, e) : e \in j.entries} = {"NO"}
      BY <2>1, <2>5, <3>1 DEF Verdict, Worst
    <3>3. /\ j.entries # {}
          /\ \A e \in j.entries : VerdictOn(j.name, e) = "NO"
      BY <3>2
    <3>4. \A e \in j.entries : e.value = "good"
      BY <3>3 DEF VerdictOn
    <3>5. Consulted(judged) = Range(judged.data)
      BY <2>5 DEF Consulted
    <3>6. \A d \in Range(judged.data) : Part(d).value = "good"
      BY <3>1, <3>4
    <3> QED  BY <3>1, <3>3, <3>5, <3>6
  <2>6. CASE judged.name \notin PerHost
    <3>1. /\ j.name = judged.name
          /\ j.value = ValueOf(judged.name, First(judged))
      BY <2>1, <2>4, <2>6 DEF Seen
    <3>2. VerdictOn(j.name, j) = "NO"
      BY <2>1, <2>6, <3>1 DEF Verdict
    <3>3. j.value = "good"
      BY <3>2 DEF VerdictOn
    <3> QED  BY <2>6, <3>1, <3>3 DEF Consulted
  <2> QED  BY <2>5, <2>6
<1>3. PipelineInv => NoIssueMeansMeasured
  BY <1>1, <1>2 DEF NoIssueMeansMeasured
<1> QED  BY AlwaysPipelineInv, <1>3, PTL
=============================================================================
