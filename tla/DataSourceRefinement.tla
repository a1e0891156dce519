------------------------ MODULE DataSourceRefinement ------------------------
(***************************************************************************)
(* A data source whose collection overwrites all it holds implements the   *)
(* cache of CachedData.tla.  A sample counts from the step that writes its *)
(* last part: until the writer leaves, nobody else can look at the data.   *)
(***************************************************************************)
EXTENDS DataSource, FiniteSets

Sampled(t) == pc[t] \in {"collect", "leave"} /\ part[t] > NumParts

\* Parts that do not belong to one collection are nobody's value.
Torn == "torn"
Whole(d) == IF \A p, q \in Parts : d[p] = d[q] THEN d[NumParts] ELSE Torn

Request(t) ==
  CASE pc[t] = "idle" -> "none"
    [] pc[t] \in {"reader", "copy"} -> "json"
    [] OTHER -> IF force[t] THEN "force" ELSE "evaluate"

Value == [o \in Objects |-> data[o][NumParts]]

Known == [o \in Objects |->
            collected[o] \/ \E t \in Threads : obj[t] = o /\ Sampled(t)]

Answers == [t \in Threads |->
              IF outcome[t] = "json" THEN Whole(copy[t]) ELSE "none"]

Cached == INSTANCE CachedData WITH
  MayFail <- {o \in Objects : Kind[o].fails # {} \/ Kind[o].absent # "no"},
  Samples <- 1 .. MaxCalls * Cardinality(Threads),
  value   <- Value,
  known   <- Known,
  request <- [t \in Threads |-> Request(t)],
  sampled <- [t \in Threads |-> Sampled(t)],
  answer  <- Answers

\* evaluate and to_json behave as one cached value per object that every
\* thread reads and replaces in one step: no interleaving of the two locks
\* shows a caller half of a collection, an older sample, or a second one.
ImplementsCachedData == Cached!Spec
=============================================================================
