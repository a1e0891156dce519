----------------------------- MODULE ResultTree -----------------------------
(***************************************************************************)
(* The tree of results a check returns (wassail::result), as one thread    *)
(* builds it: children are added and issue and priority are propagated     *)
(* upwards.  A result may be the child of several others.                  *)
(***************************************************************************)
EXTENDS Naturals, Sequences, SequencesExt, Severity

CONSTANTS
  Results,     \* the result objects
  Priorities,  \* the priorities they are made with
  MaxChildren  \* bound: children of one result

ASSUME ResultsAssumption ==
  IsFiniteSet(Results) /\ Priorities \subseteq 0 .. 7 /\ MaxChildren \in Nat

VARIABLES
  children,  \* result::children
  issue,     \* result::issue
  priority   \* result::priority

vars == <<children, issue, priority>>

-----------------------------------------------------------------------------
(* flat_children, and what looks through it                                  *)

\* Wrong: the children and their children, and no further.
FlatTwoLevels(c, r) ==
  c[r] \o FlattenSeq([i \in DOMAIN c[r] |-> c[c[r][i]]])

\* The children of r, then for each of them the children below it.  The
\* recursion ends because the tree has no cycle, so that no path in it is
\* longer than the number of results.
Flat(c, r) ==
  LET below[n \in 0 .. Cardinality(Results)] ==
        [x \in Results |->
           IF n = 0 THEN <<>>
           ELSE c[x] \o
                  FlattenSeq([i \in DOMAIN c[x] |-> below[n - 1][c[x][i]]])]
  IN below[Cardinality(Results)][r]

\* The first of the largest, if there is one.
MaxOf(l, field, default) ==
  IF l = <<>> THEN default
  ELSE LET best[n \in 1 .. Len(l)] ==
             IF n = 1 \/ field[best[n - 1]] < field[l[n]] THEN l[n]
             ELSE best[n - 1]
       IN field[best[Len(l)]]

MaxIssue(c, field, r)    == MaxOf(Flat(c, r), field, NewResult.issue)
MaxPriority(c, field, r) == MaxOf(Flat(c, r), field, NewResult.priority)

-----------------------------------------------------------------------------
(* The operations                                                            *)

\* Results below r, by the definition of a tree: in one step or in several.
Below(c, r) ==
  LET reach[n \in 0 .. Cardinality(Results)] ==
        IF n = 0 THEN ToSet(c[r])
        ELSE reach[n - 1] \union UNION {ToSet(c[x]) : x \in reach[n - 1]}
  IN reach[Cardinality(Results)]

\* Nothing stops a caller from making a result its own grandparent; every
\* operation on it would then recurse for ever, and no caller here does it.
AddChild(p, child) ==
  /\ Len(children[p]) < MaxChildren
  /\ p # child /\ p \notin Below(children, child)
  /\ children' = [children EXCEPT ![p] = Append(@, child)]
  /\ UNCHANGED <<issue, priority>>

Propagate(r) ==
  /\ issue' = [issue EXCEPT ![r] = MaxIssue(children, issue, r)]
  /\ priority' = [priority EXCEPT ![r] = MaxPriority(children, priority, r)]
  /\ UNCHANGED children

Init ==
  /\ children = [r \in Results |-> <<>>]
  /\ issue \in [Results -> Issues]
  /\ priority \in [Results -> Priorities]

Next ==
  \/ \E p, child \in Results : AddChild(p, child)
  \/ \E r \in Results : Propagate(r)

Spec == Init /\ [][Next]_vars

-----------------------------------------------------------------------------
(* Properties                                                                *)

Worst(S, field, default) ==
  IF S = {} THEN default
  ELSE CHOOSE m \in {field[x] : x \in S} : \A x \in S : field[x] <= m

\* max_issue and max_priority tell the most serious state among all children,
\* grandchildren and so on, each of them and nothing else, however deep the
\* tree and along however many ways a result can be reached.
MaximaAreWorst ==
  \A r \in Results :
    /\ MaxIssue(children, issue, r) = Worst(Below(children, r), issue, MAYBE)
    /\ MaxPriority(children, priority, r) =
         Worst(Below(children, r), priority, NOTICE)
=============================================================================
