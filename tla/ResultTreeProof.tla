-------------------------- MODULE ResultTreeProof --------------------------
(* The maxima of a result are those of the results below it, in every tree   *)
(* and every other graph of any number of results.  The functions of         *)
(* ResultTree are recursive, so each is first shown to exist and then        *)
(* followed level by level: the lemmas of the first part are the induction   *)
(* and the recursion on natural numbers this takes, both about sets, since   *)
(* an operator as a parameter cannot be instantiated.                        *)
EXTENDS ResultTree, WellFoundedInduction, FiniteSetTheorems,
        SequenceTheorems, TLAPS

-----------------------------------------------------------------------------
(* Induction and recursion                                                   *)

Less == OpToRel(<, Nat)

\* The natural numbers are well founded.
LEMMA LessWellFounded ==
  /\ IsWellFoundedOn(Less, Nat)
  /\ \A m, n \in Nat : m < n => <<m, n>> \in Less
<1>1. IsWellFoundedOn(Less, Nat)
  BY NatLessThanWellFounded DEF Less
<1>2. Less = {p \in Nat \X Nat : p[1] < p[2]}
  BY Zenon DEF Less, OpToRel
<1> QED
  BY <1>1, <1>2

\* Induction, on the set of numbers for which something holds.
LEMMA Induct ==
  ASSUME NEW S, 0 \in S, \A n \in Nat : n \in S => n + 1 \in S
  PROVE  Nat \subseteq S
<1> DEFINE T == Nat \ S
<1> SUFFICES ASSUME T # {} PROVE FALSE
  OBVIOUS
<1>1. PICK n \in T : \A m \in T : ~ (<<m, n>> \in Less)
  <2>1. T \subseteq Nat
    OBVIOUS
  <2>2. IsWellFoundedOn(Less, Nat)
    BY LessWellFounded
  <2> HIDE DEF T
  <2> QED
    BY <2>1, <2>2, WFMin, Zenon
<1>2. n \in Nat /\ n # 0
  OBVIOUS
<1>3. n - 1 \in Nat /\ n - 1 < n /\ n - 1 + 1 = n
  BY <1>2
<1>4. <<n - 1, n>> \in Less
  BY <1>2, <1>3, LessWellFounded
<1>5. n - 1 \notin T
  BY <1>1, <1>4
<1> QED
  BY <1>2, <1>3, <1>5

IsStep(step, V) == step \in [Nat -> [V -> V]]

\* The function whose first value is a and whose other values follow from the
\* ones before them.
Recurs(f, V, a, step, first, last) ==
  /\ f \in [first .. last -> V]
  /\ f[first] = a
  /\ \A n \in first .. last : n # first => f[n] = step[n][f[n - 1]]

\* Every interval has such a function.
LEMMA RecursionBy ==
  ASSUME NEW V, NEW a \in V, NEW step, IsStep(step, V), NEW first \in Nat
  PROVE  \A k \in Nat : \E f : Recurs(f, V, a, step, first, first + k)
<1> DEFINE Is(f, last) == Recurs(f, V, a, step, first, first + last)
           S == {last \in Nat : \E f : Is(f, last)}
<1>1. 0 \in S
  <2>1. Is([n \in first .. first + 0 |-> a], 0)
    BY DEF Recurs
  <2> QED
    BY <2>1
<1>2. ASSUME NEW last \in Nat, last \in S
      PROVE  last + 1 \in S
  <2>1. PICK f : Is(f, last)
    BY <1>2
  <2> DEFINE end == first + (last + 1)
             g == [n \in first .. end |->
                     IF n = end THEN step[end][f[end - 1]] ELSE f[n]]
  <2>2. end \in Nat /\ end - 1 = first + last /\ first <= end - 1
    OBVIOUS
  <2>3. f[end - 1] \in V /\ step[end][f[end - 1]] \in V
    BY <2>1, <2>2 DEF Recurs, IsStep
  <2>4. g \in [first .. end -> V]
    <3>1. \A n \in first .. end : n # end => n \in first .. first + last
      BY <2>2
    <3> QED
      BY <2>1, <2>3, <3>1 DEF Recurs
  <2>5. g[first] = a
    BY <2>1, <2>2 DEF Recurs
  <2>6. ASSUME NEW n \in first .. end, n # first
        PROVE  g[n] = step[n][g[n - 1]]
    <3>1. n \in first .. end /\ n - 1 \in first .. end /\ n - 1 # end
      BY <2>2, <2>6
    <3>2. g[n - 1] = f[n - 1]
      BY <3>1
    <3>3. CASE n = end
      BY <3>1, <3>2, <3>3
    <3>4. CASE n # end
      <4>1. n \in first .. first + last
        BY <2>2, <3>4
      <4> QED
        BY <2>1, <2>6, <3>1, <3>2, <3>4, <4>1 DEF Recurs
    <3> QED
      BY <3>3, <3>4
  <2>7. Is(g, last + 1)
    BY <2>4, <2>5, <2>6 DEF Recurs
  <2> HIDE DEF Is, g
  <2> QED
    BY <2>7
<1>3. Nat \subseteq S
  <2> HIDE DEF S
  <2> QED
    BY <1>1, <1>2, Induct
<1> QED
  BY <1>3

\* Induction from the first to the last number of an interval.
LEMMA InductFrom ==
  ASSUME NEW S, NEW first \in Nat, NEW last \in Nat, first \in S,
         \A n \in first .. last : n \in S /\ n < last => n + 1 \in S
  PROVE  first .. last \subseteq S
<1> DEFINE D == {n \in Nat : first + n <= last => first + n \in S}
<1>1. 0 \in D
  OBVIOUS
<1>2. ASSUME NEW n \in Nat, n \in D
      PROVE  n + 1 \in D
  <2> SUFFICES ASSUME first + (n + 1) <= last
               PROVE  first + (n + 1) \in S
    OBVIOUS
  <2>1. first + n \in first .. last /\ first + n < last
    OBVIOUS
  <2>2. first + n \in S
    BY <1>2, <2>1
  <2>3. first + n + 1 \in S
    BY <2>1, <2>2
  <2> QED
    BY <2>3
<1>3. Nat \subseteq D
  <2> HIDE DEF D
  <2> QED
    BY <1>1, <1>2, Induct
<1>4. ASSUME NEW n \in first .. last
      PROVE  n \in S
  <2>1. n - first \in Nat /\ first + (n - first) = n /\ n <= last
    BY <1>4
  <2>2. n - first \in D
    BY <1>3, <2>1
  <2> QED
    BY <2>1, <2>2
<1> QED
  BY <1>4

LEMMA Recursion ==
  ASSUME NEW V, NEW a \in V, NEW step, IsStep(step, V),
         NEW first \in Nat, NEW last \in Nat, first <= last
  PROVE  \E f : Recurs(f, V, a, step, first, last)
<1>1. PICK k \in Nat : first + k = last
  <2>1. last - first \in Nat /\ first + (last - first) = last
    OBVIOUS
  <2> QED
    BY <2>1
<1>2. \E f : Recurs(f, V, a, step, first, first + k)
  BY RecursionBy
<1> QED
  BY <1>1, <1>2

-----------------------------------------------------------------------------
(* The library's FlattenSeq, and MaxOf                                       *)

\* Two sequences one after the other have the elements of both.
LEMMA Appended ==
  ASSUME NEW T, NEW a \in Seq(T), NEW b \in Seq(T)
  PROVE  /\ a \o b \in Seq(T)
         /\ ToSet(a \o b) = ToSet(a) \union ToSet(b)
<1> DEFINE all == a \o b
<1>1. /\ all \in Seq(T)
      /\ Len(all) = Len(a) + Len(b)
      /\ \A i \in 1 .. Len(a) + Len(b) :
           all[i] = IF i <= Len(a) THEN a[i] ELSE b[i - Len(a)]
  BY ConcatProperties
<1>2. \A i \in 1 .. Len(a) :
        i \in 1 .. Len(all) /\ all[i] = a[i]
  BY <1>1
<1>3. \A i \in 1 .. Len(b) :
        Len(a) + i \in 1 .. Len(all) /\ all[Len(a) + i] = b[i]
  BY <1>1
<1> HIDE DEF all
<1>4. \A i \in 1 .. Len(all) :
        \/ i \in 1 .. Len(a) /\ all[i] = a[i]
        \/ i - Len(a) \in 1 .. Len(b) /\ all[i] = b[i - Len(a)]
  BY <1>1
<1>5. ToSet(a) \subseteq ToSet(all) /\ ToSet(b) \subseteq ToSet(all)
  <2>1. ToSet(a) \subseteq ToSet(all)
    BY <1>1, <1>2 DEF ToSet
  <2>2. ASSUME NEW x \in ToSet(b) PROVE x \in ToSet(all)
    <3>1. PICK i \in 1 .. Len(b) : x = b[i]
      BY DEF ToSet
    <3>2. Len(a) + i \in 1 .. Len(all) /\ all[Len(a) + i] = x
      BY <1>3, <3>1
    <3>3. DOMAIN all = 1 .. Len(all)
      BY <1>1
    <3> QED
      BY <3>2, <3>3 DEF ToSet
  <2> QED
    BY <2>1, <2>2
<1>6. ToSet(all) \subseteq ToSet(a) \union ToSet(b)
  BY <1>1, <1>4 DEF ToSet
<1> QED
  BY <1>1, <1>5, <1>6 DEF all

\* All sequences one after the other have the elements of each.
LEMMA Flattened ==
  ASSUME NEW T, NEW s \in Seq(Seq(T))
  PROVE  /\ FlattenSeq(s) \in Seq(T)
         /\ ToSet(FlattenSeq(s)) = UNION {ToSet(s[i]) : i \in DOMAIN s}
<1>1. CASE Len(s) = 0
  <2>1. s = <<>> /\ FlattenSeq(s) = s
    BY <1>1 DEF FlattenSeq
  <2>2. s \in Seq(T) /\ DOMAIN s = {}
    BY <2>1
  <2>3. ToSet(s) = {} /\ UNION {ToSet(s[i]) : i \in DOMAIN s} = {}
    BY <2>2 DEF ToSet
  <2> QED
    BY <2>1, <2>2, <2>3
<1>2. CASE Len(s) # 0
  <2> DEFINE At(n) == IF n \in DOMAIN s THEN s[n] ELSE <<>>
             step == [n \in Nat |-> [l \in Seq(T) |-> l \o At(n)]]
             Flattens(f) ==
               f = [i \in 1 .. Len(s) |->
                      IF i = 1 THEN s[i] ELSE f[i - 1] \o s[i]]
  <2>1. /\ Len(s) \in Nat /\ 1 <= Len(s) /\ DOMAIN s = 1 .. Len(s)
        /\ \A n \in 1 .. Len(s) : s[n] \in Seq(T)
    BY <1>2
  <2>2. /\ \A n \in Nat : At(n) \in Seq(T)
        /\ \A n \in 1 .. Len(s) : At(n) = s[n]
    BY <2>1
  <2>3. \E f : Flattens(f)
    <3>1. IsStep(step, Seq(T))
      <4> HIDE DEF At
      <4> QED
        BY <2>2 DEF IsStep
    <3>2. PICK f : Recurs(f, Seq(T), s[1], step, 1, Len(s))
      <4>1. s[1] \in Seq(T) /\ 1 \in Nat
        BY <2>1
      <4> HIDE DEF step
      <4> QED
        BY <2>1, <3>1, <4>1, Recursion
    <3>3. ASSUME NEW n \in 1 .. Len(s), n # 1
          PROVE  f[n] = f[n - 1] \o s[n]
      <4>1. n \in Nat /\ n - 1 \in 1 .. Len(s)
        BY <2>1, <3>3
      <4>2. f[n - 1] \in Seq(T)
        BY <3>2, <3>3, <4>1 DEF Recurs
      <4>3. step[n][f[n - 1]] = f[n - 1] \o At(n)
        <5> HIDE DEF At
        <5> QED
          BY <4>1, <4>2
      <4>4. At(n) = s[n]
        BY <2>2
      <4>5. f[n] = step[n][f[n - 1]]
        BY <3>2, <3>3, <4>1 DEF Recurs
      <4> HIDE DEF At, step
      <4> QED
        BY <4>3, <4>4, <4>5
    <3>4. f = [i \in 1 .. Len(s) |->
                 IF i = 1 THEN s[i] ELSE f[i - 1] \o s[i]]
      BY <3>2, <3>3 DEF Recurs
    <3> QED
      BY <3>4
  <2> DEFINE f == CHOOSE f : Flattens(f)
             Cat(l, m) == l \o m
             Good(n) == /\ f[n] \in Seq(T)
                        /\ ToSet(f[n]) = UNION {ToSet(s[i]) : i \in 1 .. n}
             S == {n \in 1 .. Len(s) : Good(n)}
  <2>4. FlattenSeq(s) = f[Len(s)]
    BY <1>2 DEF FlattenSeq
  <2>5. Flattens(f)
    BY <2>3
  <2> HIDE DEF f
  <2>6. /\ f[1] = s[1]
        /\ \A n \in 1 .. Len(s) : n # 1 => f[n] = Cat(f[n - 1], s[n])
    <3>1. f = [n \in 1 .. Len(s) |->
                 IF n = 1 THEN s[n] ELSE Cat(f[n - 1], s[n])]
      BY <2>5
    <3> HIDE DEF Cat
    <3>2. \A n \in 1 .. Len(s) :
            f[n] = IF n = 1 THEN s[n] ELSE Cat(f[n - 1], s[n])
      BY <3>1
    <3> QED
      BY <2>1, <3>2
  <2>7. 1 \in S
    <3>1. f[1] = s[1] /\ s[1] \in Seq(T) /\ 1 .. 1 = {1}
      BY <2>1, <2>6
    <3> QED
      BY <2>1, <3>1
  <2>8. ASSUME NEW n \in 1 .. Len(s), n \in S /\ n < Len(s)
        PROVE  n + 1 \in S
    <3> DEFINE a == f[n]
               b == s[n + 1]
    <3>1. n + 1 \in 1 .. Len(s) /\ n + 1 # 1 /\ n + 1 - 1 = n
      BY <2>1, <2>8
    <3>2. f[n + 1] = a \o b
      <4>1. f[n + 1] = Cat(f[n], s[n + 1])
        <5> HIDE DEF Cat
        <5> QED
          BY <2>6, <3>1
      <4> QED
        BY <4>1
    <3>3. a \in Seq(T) /\ b \in Seq(T)
      BY <2>1, <2>8, <3>1
    <3>4. a \o b \in Seq(T) /\ ToSet(a \o b) = ToSet(a) \union ToSet(b)
      <4> HIDE DEF a, b
      <4> QED
        BY <3>3, Appended
    <3>5. 1 .. n + 1 = 1 .. n \union {n + 1}
      OBVIOUS
    <3>6. ToSet(a) = UNION {ToSet(s[i]) : i \in 1 .. n}
      BY <2>8
    <3>7. ToSet(f[n + 1]) = UNION {ToSet(s[i]) : i \in 1 .. n + 1}
      <4>1. ToSet(f[n + 1]) = ToSet(a) \union ToSet(b)
        BY <3>2, <3>4
      <4> QED
        BY <3>5, <3>6, <4>1
    <3> QED
      BY <3>1, <3>2, <3>4, <3>7
  <2>9. Good(Len(s))
    <3>1. 1 .. Len(s) \subseteq S
      <4> HIDE DEF S
      <4> QED
        BY <2>1, <2>7, <2>8, InductFrom
    <3>2. Len(s) \in S
      <4> HIDE DEF S
      <4> QED
        BY <2>1, <3>1
    <3> QED
      BY <3>2
  <2> QED
    BY <2>1, <2>4, <2>9
<1> QED
  BY <1>1, <1>2

\* What field has for the largest element of a sequence is what it has for one
\* of the elements, and no less than for any other.
LEMMA Largest ==
  ASSUME NEW l \in Seq(Results), l # <<>>, NEW field \in [Results -> Nat],
         NEW default
  PROVE  /\ \E x \in ToSet(l) : MaxOf(l, field, default) = field[x]
         /\ \A x \in ToSet(l) : field[x] <= MaxOf(l, field, default)
<1> DEFINE Higher(m, n) == field[m] < field[l[n]]
           Greater(m, n) == IF Higher(m, n) THEN l[n] ELSE m
           step == [n \in Nat |->
                      [m \in Results |->
                         IF n \in DOMAIN l THEN Greater(m, n) ELSE m]]
           Climbs(f) ==
             f = [n \in 1 .. Len(l) |->
                    IF n = 1 \/ field[f[n - 1]] < field[l[n]] THEN l[n]
                    ELSE f[n - 1]]
<1>1. /\ Len(l) \in Nat /\ 1 <= Len(l) /\ DOMAIN l = 1 .. Len(l)
      /\ \A n \in 1 .. Len(l) : l[n] \in Results
  OBVIOUS
<1>2. \E f : Climbs(f)
  <2>1. IsStep(step, Results)
    BY <1>1 DEF IsStep
  <2>2. PICK f : Recurs(f, Results, l[1], step, 1, Len(l))
    <3>1. l[1] \in Results /\ 1 \in Nat
      BY <1>1
    <3> HIDE DEF step
    <3> QED
      BY <1>1, <2>1, <3>1, Recursion
  <2>3. ASSUME NEW n \in 1 .. Len(l), n # 1
        PROVE  f[n] = Greater(f[n - 1], n)
    <3>1. n \in Nat /\ n - 1 \in 1 .. Len(l)
      BY <1>1, <2>3
    <3>2. f[n - 1] \in Results /\ f[n] = step[n][f[n - 1]]
      BY <2>2, <2>3, <3>1 DEF Recurs
    <3> QED
      BY <1>1, <3>1, <3>2
  <2>4. f = [n \in 1 .. Len(l) |->
               IF n = 1 \/ field[f[n - 1]] < field[l[n]] THEN l[n]
               ELSE f[n - 1]]
    BY <2>2, <2>3 DEF Recurs
  <2> QED
    BY <2>4
<1> DEFINE best == CHOOSE f : Climbs(f)
           Good(n) == /\ best[n] \in {l[i] : i \in 1 .. n}
                      /\ \A i \in 1 .. n : field[l[i]] <= field[best[n]]
           S == {n \in 1 .. Len(l) : Good(n)}
<1>3. MaxOf(l, field, default) = field[best[Len(l)]]
  BY DEF MaxOf
<1>4. Climbs(best)
  BY <1>2
<1> HIDE DEF best
<1>5. /\ best[1] = l[1]
      /\ \A n \in 1 .. Len(l) : n # 1 => best[n] = Greater(best[n - 1], n)
  <2>1. best = [n \in 1 .. Len(l) |->
                  IF n = 1 \/ Higher(best[n - 1], n) THEN l[n]
                  ELSE best[n - 1]]
    BY <1>4
  <2> HIDE DEF Higher
  <2>2. \A n \in 1 .. Len(l) :
          best[n] = IF n = 1 \/ Higher(best[n - 1], n) THEN l[n]
                    ELSE best[n - 1]
    BY <2>1
  <2> QED
    BY <1>1, <2>2
<1>6. 1 \in S
  BY <1>1, <1>5
<1>7. ASSUME NEW n \in 1 .. Len(l), n \in S /\ n < Len(l)
      PROVE  n + 1 \in S
  <2>1. n + 1 \in 1 .. Len(l) /\ n + 1 # 1 /\ n + 1 - 1 = n
    BY <1>1, <1>7
  <2>2. best[n + 1] = Greater(best[n], n + 1)
    BY <1>5, <2>1
  <2>3. \A i \in 1 .. n + 1 : i = n + 1 \/ i \in 1 .. n
    OBVIOUS
  <2>4. best[n] \in {l[i] : i \in 1 .. n + 1}
    BY <1>7
  <2>5. \A i \in 1 .. n + 1 : field[l[i]] \in Nat
    BY <1>1, <2>1
  <2>6. best[n + 1] \in {l[i] : i \in 1 .. n + 1}
    BY <2>2, <2>4
  <2>7. field[best[n]] \in Nat
    BY <2>4, <2>5
  <2>8. \A i \in 1 .. n : field[l[i]] <= field[best[n]]
    BY <1>7
  <2>9. ASSUME NEW i \in 1 .. n + 1
        PROVE  field[l[i]] <= field[best[n + 1]]
    <3>1. field[l[n + 1]] \in Nat /\ field[l[i]] \in Nat
      BY <1>1, <2>1
    <3>2. /\ field[best[n]] <= field[best[n + 1]]
          /\ field[l[n + 1]] <= field[best[n + 1]]
          /\ field[best[n + 1]] \in Nat
      <4>1. CASE Higher(best[n], n + 1)
        <5>1. best[n + 1] = l[n + 1] /\ field[best[n]] < field[l[n + 1]]
          BY <2>2, <4>1
        <5> QED
          BY <2>7, <3>1, <5>1
      <4>2. CASE ~ Higher(best[n], n + 1)
        <5>1. best[n + 1] = best[n] /\ ~ (field[best[n]] < field[l[n + 1]])
          BY <2>2, <4>2
        <5> QED
          BY <2>7, <3>1, <5>1
      <4> QED
        BY <4>1, <4>2
    <3>3. CASE i = n + 1
      BY <3>2, <3>3
    <3>4. CASE i \in 1 .. n
      <4>1. field[l[i]] <= field[best[n]]
        BY <2>8, <3>4
      <4> DEFINE u == field[l[i]]
                 v == field[best[n]]
                 w == field[best[n + 1]]
      <4>2. u \in Nat /\ v \in Nat /\ w \in Nat /\ u <= v /\ v <= w
        BY <2>7, <3>1, <3>2, <4>1
      <4> HIDE DEF u, v, w
      <4>3. u <= w
        BY <4>2
      <4> QED
        BY <4>3 DEF u, w
    <3> QED
      BY <2>3, <3>3, <3>4
  <2> QED
    BY <2>1, <2>6, <2>9
<1>8. Good(Len(l))
  <2>1. 1 .. Len(l) \subseteq S
    <3> HIDE DEF S
    <3> QED
      BY <1>1, <1>6, <1>7, InductFrom
  <2>2. Len(l) \in S
    <3> HIDE DEF S
    <3> QED
      BY <1>1, <2>1
  <2> QED
    BY <2>2
<1>9. ToSet(l) = {l[i] : i \in 1 .. Len(l)}
  BY <1>1 DEF ToSet
<1> QED
  BY <1>3, <1>8, <1>9

\* So MaxOf is the worst of what the elements of the sequence have.
LEMMA MaxIsWorst ==
  ASSUME NEW l \in Seq(Results), NEW field \in [Results -> Nat], NEW default
  PROVE  MaxOf(l, field, default) = Worst(ToSet(l), field, default)
<1>1. CASE l = <<>>
  <2>1. ToSet(l) = {}
    BY <1>1 DEF ToSet
  <2> QED
    BY <1>1, <2>1 DEF MaxOf, Worst
<1>2. CASE l # <<>>
  <2> DEFINE S == ToSet(l)
             m == MaxOf(l, field, default)
             Fields == {field[x] : x \in S}
  <2>1. S \subseteq Results /\ S # {}
    <3>1. DOMAIN l = 1 .. Len(l) /\ Len(l) \in Nat /\ Len(l) # 0
      BY <1>2
    <3> QED
      BY <3>1 DEF ToSet
  <2>2. m \in Fields /\ \A x \in S : field[x] <= m
    BY <1>2, Largest
  <2> HIDE DEF m
  <2>3. Fields \subseteq Nat
    BY <2>1
  <2>4. ASSUME NEW k \in Fields, \A x \in S : field[x] <= k
        PROVE  k = m
    <3>1. PICK x \in S : m = field[x]
      BY <2>2
    <3>2. PICK y \in S : k = field[y]
      OBVIOUS
    <3>3. m <= k /\ k <= m
      BY <2>2, <2>4, <3>1, <3>2
    <3>4. m \in Nat /\ k \in Nat
      BY <2>2, <2>3
    <3> QED
      BY <3>3, <3>4
  <2>5. m = CHOOSE k \in Fields : \A x \in S : field[x] <= k
    BY <2>2, <2>4
  <2> QED
    BY <2>1, <2>5 DEF Worst, m
<1> QED
  BY <1>1, <1>2

-----------------------------------------------------------------------------
(* What is below a result                                                    *)

Graph == [Results -> Seq(Results)]

Kids(c, X) == UNION {ToSet(c[x]) : x \in X}

\* The function by which Below goes down, one level at a time.
Reach(c, r) ==
  CHOOSE reach :
    reach = [n \in 0 .. Cardinality(Results) |->
               IF n = 0 THEN ToSet(c[r])
               ELSE reach[n - 1] \union Kids(c, reach[n - 1])]

\* There is one, and Below is its last value.
LEMMA Reached ==
  ASSUME NEW c \in Graph, NEW r \in Results
  PROVE  /\ Below(c, r) = Reach(c, r)[Cardinality(Results)]
         /\ Cardinality(Results) \in Nat
         /\ Reach(c, r)[0] = ToSet(c[r])
         /\ \A n \in 1 .. Cardinality(Results) :
              Reach(c, r)[n] = Reach(c, r)[n - 1]
                                 \union Kids(c, Reach(c, r)[n - 1])
         /\ \A n \in 0 .. Cardinality(Results) :
              Reach(c, r)[n] \subseteq Results
<1> DEFINE N == Cardinality(Results)
           Further(X) == X \union Kids(c, X)
           step == [n \in Nat |-> [X \in SUBSET Results |-> Further(X)]]
           Reaches(f) ==
             f = [n \in 0 .. N |->
                    IF n = 0 THEN ToSet(c[r]) ELSE Further(f[n - 1])]
<1>1. N \in Nat
  BY ResultsAssumption, FS_CardinalityType
<1>2. \A x \in Results : ToSet(c[x]) \subseteq Results
  BY DEF Graph, ToSet
<1>3. \A X \in SUBSET Results : Further(X) \in SUBSET Results
  BY <1>2 DEF Kids
<1>4. PICK f : Recurs(f, SUBSET Results, ToSet(c[r]), step, 0, N)
  <2> HIDE DEF Further, N
  <2>1. IsStep(step, SUBSET Results)
    BY <1>3 DEF IsStep
  <2>2. ToSet(c[r]) \in SUBSET Results /\ 0 \in Nat /\ 0 <= N
    BY <1>1, <1>2
  <2> HIDE DEF step
  <2> QED
    BY <1>1, <2>1, <2>2, Recursion
<1>5. /\ f \in [0 .. N -> SUBSET Results]
      /\ f[0] = ToSet(c[r])
      /\ \A n \in 0 .. N : n # 0 => f[n] = Further(f[n - 1])
  <2> HIDE DEF Further, N
  <2>1. /\ f \in [0 .. N -> SUBSET Results]
        /\ f[0] = ToSet(c[r])
        /\ \A n \in 0 .. N : n # 0 => f[n] = step[n][f[n - 1]]
    BY <1>4, Zenon DEF Recurs
  <2>2. ASSUME NEW n \in 0 .. N, n # 0
        PROVE  step[n][f[n - 1]] = Further(f[n - 1])
    <3>1. n \in Nat /\ n - 1 \in 0 .. N
      BY <1>1, <2>2
    <3> QED
      BY <2>1, <3>1
  <2> QED
    BY <2>1, <2>2
<1>6. Reaches(f)
  <2> HIDE DEF Further, N
  <2> QED
    BY <1>1, <1>5
<1> DEFINE R == Reach(c, r)
<1>7. Reaches(R)
  <2>1. Reach(c, r) = CHOOSE g : Reaches(g)
    BY Zenon DEF Reach
  <2> QED
    BY <1>6, <2>1
<1>8. Below(c, r) = R[N]
  BY Zenon DEF Below, Reach, Kids
<1> HIDE DEF R
<1>9. /\ R[0] = ToSet(c[r])
      /\ \A n \in 1 .. N : R[n] = Further(R[n - 1])
  <2> HIDE DEF Further, N
  <2> QED
    BY <1>1, <1>7
<1>10. \A n \in 0 .. N : R[n] \subseteq Results
  <2> DEFINE S == {n \in 0 .. N : R[n] \in SUBSET Results}
  <2>1. 0 \in S
    BY <1>1, <1>2, <1>9
  <2>2. ASSUME NEW n \in 0 .. N, n \in S /\ n < N
        PROVE  n + 1 \in S
    <3>1. n + 1 \in 1 .. N /\ n + 1 - 1 = n
      BY <1>1, <2>2
    <3>2. R[n + 1] = Further(R[n])
      <4> HIDE DEF Further, N
      <4> QED
        BY <1>9, <3>1
    <3> QED
      BY <1>3, <2>2, <3>1, <3>2
  <2>3. 0 .. N \subseteq S
    <3> HIDE DEF S, N
    <3> QED
      BY <1>1, <2>1, <2>2, InductFrom
  <2> QED
    BY <2>3
<1> QED
  BY <1>1, <1>8, <1>9, <1>10 DEF R

\* Levels only grow, and a level is also what is below the children at the level
\* before, which is how flat_children comes to it.
LEMMA FromTheChildren ==
  ASSUME NEW c \in Graph, NEW n \in 0 .. Cardinality(Results)
  PROVE  \A x \in Results :
           /\ ToSet(c[x]) \subseteq Reach(c, x)[n]
           /\ n # 0 =>
                Reach(c, x)[n] = ToSet(c[x])
                  \union UNION {Reach(c, y)[n - 1] : y \in ToSet(c[x])}
<1> DEFINE N == Cardinality(Results)
           R(x) == Reach(c, x)
           Among(x, m) == UNION {R(y)[m] : y \in ToSet(c[x])}
           Good(m) == \A x \in Results :
                        /\ ToSet(c[x]) \subseteq R(x)[m]
                        /\ m # 0 => R(x)[m] = ToSet(c[x]) \union Among(x, m - 1)
           S == {m \in 0 .. N : Good(m)}
<1>1. N \in Nat
  BY ResultsAssumption, FS_CardinalityType
<1>2. \A x \in Results : ToSet(c[x]) \subseteq Results
  BY DEF Graph, ToSet
<1>3. \A x \in Results :
        /\ R(x)[0] = ToSet(c[x])
        /\ \A m \in 1 .. N : R(x)[m] = R(x)[m - 1] \union Kids(c, R(x)[m - 1])
  BY Reached
<1> HIDE DEF N, R
<1>4. 0 \in S
  BY <1>1, <1>3
<1>5. ASSUME NEW m \in 0 .. N, m \in S /\ m < N
      PROVE  m + 1 \in S
  <2>1. m + 1 \in 1 .. N /\ m + 1 - 1 = m /\ m + 1 # 0 /\ m + 1 \in 0 .. N
    BY <1>1, <1>5
  <2>2. \A x \in Results : R(x)[m + 1] = R(x)[m] \union Kids(c, R(x)[m])
    BY <1>3, <2>1
  <2> SUFFICES ASSUME NEW x \in Results
               PROVE  /\ ToSet(c[x]) \subseteq R(x)[m + 1]
                      /\ R(x)[m + 1] = ToSet(c[x]) \union Among(x, m)
    BY <2>1
  <2>3. \A y \in Results : ToSet(c[y]) \subseteq R(y)[m]
    BY <1>5
  <2>4. ToSet(c[x]) \subseteq R(x)[m + 1]
    BY <2>2, <2>3
  <2>5. R(x)[m + 1] = ToSet(c[x]) \union Among(x, m)
    <3>1. CASE m = 0
      <4>1. R(x)[1] = ToSet(c[x]) \union Kids(c, ToSet(c[x]))
        BY <1>3, <2>2, <3>1
      <4>2. \A y \in ToSet(c[x]) : R(y)[0] = ToSet(c[y])
        BY <1>2, <1>3
      <4>3. Among(x, 0) = Kids(c, ToSet(c[x]))
        BY <4>2 DEF Kids
      <4> QED
        BY <3>1, <4>1, <4>3
    <3>2. CASE m # 0
      <4>1. m \in 1 .. N
        BY <1>1, <3>2
      <4>2. R(x)[m] = ToSet(c[x]) \union Among(x, m - 1)
        BY <1>5, <3>2
      <4>3. \A y \in ToSet(c[x]) :
              /\ R(y)[m] = R(y)[m - 1] \union Kids(c, R(y)[m - 1])
              /\ R(y)[m + 1] = R(y)[m] \union Kids(c, R(y)[m])
              /\ ToSet(c[y]) \subseteq R(y)[m]
        BY <1>2, <1>3, <2>2, <2>3, <4>1
      <4>4. R(x)[m + 1] \subseteq ToSet(c[x]) \union Among(x, m)
        <5>1. ASSUME NEW z \in R(x)[m]
              PROVE  z \in ToSet(c[x]) \union Among(x, m)
          BY <4>2, <4>3
        <5>2. ASSUME NEW z \in Kids(c, R(x)[m])
              PROVE  z \in Among(x, m)
          <6>1. PICK w \in R(x)[m] : z \in ToSet(c[w])
            BY DEF Kids
          <6>2. CASE w \in ToSet(c[x])
            BY <4>3, <6>1, <6>2
          <6>3. CASE w \in Among(x, m - 1)
            <7>1. PICK y \in ToSet(c[x]) : w \in R(y)[m - 1]
              BY <6>3
            <7>2. z \in Kids(c, R(y)[m - 1])
              BY <6>1, <7>1 DEF Kids
            <7>3. z \in R(y)[m]
              BY <4>3, <7>2
            <7> QED
              BY <7>3
          <6> QED
            BY <4>2, <6>1, <6>2, <6>3
        <5> QED
          BY <2>2, <5>1, <5>2
      <4>5. ASSUME NEW y \in ToSet(c[x]), NEW z \in R(y)[m]
            PROVE  z \in R(x)[m + 1]
        <5>1. CASE z \in R(y)[m - 1]
          BY <2>2, <4>2, <5>1
        <5>2. CASE z \in Kids(c, R(y)[m - 1])
          <6>1. PICK w \in R(y)[m - 1] : z \in ToSet(c[w])
            BY <5>2 DEF Kids
          <6>2. w \in R(x)[m]
            BY <4>2, <6>1
          <6>3. z \in Kids(c, R(x)[m])
            BY <6>1, <6>2 DEF Kids
          <6> QED
            BY <2>2, <6>3
        <5> QED
          BY <4>3, <5>1, <5>2
      <4> QED
        BY <2>4, <4>4, <4>5
    <3> QED
      BY <3>1, <3>2
  <2> QED
    BY <2>4, <2>5
<1>6. 0 .. N \subseteq S
  <2>1. 0 \in Nat /\ 0 \in S
    BY <1>4
  <2> HIDE DEF S
  <2> QED
    BY <1>1, <1>5, <2>1, InductFrom
<1>7. Good(n)
  <2>1. n \in S
    BY <1>6 DEF N
  <2> QED
    BY <2>1
<1> QED
  BY <1>7 DEF R

\* A level either adds to the ones before or is the last that does, and there
\* are no more results than levels: the last level adds nothing.
LEMMA LastAddsNothing ==
  ASSUME NEW c \in Graph, NEW r \in Results
  PROVE  /\ Cardinality(Results) \in Nat \ {0}
         /\ Reach(c, r)[Cardinality(Results)] =
              Reach(c, r)[Cardinality(Results) - 1]
<1> DEFINE N == Cardinality(Results)
           R == Reach(c, r)
           Closed(X) == Kids(c, X) \subseteq X
           Good(n) == Closed(R[n]) \/ Cardinality(R[n]) >= n + 1
           S == {n \in 0 .. N : Good(n)}
<1>1. N \in Nat /\ N # 0
  BY ResultsAssumption, FS_CardinalityType, FS_EmptySet
<1>2. /\ \A n \in 1 .. N : R[n] = R[n - 1] \union Kids(c, R[n - 1])
      /\ \A n \in 0 .. N : R[n] \subseteq Results
  BY Reached
<1> HIDE DEF N, R
<1>3. \A n \in 0 .. N : IsFiniteSet(R[n]) /\ Cardinality(R[n]) \in Nat
  BY <1>2, ResultsAssumption, FS_Subset, FS_CardinalityType
<1>4. 0 \in S
  <2>1. 0 \in 0 .. N
    BY <1>1
  <2>2. CASE R[0] = {}
    BY <2>1, <2>2 DEF Kids
  <2>3. CASE R[0] # {}
    <3>1. Cardinality(R[0]) # 0
      BY <1>3, <2>1, <2>3, FS_EmptySet
    <3>2. Cardinality(R[0]) >= 0 + 1
      BY <1>3, <2>1, <3>1
    <3> QED
      BY <2>1, <3>2
  <2> QED
    BY <2>2, <2>3
<1>5. ASSUME NEW n \in 0 .. N, n \in S /\ n < N
      PROVE  n + 1 \in S
  <2>1. n + 1 \in 1 .. N /\ n + 1 - 1 = n /\ n + 1 \in 0 .. N
    BY <1>1, <1>5
  <2>2. R[n + 1] = R[n] \union Kids(c, R[n])
    BY <1>2, <2>1
  <2>3. CASE Closed(R[n])
    <3>1. R[n + 1] = R[n]
      BY <2>2, <2>3
    <3> QED
      BY <2>1, <2>3, <3>1
  <2>4. CASE ~ Closed(R[n])
    <3>1. Cardinality(R[n]) >= n + 1
      BY <1>5, <2>4
    <3>2. PICK x \in Kids(c, R[n]) : x \notin R[n]
      BY <2>4
    <3>3. /\ IsFiniteSet(R[n] \union {x})
          /\ Cardinality(R[n] \union {x}) = Cardinality(R[n]) + 1
      BY <1>3, <3>2, FS_AddElement
    <3>4. R[n] \union {x} \in SUBSET R[n + 1]
      BY <2>2
    <3>5. Cardinality(R[n] \union {x}) <= Cardinality(R[n + 1])
      BY <1>3, <2>1, <3>4, FS_Subset
    <3>6. Cardinality(R[n + 1]) >= n + 1 + 1
      BY <1>3, <2>1, <3>1, <3>3, <3>5
    <3> QED
      BY <2>1, <3>6
  <2> QED
    BY <2>3, <2>4
<1>6. 0 .. N \subseteq S
  <2>1. 0 \in Nat /\ 0 \in S
    BY <1>4
  <2> HIDE DEF S
  <2> QED
    BY <1>1, <1>5, <2>1, InductFrom
<1>7. N - 1 \in 0 .. N /\ N \in 1 .. N /\ N - 1 + 1 = N
  BY <1>1
<1>8. Closed(R[N - 1])
  <2>1. CASE Cardinality(R[N - 1]) >= N
    <3>1. R[N - 1] \in SUBSET Results
      BY <1>2, <1>7
    <3>2. Cardinality(R[N - 1]) <= N
      BY <3>1, ResultsAssumption, FS_Subset DEF N
    <3>3. Cardinality(R[N - 1]) = N
      BY <1>1, <1>3, <1>7, <2>1, <3>2
    <3>4. R[N - 1] = Results
      BY <3>1, <3>3, ResultsAssumption, FS_Subset DEF N
    <3>5. \A x \in Results : ToSet(c[x]) \subseteq Results
      BY DEF Graph, ToSet
    <3> QED
      BY <3>4, <3>5 DEF Kids
  <2>2. N - 1 \in S
    BY <1>6, <1>7
  <2> QED
    BY <1>7, <2>1, <2>2
<1>9. R[N] = R[N - 1]
  BY <1>2, <1>7, <1>8
<1> QED
  BY <1>1, <1>9 DEF N, R

\* What flat_children gathers from the children and, one level less deep, from
\* each of them.
Level(c, x, g) == c[x] \o FlattenSeq([i \in DOMAIN c[x] |-> g[c[x][i]]])

\* The function by which Flat goes down.
Gather(c) ==
  CHOOSE below :
    below = [n \in 0 .. Cardinality(Results) |->
               [x \in Results |->
                  IF n = 0 THEN <<>> ELSE Level(c, x, below[n - 1])]]

\* A level is a sequence of results: the children, and what was gathered from
\* them.
LEMMA LevelHas ==
  ASSUME NEW c \in Graph, NEW x \in Results, NEW g \in [Results -> Seq(Results)]
  PROVE  /\ Level(c, x, g) \in Seq(Results)
         /\ ToSet(Level(c, x, g)) =
              ToSet(c[x]) \union UNION {ToSet(g[y]) : y \in ToSet(c[x])}
<1> DEFINE s == [i \in DOMAIN c[x] |-> g[c[x][i]]]
           l == c[x]
<1>1. l \in Seq(Results)
  BY DEF Graph
<1>2. s \in Seq(Seq(Results)) /\ DOMAIN s = DOMAIN l
  <2>1. /\ Len(l) \in Nat /\ DOMAIN l = 1 .. Len(l)
        /\ \A i \in DOMAIN l : l[i] \in Results
    BY <1>1
  <2>2. s \in [1 .. Len(l) -> Seq(Results)]
    BY <2>1
  <2> HIDE DEF s, l
  <2>3. \A n \in Nat : \A h \in [1 .. n -> Seq(Results)] :
          h \in Seq(Seq(Results))
    OBVIOUS
  <2> QED
    BY <2>1, <2>2, <2>3
<1>3. /\ FlattenSeq(s) \in Seq(Results)
      /\ ToSet(FlattenSeq(s)) = UNION {ToSet(s[i]) : i \in DOMAIN s}
  <2> HIDE DEF s
  <2> QED
    BY <1>2, Flattened
<1>4. UNION {ToSet(s[i]) : i \in DOMAIN s} =
        UNION {ToSet(g[y]) : y \in ToSet(l)}
  <2>1. \A i \in DOMAIN s : s[i] = g[l[i]]
    BY <1>2
  <2>2. ToSet(l) = {l[i] : i \in DOMAIN s}
    BY <1>2 DEF ToSet
  <2> HIDE DEF s, l
  <2>3. ASSUME NEW i \in DOMAIN s
        PROVE  l[i] \in ToSet(l) /\ s[i] = g[l[i]]
    BY <2>1, <2>2
  <2>4. ASSUME NEW y \in ToSet(l)
        PROVE  \E i \in DOMAIN s : s[i] = g[y]
    BY <2>1, <2>2
  <2> QED
    BY <2>3, <2>4
<1>5. /\ l \o FlattenSeq(s) \in Seq(Results)
      /\ ToSet(l \o FlattenSeq(s)) = ToSet(l) \union ToSet(FlattenSeq(s))
  <2> HIDE DEF s, l
  <2> QED
    BY <1>1, <1>3, Appended
<1>6. Level(c, x, g) = l \o FlattenSeq(s)
  BY DEF Level
<1> HIDE DEF s
<1> QED
  BY <1>3, <1>4, <1>5, <1>6

\* There is one, and Flat is its last value.
LEMMA GatheredByLevels ==
  ASSUME NEW c \in Graph
  PROVE  /\ Gather(c) \in [0 .. Cardinality(Results) ->
                             [Results -> Seq(Results)]]
         /\ \A x \in Results : Gather(c)[0][x] = <<>>
         /\ \A n \in 1 .. Cardinality(Results), x \in Results :
              Gather(c)[n][x] = Level(c, x, Gather(c)[n - 1])
         /\ \A x \in Results : Flat(c, x) = Gather(c)[Cardinality(Results)][x]
<1> DEFINE N == Cardinality(Results)
           V == [Results -> Seq(Results)]
           start == [x \in Results |-> <<>>]
           Down(g) == [x \in Results |-> Level(c, x, g)]
           step == [n \in Nat |-> [g \in V |-> Down(g)]]
           Gathers(b) ==
             b = [n \in 0 .. N |->
                    [x \in Results |->
                       IF n = 0 THEN <<>> ELSE Level(c, x, b[n - 1])]]
<1>1. N \in Nat
  BY ResultsAssumption, FS_CardinalityType
<1>2. start \in V /\ \A g \in V : Down(g) \in V
  BY LevelHas
<1>3. PICK f : Recurs(f, V, start, step, 0, N)
  <2>1. 0 \in Nat /\ 0 <= N
    BY <1>1
  <2>2. IsStep(step, V)
    <3> HIDE DEF Down, V
    <3> QED
      BY <1>2 DEF IsStep
  <2> HIDE DEF V, N, start, step
  <2> QED
    BY <1>1, <1>2, <2>1, <2>2, Recursion
<1>4. /\ f \in [0 .. N -> V]
      /\ f[0] = start
      /\ \A n \in 0 .. N : n # 0 => f[n] = Down(f[n - 1])
  <2>1. /\ f \in [0 .. N -> V]
        /\ f[0] = start
        /\ \A n \in 0 .. N : n # 0 => f[n] = step[n][f[n - 1]]
    <3> HIDE DEF V, N, start, step
    <3> QED
      BY <1>3, Zenon DEF Recurs
  <2>2. ASSUME NEW n \in 0 .. N, n # 0
        PROVE  f[n] = Down(f[n - 1])
    <3>1. n \in Nat /\ n - 1 \in 0 .. N
      BY <1>1, <2>2
    <3> HIDE DEF Down, V
    <3> QED
      BY <2>1, <2>2, <3>1
  <2> QED
    BY <2>1, <2>2
<1>5. Gathers(f)
  <2> DEFINE Value(n) == [x \in Results |->
                            IF n = 0 THEN <<>> ELSE Level(c, x, f[n - 1])]
  <2>1. ASSUME NEW n \in 0 .. N
        PROVE  f[n] = Value(n)
    <3>1. CASE n = 0
      BY <1>4, <3>1
    <3>2. CASE n # 0
      BY <1>4, <3>2
    <3> QED
      BY <3>1, <3>2
  <2> HIDE DEF Value, N, V
  <2>2. f = [n \in 0 .. N |-> Value(n)]
    BY <1>4, <2>1
  <2> QED
    BY <2>2 DEF Value
<1> DEFINE G == Gather(c)
<1>6. Gathers(G)
  <2>1. G = CHOOSE b : Gathers(b)
    BY Zenon DEF Gather
  <2> QED
    BY <1>5, <2>1
<1>7. \A x \in Results : Flat(c, x) = G[N][x]
  BY Zenon DEF Flat, Gather, Level
<1> HIDE DEF G, N
<1>8. /\ DOMAIN G = 0 .. N
      /\ \A x \in Results : G[0][x] = <<>>
      /\ G[0] = start
      /\ \A n \in 1 .. N : G[n] = Down(G[n - 1])
  <2> DEFINE Value(n) == [x \in Results |->
                            IF n = 0 THEN <<>> ELSE Level(c, x, G[n - 1])]
  <2>1. G = [n \in 0 .. N |-> Value(n)]
    BY <1>6
  <2>2. DOMAIN G = 0 .. N /\ \A n \in 0 .. N : G[n] = Value(n)
    <3> HIDE DEF Value
    <3> QED
      BY <2>1
  <2>3. G[0] = start /\ \A x \in Results : G[0][x] = <<>>
    BY <1>1, <2>2
  <2>4. ASSUME NEW n \in 1 .. N
        PROVE  G[n] = Down(G[n - 1])
    <3>1. n \in 0 .. N /\ n # 0
      BY <1>1
    <3>2. Value(n) = Down(G[n - 1])
      BY <3>1
    <3> HIDE DEF Value, Down
    <3> QED
      BY <2>2, <3>1, <3>2
  <2> QED
    BY <2>2, <2>3, <2>4
<1>9. \A n \in 0 .. N : G[n] \in V
  <2> DEFINE S == {n \in 0 .. N : G[n] \in V}
  <2> HIDE DEF V, Down, start
  <2>1. 0 \in S /\ 0 \in Nat
    BY <1>1, <1>2, <1>8
  <2>2. ASSUME NEW n \in 0 .. N, n \in S /\ n < N
        PROVE  n + 1 \in S
    <3>1. n + 1 \in 1 .. N /\ n + 1 - 1 = n /\ n + 1 \in 0 .. N
      BY <1>1, <2>2
    <3>2. G[n + 1] = Down(G[n])
      BY <1>8, <3>1
    <3> QED
      BY <1>2, <2>2, <3>1, <3>2
  <2>3. 0 .. N \subseteq S
    <3> HIDE DEF S
    <3> QED
      BY <1>1, <2>1, <2>2, InductFrom
  <2> QED
    BY <2>3
<1>10. G \in [0 .. N -> V]
  <2>1. G = [n \in 0 .. N |-> G[n]]
    BY <1>6, <1>8
  <2> HIDE DEF V
  <2> QED
    BY <1>9, <2>1
<1>11. \A n \in 1 .. N, x \in Results : G[n][x] = Level(c, x, G[n - 1])
  <2>1. \A g : \A x \in Results : Down(g)[x] = Level(c, x, g)
    OBVIOUS
  <2> HIDE DEF Down
  <2> QED
    BY <1>8, <2>1
<1> QED
  BY <1>7, <1>8, <1>10, <1>11 DEF G, N

\* Flat has exactly the results below.
LEMMA FlatHasAllBelow ==
  ASSUME NEW c \in Graph, NEW r \in Results
  PROVE  Flat(c, r) \in Seq(Results) /\ ToSet(Flat(c, r)) = Below(c, r)
<1> DEFINE N == Cardinality(Results)
           G == Gather(c)
           R(x) == Reach(c, x)
           Good(n) == \A x \in Results : ToSet(G[n + 1][x]) = R(x)[n]
           S == {n \in 0 .. N - 1 : Good(n)}
<1>1. N \in Nat \ {0} /\ R(r)[N] = R(r)[N - 1]
  BY LastAddsNothing
<1>2. /\ G \in [0 .. N -> [Results -> Seq(Results)]]
      /\ \A x \in Results : G[0][x] = <<>>
      /\ \A n \in 1 .. N, x \in Results : G[n][x] = Level(c, x, G[n - 1])
      /\ Flat(c, r) = G[N][r]
  BY GatheredByLevels
<1>3. /\ \A x \in Results : R(x)[0] = ToSet(c[x])
      /\ Below(c, r) = R(r)[N]
  BY Reached
<1>4. \A n \in 1 .. N, x \in Results :
        n \in 0 .. N - 1 =>
          R(x)[n] = ToSet(c[x]) \union UNION {R(y)[n - 1] : y \in ToSet(c[x])}
  <2>1. ASSUME NEW n \in 1 .. N
        PROVE  n \in 0 .. N /\ n # 0
    BY <1>1
  <2> QED
    BY <2>1, FromTheChildren
<1>5. \A x \in Results : ToSet(c[x]) \subseteq Results
  BY DEF Graph, ToSet
<1> HIDE DEF N, G, R
<1> DEFINE From(x, g) == UNION {ToSet(g[y]) : y \in ToSet(c[x])}
<1>6. \A n \in 1 .. N, x \in Results :
        ToSet(G[n][x]) = ToSet(c[x]) \union From(x, G[n - 1])
  <2> SUFFICES ASSUME NEW n \in 1 .. N, NEW x \in Results
               PROVE  ToSet(G[n][x]) = ToSet(c[x]) \union From(x, G[n - 1])
    OBVIOUS
  <2>1. n - 1 \in 0 .. N
    BY <1>1
  <2>2. G[n - 1] \in [Results -> Seq(Results)]
    BY <1>2, <2>1
  <2>3. \A g \in [Results -> Seq(Results)] :
          ToSet(Level(c, x, g)) = ToSet(c[x]) \union From(x, g)
    BY LevelHas
  <2>4. G[n][x] = Level(c, x, G[n - 1])
    BY <1>2
  <2> HIDE DEF From
  <2> QED
    BY <2>2, <2>3, <2>4
<1>7. 0 \in S
  <2>1. 1 \in 1 .. N /\ 1 - 1 = 0 /\ 0 + 1 = 1 /\ 0 \in 0 .. N - 1
    BY <1>1
  <2>2. ToSet(<<>>) = {}
    BY DEF ToSet
  <2>3. ASSUME NEW x \in Results
        PROVE  ToSet(G[1][x]) = R(x)[0]
    <3>1. \A y \in ToSet(c[x]) : ToSet(G[0][y]) = {}
      BY <1>2, <1>5, <2>2
    <3>2. From(x, G[0]) = {}
      BY <3>1
    <3>3. ToSet(G[1][x]) = ToSet(c[x]) \union From(x, G[0])
      <4> HIDE DEF From
      <4> QED
        BY <1>6, <2>1
    <3> QED
      BY <1>3, <3>2, <3>3
  <2> QED
    BY <2>1, <2>3
<1>8. ASSUME NEW n \in 0 .. N - 1, n \in S /\ n < N - 1
      PROVE  n + 1 \in S
  <2>1. /\ n + 1 \in 0 .. N - 1 /\ n + 1 \in 1 .. N /\ n + 1 + 1 \in 1 .. N
        /\ n + 1 - 1 = n /\ n + 1 + 1 - 1 = n + 1
    BY <1>1, <1>8
  <2>2. ASSUME NEW x \in Results
        PROVE  ToSet(G[n + 1 + 1][x]) = R(x)[n + 1]
    <3>1. ToSet(G[n + 1 + 1][x]) = ToSet(c[x]) \union From(x, G[n + 1])
      <4> HIDE DEF From
      <4> QED
        BY <1>6, <2>1
    <3>2. R(x)[n + 1] = ToSet(c[x]) \union UNION {R(y)[n] : y \in ToSet(c[x])}
      BY <1>4, <2>1
    <3>3. \A y \in ToSet(c[x]) : ToSet(G[n + 1][y]) = R(y)[n]
      BY <1>5, <1>8
    <3> QED
      BY <3>1, <3>2, <3>3
  <2> QED
    BY <2>1, <2>2
<1>9. ToSet(G[N][r]) = R(r)[N - 1]
  <2>1. 0 \in Nat /\ N - 1 \in Nat /\ N - 1 \in 0 .. N - 1 /\ N - 1 + 1 = N
    BY <1>1
  <2>2. 0 .. N - 1 \subseteq S
    <3> HIDE DEF S
    <3> QED
      BY <1>7, <1>8, <2>1, InductFrom
  <2>3. Good(N - 1)
    BY <2>1, <2>2
  <2> HIDE DEF S
  <2> QED
    BY <2>1, <2>3
<1>10. G[N][r] \in Seq(Results)
  <2>1. N \in 0 .. N
    BY <1>1
  <2> QED
    BY <1>2, <2>1
<1> QED
  BY <1>1, <1>2, <1>3, <1>9, <1>10

-----------------------------------------------------------------------------
(* The theorems                                                              *)

Tree ==
  /\ children \in Graph
  /\ issue \in [Results -> Issues]
  /\ priority \in [Results -> 0 .. 7]

\* What max_issue and max_priority answer.
LEMMA Maxima ==
  ASSUME Tree, NEW r \in Results
  PROVE  /\ MaxIssue(children, issue, r) =
              Worst(Below(children, r), issue, MAYBE)
         /\ MaxPriority(children, priority, r) =
              Worst(Below(children, r), priority, NOTICE)
         /\ MaxIssue(children, issue, r) \in Issues
         /\ MaxPriority(children, priority, r) \in 0 .. 7
<1> DEFINE l == Flat(children, r)
<1>1. l \in Seq(Results) /\ ToSet(l) = Below(children, r)
  BY FlatHasAllBelow DEF Tree
<1>2. /\ issue \in [Results -> Issues] /\ priority \in [Results -> 0 .. 7]
      /\ issue \in [Results -> Nat] /\ priority \in [Results -> Nat]
  BY DEF Tree, Issues, NO, MAYBE, YES
<1>3. MAYBE \in Issues /\ NOTICE \in 0 .. 7
  BY DEF Issues, NO, MAYBE, YES, NOTICE
<1> HIDE DEF l
<1>4. \A x \in ToSet(l) : x \in Results
  BY <1>1 DEF ToSet
<1>5. /\ MaxOf(l, issue, MAYBE) \in Issues
      /\ MaxOf(l, priority, NOTICE) \in 0 .. 7
  <2>1. CASE l = <<>>
    BY <1>3, <2>1 DEF MaxOf
  <2>2. CASE l # <<>>
    <3>1. \E x \in ToSet(l) : MaxOf(l, issue, MAYBE) = issue[x]
      BY <1>1, <1>2, <2>2, Largest
    <3>2. \E x \in ToSet(l) : MaxOf(l, priority, NOTICE) = priority[x]
      BY <1>1, <1>2, <2>2, Largest
    <3>3. MaxOf(l, issue, MAYBE) \in Issues
      BY <1>2, <1>4, <3>1
    <3>4. MaxOf(l, priority, NOTICE) \in 0 .. 7
      BY <1>2, <1>4, <3>2
    <3> QED
      BY <3>3, <3>4
  <2> QED
    BY <2>1, <2>2
<1>6. /\ MaxOf(l, issue, MAYBE) = Worst(ToSet(l), issue, MAYBE)
      /\ MaxOf(l, priority, NOTICE) = Worst(ToSet(l), priority, NOTICE)
  BY <1>1, <1>2, MaxIsWorst
<1>7. /\ MaxIssue(children, issue, r) = MaxOf(l, issue, MAYBE)
      /\ MaxPriority(children, priority, r) = MaxOf(l, priority, NOTICE)
  BY DEF MaxIssue, MaxPriority, NewResult, l
<1> QED
  BY <1>1, <1>5, <1>6, <1>7

\* The results stay results, with issues and priorities that exist.
LEMMA AlwaysTree == Spec => []Tree
<1>1. Init => Tree
  <2> SUFFICES ASSUME Init PROVE Tree
    OBVIOUS
  <2>1. children \in Graph
    <3>1. <<>> \in Seq(Results)
      OBVIOUS
    <3> QED
      BY <3>1 DEF Init, Graph
  <2>2. priority \in [Results -> 0 .. 7]
    BY ResultsAssumption DEF Init
  <2> QED
    BY <2>1, <2>2 DEF Init, Tree
<1>2. ASSUME Tree, [Next]_vars
      PROVE  Tree'
  <2>1. ASSUME NEW p \in Results, NEW child \in Results, AddChild(p, child)
        PROVE  Tree'
    <3>1. children[p] \in Seq(Results) /\ DOMAIN children = Results
      BY <1>2 DEF Tree, Graph
    <3>2. Append(children[p], child) \in Seq(Results)
      BY <3>1
    <3> QED
      BY <1>2, <2>1, <3>2 DEF AddChild, Tree, Graph
  <2>2. ASSUME NEW r \in Results, Propagate(r)
        PROVE  Tree'
    <3>1. /\ MaxIssue(children, issue, r) \in Issues
          /\ MaxPriority(children, priority, r) \in 0 .. 7
      BY <1>2, Maxima
    <3> QED
      BY <1>2, <2>2, <3>1 DEF Propagate, Tree
  <2>3. CASE UNCHANGED vars
    BY <1>2, <2>3 DEF vars, Tree
  <2> QED
    BY <1>2, <2>1, <2>2, <2>3 DEF Next
<1> QED
  BY <1>1, <1>2, PTL DEF Spec

\* max_issue and max_priority always tell the most serious state among all
\* results below, whatever the graph of results and however many there are: the
\* recursion of flat_children misses none and adds none.
THEOREM MaximaAlwaysWorst == Spec => []MaximaAreWorst
<1>1. Tree => MaximaAreWorst
  BY Maxima DEF MaximaAreWorst
<1> QED
  BY <1>1, AlwaysTree, PTL
=============================================================================
