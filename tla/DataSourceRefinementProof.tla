---------------------- MODULE DataSourceRefinementProof ----------------------
(***************************************************************************)
(* A source that overwrites all it holds is the cache of CachedData.tla,   *)
(* for any number of threads, objects, parts and calls.                    *)
(***************************************************************************)
EXTENDS DataSourceRefinement, DataSourceSafety, FiniteSetTheorems

-----------------------------------------------------------------------------
(* What a collection has written so far is what the object holds.            *)

Overwrites ==
  AllGuarded /\ \A o \in Objects : Kind[o].store = "assign" /\ ~Kind[o].skips

Stored(t) ==
  pc[t] \in {"collect", "leave"} =>
    /\ part[t] >= 1
    /\ \A p \in Parts : p < part[t] => data[obj[t]][p] = <<gen[t]>>

StoredInv == \A t \in Threads : Stored(t)

\* What Store does to the data of a source that overwrites.
LEMMA StoreAssigns ==
  ASSUME Overwrites, TypeOK, NEW t \in Threads, Store(t)
  PROVE  /\ part[t] \in Parts /\ part'[t] = part[t] + 1 /\ obj[t] \in Objects
         /\ data' = [data EXCEPT ![obj[t]][part[t]] = <<gen[t]>>]
<1>1. obj[t] \in Objects /\ kind(t).store = "assign" /\ ~kind(t).skips
  BY DEF Overwrites, TypeOK, kind
<1>2. part[t] \in Parts /\ part'[t] = part[t] + 1
  BY DEF Store, TypeOK
<1>3. data' = [data EXCEPT ![obj[t]][part[t]] = <<gen[t]>>]
  BY <1>1 DEF Store
<1> QED
  BY <1>1, <1>2, <1>3

LEMMA StoredStep ==
  ASSUME Overwrites, TypeOK, RwInv, StoredInv,
         NEW u \in Threads, Step(u) \/ Relock(u)
  PROVE  StoredInv'
<1> SUFFICES ASSUME NEW t \in Threads PROVE Stored(t)'
  BY DEF StoredInv
<1>1. Stored(t)
  BY DEF StoredInv
<1>2. CASE t # u
  <2>1. CASE pc[t] \in {"collect", "leave"}
    BY <1>1, <1>2, <2>1, OthersLeaveDataAlone, OthersLeaveCallAlone
       DEF Stored, Evaluating, Overwrites
  <2>2. CASE pc[t] \notin {"collect", "leave"}
    BY <1>2, <2>2, OthersLeaveCallAlone DEF Stored
  <2> QED
    BY <2>1, <2>2
<1>3. CASE t = u
  <2>1. CASE Store(t)
    <3>1. /\ part[t] \in Parts /\ part'[t] = part[t] + 1 /\ obj[t] \in Objects
          /\ data' = [data EXCEPT ![obj[t]][part[t]] = <<gen[t]>>]
      BY <2>1, StoreAssigns
    <3>2. obj' = obj /\ gen' = gen /\ pc[t] = "collect"
      BY <2>1 DEF Store
    <3>3. data'[obj[t]] = [data[obj[t]] EXCEPT ![part[t]] = <<gen[t]>>]
          /\ data[obj[t]] \in [Parts -> Seq(Nat)]
      BY <3>1 DEF TypeOK
    <3>4. ASSUME NEW p \in Parts, p < part[t] + 1
          PROVE  data'[obj[t]][p] = <<gen[t]>>
      <4>1. CASE p = part[t]
        BY <3>3, <4>1
      <4>2. CASE p # part[t]
        <5>1. p < part[t]
          BY <3>1, <3>4, <4>2 DEF Parts
        <5> QED
          BY <1>1, <3>2, <3>3, <4>2, <5>1 DEF Stored
      <4> QED
        BY <4>1, <4>2
    <3>5. part'[t] >= 1
      BY <3>1 DEF Parts
    <3> QED
      BY <3>1, <3>2, <3>4, <3>5 DEF Stored
  <2>2. CASE NeedsCollecting(t) \/ LockMutex(t)
    <3>1. CASE StartCollecting(t)
      <4>1. part'[t] = 1
        BY <3>1 DEF StartCollecting, TypeOK
      <4> QED
        BY <4>1 DEF Stored, Parts
    <3>2. CASE ~StartCollecting(t)
      <4>1. pc'[t] \in {"check", "lock"}
        BY <2>2, <3>2 DEF NeedsCollecting, LockMutex, Goto, TypeOK
      <4> QED
        BY <4>1 DEF Stored
    <3> QED
      BY <3>1, <3>2
  <2>3. CASE Finish(t) \/ FailQuietly(t)
    <3>1. pc[t] = "collect" /\ UNCHANGED <<part, data, obj, gen>>
      BY <2>3 DEF Finish, FailQuietly, state
    <3> QED
      BY <1>1, <3>1 DEF Stored
  <2>4. CASE ~(Store(t) \/ NeedsCollecting(t) \/ LockMutex(t) \/ Finish(t)
               \/ FailQuietly(t))
    <3>1. pc'[t] \notin {"collect", "leave"}
      BY <1>3, <2>4
         DEF TypeOK, Step, LockWriter, Refuse, UseCache, NotBuilt, Relock,
             Throw, Leave, LockReader, Copy, EndCopy, End, Goto
    <3> QED
      BY <3>1 DEF Stored
  <2> QED
    BY <2>1, <2>2, <2>3, <2>4
<1> QED
  BY <1>2, <1>3

LEMMA StoredInvariant ==
  ASSUME Overwrites
  PROVE  Spec => []StoredInv
<1>1. Init => StoredInv
  BY DEF Init, StoredInv, Stored
<1>2. TypeOK /\ RwInv /\ StoredInv /\ [Next]_vars => StoredInv'
  <2> SUFFICES ASSUME TypeOK, RwInv, StoredInv, [Next]_vars PROVE StoredInv'
    OBVIOUS
  <2>1. CASE UNCHANGED vars
    BY <2>1 DEF vars, state, call, StoredInv, Stored
  <2>2. ASSUME NEW u \in Threads, NEW o \in Objects, NEW f \in BOOLEAN,
               NEW label \in {"writer", "reader"}, Begin(u, o, f, label)
        PROVE  StoredInv'
    <3> SUFFICES ASSUME NEW t \in Threads PROVE Stored(t)'
      BY DEF StoredInv
    <3>1. Stored(t) /\ label \in Labels /\ UNCHANGED data
      BY <2>2 DEF StoredInv, Labels, Begin, state
    <3>2. CASE t = u
      BY <2>2, <3>1, <3>2, BeginFrame DEF Stored
    <3>3. CASE t # u
      BY <2>2, <3>1, <3>3, BeginFrame DEF Stored
    <3> QED
      BY <3>2, <3>3
  <2> QED
    BY <2>1, <2>2, StoredStep DEF Next, Done, Evaluate, ToJson
<1> QED
  BY <1>1, <1>2, RwInvariant, TypeCorrect, PTL DEF Spec

\* Where a collection overwrites every part and the rw_mutex is held around
\* it, a forced evaluation that ran to its end leaves nothing of the old data.
THEOREM ForcedAlwaysReplacesCache ==
  ASSUME Overwrites
  PROVE  Spec => []ForcedReplacesCache
<1>1. TypeOK /\ StoredInv => ForcedReplacesCache
  <2> SUFFICES ASSUME TypeOK, StoredInv, NEW t \in Threads, pc[t] = "leave",
                      part[t] \notin Parts, NEW p \in Parts
               PROVE  data[obj[t]][p] = <<gen[t]>>
    BY DEF ForcedReplacesCache
  <2>1. Stored(t) /\ part[t] \in 0 .. NumParts + 1
    BY DEF StoredInv, TypeOK
  <2>2. p < part[t]
    BY <2>1, BoundAssumption DEF Stored, Parts
  <2> QED
    BY <2>1, <2>2 DEF Stored
<1> QED
  BY <1>1, StoredInvariant, TypeCorrect, PTL

-----------------------------------------------------------------------------
(* The sources the refinement is about: they overwrite, are marked collected *)
(* with their last part, and either collect all of it or nothing.            *)

Struct(k) ==
  /\ k.guarded /\ k.configured /\ k.store = "assign" /\ ~k.skips
  /\ k.marks = "last" /\ k.fails \subseteq {"quiet", "throws"}

Structs == GivesBack /\ \A o \in Objects : Struct(Kind[o])

LEMMA StructsOverwrite == Structs => Overwrites
  BY DEF Structs, Struct, Overwrites, AllGuarded

\* An answer stands until the thread's next call.
AnswerOpen(t) ==
  /\ pc[t] # "idle" => outcome[t] = "none" /\ calls[t] >= 1
  /\ pc[t] = "copy" => part[t] >= 1

\* Until its last part is written, a collection is still called for, and newer
\* than what it will replace.
SampleDue(t) ==
  pc[t] = "collect" =>
    /\ kind(t).absent = "within" => part[t] = 1
    /\ part[t] <= NumParts =>
         /\ force[t] \/ ~collected[obj[t]]
         /\ \A i \in DOMAIN data[obj[t]][NumParts] :
              gen[t] > data[obj[t]][NumParts][i]

GenTaken(t) == pc[t] \in {"collect", "leave"} => gen[t] \in 1 .. collections

\* evaluate leaves with the data marked as collected, or because it may fail.
LeavesWith(t) ==
  pc[t] = "leave" =>
    IF part[t] > NumParts THEN collected[obj[t]] ELSE kind(t).fails # {}

CallInv ==
  \A t \in Threads :
    AnswerOpen(t) /\ SampleDue(t) /\ GenTaken(t) /\ LeavesWith(t)

\* Nothing is newer than the last collection, and only an object that is being
\* written is torn.
Uniform(o) == \A p \in Parts : data[o][p] = data[o][NumParts]

BeingWritten(o) ==
  \E t \in Threads : obj[t] = o /\ pc[t] = "collect" /\ part[t] \in 2 .. NumParts

DataInv ==
  \A o \in Objects :
    /\ \A i \in DOMAIN data[o][NumParts] : data[o][NumParts][i] <= collections
    /\ Uniform(o) \/ BeingWritten(o)

\* A call collects at most once: there are as many collections as calls that
\* may have made one, at most.
Pending(t) == pc[t] \in {"writer", "check", "lock"}

Spent ==
  {x \in Threads \X (1 .. MaxCalls) :
     \/ x[2] < calls[x[1]]
     \/ x[2] = calls[x[1]] /\ ~Pending(x[1])}

CountInv == collections <= Cardinality(Spent)

LEMMA StructOf ==
  ASSUME Structs, TypeOK, NEW t \in Threads
  PROVE  Struct(kind(t)) /\ obj[t] \in Objects
  BY DEF Structs, TypeOK, kind

LEMMA LastPart ==
  ASSUME TypeOK, NEW o \in Objects
  PROVE  /\ NumParts \in Parts /\ data[o] \in [Parts -> Seq(Nat)]
         /\ data[o][NumParts] \in Seq(Nat)
<1>1. NumParts \in Parts
  BY BoundAssumption DEF Parts
<1>2. data[o] \in [Parts -> Seq(Nat)]
  BY DEF TypeOK
<1> QED
  BY <1>1, <1>2

LEMMA Starts ==
  ASSUME TypeOK, NEW t \in Threads, StartCollecting(t)
  PROVE  /\ pc'[t] = "collect" /\ part'[t] = 1
         /\ gen'[t] = collections + 1 /\ collections' = collections + 1
         /\ UNCHANGED <<obj, force, copy, outcome, calls, collected, data>>
  BY DEF StartCollecting, Goto, TypeOK

\* The number of collections only grows.
LEMMA CollectionsGrow ==
  ASSUME TypeOK, NEW u \in Threads, Step(u) \/ Relock(u)
  PROVE  collections' = collections \/ (collections' = collections + 1
                                        /\ StartCollecting(u))
  BY DEF Step, LockWriter, Refuse, UseCache, NeedsCollecting, NotBuilt,
         LockMutex, Relock, Store, Finish, FailQuietly, Throw, Leave,
         LockReader, Copy, EndCopy, StartCollecting, state

\* Storing a part of a struct does not mark the object collected.
LEMMA StoreUnmarked ==
  ASSUME Structs, TypeOK, NEW t \in Threads, Store(t), NEW o \in Objects
  PROVE  collected'[o] = collected[o]
<1>1. obj[t] \in Objects /\ kind(t).marks # "around" /\ kind(t).marks # "first"
  BY StructOf DEF Struct
<1>2. PICK r : collected' = [collected EXCEPT ![obj[t]] =
        \/ @
        \/ kind(t).marks = "around"
        \/ (kind(t).marks = "first" /\ part[t] = 1 /\ r)]
  BY Zenon DEF Store
<1>3. CASE o # obj[t]
  BY <1>1, <1>2, <1>3 DEF TypeOK
<1>4. CASE o = obj[t]
  <2>1. collected'[o] =
          (\/ collected[o]
           \/ kind(t).marks = "around"
           \/ (kind(t).marks = "first" /\ part[t] = 1 /\ r))
    BY <1>1, <1>2, <1>4 DEF TypeOK
  <2>2. collected[o] \in BOOLEAN
    BY DEF TypeOK
  <2> QED
    BY <1>1, <2>1, <2>2, Zenon
<1> QED
  BY <1>3, <1>4

\* The collection of a struct starts with the answer of the check in hand.
LEMMA StartsDue ==
  ASSUME TypeOK, CheckInv, DataInv, NEW t \in Threads, Step(t) \/ Relock(t),
         StartCollecting(t)
  PROVE  SampleDue(t)' /\ GenTaken(t)'
<1>1. /\ part'[t] = 1 /\ gen'[t] = collections + 1
      /\ collections' = collections + 1
      /\ UNCHANGED <<obj, force, collected, data>> /\ obj[t] \in Objects
      /\ pc'[t] = "collect"
  BY Starts DEF TypeOK
<1>2. collections \in Nat
  BY DEF TypeOK
<1>3. force[t] \/ ~collected[obj[t]]
  <2>1. collections' # collections
    BY <1>1, <1>2
  <2>2. CASE NeedsCollecting(t)
    BY <2>2 DEF NeedsCollecting
  <2>3. CASE LockMutex(t)
    <3>1. pc[t] = "lock" /\ ~kind(t).eager
      BY <2>1, <2>3 DEF LockMutex, state
    <3> QED
      BY <3>1 DEF CheckInv, CheckStillHolds
  <2>4. CASE ~NeedsCollecting(t) /\ ~LockMutex(t)
    BY <2>1, <2>4
       DEF Step, LockWriter, Refuse, UseCache, NotBuilt, Relock, Store, Finish,
           FailQuietly, Throw, Leave, LockReader, Copy, EndCopy, state
  <2> QED
    BY <2>2, <2>3, <2>4
<1>4. ASSUME NEW i \in DOMAIN data[obj[t]][NumParts]
      PROVE  collections + 1 > data[obj[t]][NumParts][i]
  <2>1. data[obj[t]][NumParts][i] <= collections
    BY <1>1 DEF DataInv
  <2>2. data[obj[t]][NumParts] \in Seq(Nat)
    BY <1>1, LastPart
  <2>3. data[obj[t]][NumParts][i] \in Nat
    BY <2>2
  <2> QED
    BY <1>2, <2>1, <2>3
<1> QED
  BY <1>1, <1>2, <1>3, <1>4 DEF SampleDue, GenTaken

\* Another thread's step takes nothing from what is known of t's call.
LEMMA CallStepOthers ==
  ASSUME Structs, TypeOK, RwInv, CallInv, NEW t \in Threads, NEW u \in Threads,
         t # u, Step(u) \/ Relock(u)
  PROVE  (AnswerOpen(t) /\ SampleDue(t) /\ GenTaken(t) /\ LeavesWith(t))'
<1>1. AnswerOpen(t) /\ SampleDue(t) /\ GenTaken(t) /\ LeavesWith(t)
  BY DEF CallInv
<1>2. /\ pc'[t] = pc[t] /\ obj'[t] = obj[t] /\ part'[t] = part[t]
      /\ force'[t] = force[t] /\ gen'[t] = gen[t] /\ outcome'[t] = outcome[t]
      /\ calls'[t] = calls[t]
  BY OthersLeaveCallAlone
<1>3. collections' \in Nat /\ collections' >= collections /\ collections \in Nat
  <2>1. collections \in Nat
    BY DEF TypeOK
  <2>2. collections' = collections \/ collections' = collections + 1
    BY CollectionsGrow
  <2> QED
    BY <2>1, <2>2
<1>4. CASE ~Evaluating(t)
  BY <1>1, <1>2, <1>4
     DEF AnswerOpen, SampleDue, GenTaken, LeavesWith, Evaluating
<1>5. CASE Evaluating(t)
  <2>1. data'[obj[t]] = data[obj[t]] /\ collected'[obj[t]] = collected[obj[t]]
    BY <1>5, OthersLeaveDataAlone, StructsOverwrite DEF Overwrites
  <2>2. AnswerOpen(t)' /\ LeavesWith(t)'
    BY <1>1, <1>2, <2>1 DEF AnswerOpen, LeavesWith, kind
  <2>3. SampleDue(t)'
    BY <1>1, <1>2, <2>1 DEF SampleDue, kind
  <2>4. GenTaken(t)'
    BY <1>1, <1>2, <1>3 DEF GenTaken
  <2> QED
    BY <2>2, <2>3, <2>4
<1> QED
  BY <1>4, <1>5

LEMMA AnswerStep ==
  ASSUME TypeOK, NEW t \in Threads, AnswerOpen(t), Step(t) \/ Relock(t)
  PROVE  AnswerOpen(t)'
<1>1. CASE pc'[t] = "idle"
  BY <1>1 DEF AnswerOpen
<1>3. CASE LockReader(t)
  BY <1>3 DEF LockReader, AnswerOpen, Goto, TypeOK
<1>4. CASE Copy(t)
  <2>1. part'[t] >= 1
    BY <1>4 DEF Copy, TypeOK, Parts
  <2> QED
    BY <1>4, <2>1 DEF Copy, AnswerOpen
<1>2. CASE pc'[t] # "idle" /\ ~LockReader(t) /\ ~Copy(t)
  <2>1. pc[t] # "idle" /\ pc'[t] # "copy" /\ UNCHANGED <<outcome, calls>>
    BY <1>2 DEF TypeOK, Step, LockWriter, Refuse, UseCache, NeedsCollecting,
                NotBuilt, LockMutex, Relock, Store, Finish, FailQuietly, Throw,
                Leave, EndCopy, StartCollecting, End, Goto
  <2> QED
    BY <2>1 DEF AnswerOpen
<1> QED
  BY <1>1, <1>2, <1>3, <1>4

LEMMA CallStep ==
  ASSUME Structs, TypeOK, RwInv, CheckInv, StoredInv, DataInv, CallInv,
         NEW u \in Threads, Step(u) \/ Relock(u)
  PROVE  CallInv'
<1> SUFFICES ASSUME NEW t \in Threads
             PROVE  (AnswerOpen(t) /\ SampleDue(t) /\ GenTaken(t) /\ LeavesWith(t))'
  BY DEF CallInv
<1>1. AnswerOpen(t) /\ SampleDue(t) /\ GenTaken(t) /\ LeavesWith(t)
  BY DEF CallInv
<1>2. CASE t # u
  BY <1>2, CallStepOthers
<1>3. CASE t = u
  <2>0. AnswerOpen(t)'
    BY <1>1, <1>3, AnswerStep
  <2> SUFFICES (SampleDue(t) /\ GenTaken(t) /\ LeavesWith(t))'
    BY <2>0
  <2>1. CASE Store(t)
    <3>1. /\ part[t] \in Parts /\ part'[t] = part[t] + 1 /\ obj[t] \in Objects
          /\ data' = [data EXCEPT ![obj[t]][part[t]] = <<gen[t]>>]
      BY <2>1, StoreAssigns, StructsOverwrite
    <3>2. /\ obj' = obj /\ gen' = gen /\ pc' = pc /\ pc[t] = "collect"
          /\ force' = force /\ collections' = collections
          /\ kind(t).absent # "within"
      BY <2>1 DEF Store
    <3>4. collected'[obj[t]] = collected[obj[t]]
      BY <2>1, <3>1, StoreUnmarked
    <3>5. SampleDue(t)'
      <4>1. CASE part[t] = NumParts
        <5>1. ~(part'[t] <= NumParts)
          BY <3>1, <4>1, BoundAssumption
        <5> QED
          BY <3>2, <5>1 DEF SampleDue, kind
      <4>2. CASE part[t] # NumParts
        <5>1. part[t] <= NumParts
          BY <3>1, BoundAssumption DEF Parts
        <5>2. data[obj[t]] \in [Parts -> Seq(Nat)] /\ NumParts \in Parts
          BY <3>1, BoundAssumption DEF TypeOK, Parts
        <5>3. data'[obj[t]] = [data[obj[t]] EXCEPT ![part[t]] = <<gen[t]>>]
          BY <3>1 DEF TypeOK
        <5>4. data'[obj[t]][NumParts] = data[obj[t]][NumParts]
          BY <4>2, <5>2, <5>3
        <5> QED
          BY <1>1, <3>2, <3>4, <5>1, <5>4 DEF SampleDue, kind
      <4> QED
        BY <4>1, <4>2
    <3> QED
      BY <1>1, <3>2, <3>5 DEF GenTaken, LeavesWith
  <2>2. CASE StartCollecting(t)
    <3>1. pc'[t] = "collect"
      BY <2>2, Starts
    <3> QED
      BY <1>3, <2>2, <3>1, StartsDue DEF LeavesWith
  <2>3. CASE Finish(t)
    <3>1. /\ pc'[t] = "leave" /\ pc[t] = "collect" /\ collected'[obj[t]] = TRUE
          /\ UNCHANGED <<part, gen, obj, collections>>
      <4>1. kind(t).marks = "last" /\ obj[t] \in Objects
        BY StructOf DEF Struct
      <4>2. collected' = [collected EXCEPT ![obj[t]] = @ \/ kind(t).marks # "first"]
        BY <2>3 DEF Finish
      <4>3. collected'[obj[t]] = TRUE
        BY <4>1, <4>2 DEF TypeOK
      <4> QED
        BY <2>3, <4>3 DEF Finish, Goto, TypeOK
    <3>2. part[t] > NumParts
      <4>1. part[t] \notin Parts
        BY <2>3, StructOf DEF Finish, Struct
      <4>2. part[t] >= 1 /\ part[t] \in 0 .. NumParts + 1
        BY <3>1 DEF StoredInv, Stored, TypeOK
      <4> QED
        BY <4>1, <4>2, BoundAssumption DEF Parts
    <3> QED
      BY <1>1, <3>1, <3>2 DEF SampleDue, GenTaken, LeavesWith
  <2>4. CASE FailQuietly(t)
    <3>1. /\ pc'[t] = "leave" /\ pc[t] = "collect" /\ part[t] = 1
          /\ kind(t).fails # {}
          /\ UNCHANGED <<part, gen, obj, collections>>
      BY <2>4 DEF FailQuietly, Goto, TypeOK, state
    <3>2. ~(part[t] > NumParts)
      BY <3>1, BoundAssumption
    <3> QED
      BY <1>1, <3>1, <3>2 DEF SampleDue, GenTaken, LeavesWith, kind
  <2>5. CASE ~(Store(t) \/ StartCollecting(t) \/ Finish(t) \/ FailQuietly(t))
    <3>1. pc'[t] \notin {"collect", "leave"}
      BY <1>3, <2>5
         DEF TypeOK, Step, LockWriter, Refuse, UseCache, NotBuilt, Relock,
             NeedsCollecting, LockMutex, Throw, Leave, LockReader, Copy,
             EndCopy, End, Goto
    <3> QED
      BY <3>1 DEF SampleDue, GenTaken, LeavesWith
  <2> QED
    BY <2>1, <2>2, <2>3, <2>4, <2>5
<1> QED
  BY <1>2, <1>3

LEMMA NothingNewer ==
  ASSUME Structs, TypeOK, DataInv, CallInv, NEW u \in Threads,
         Step(u) \/ Relock(u), NEW o \in Objects,
         NEW i \in DOMAIN data'[o][NumParts]
  PROVE  data'[o][NumParts][i] <= collections'
<1>1. /\ collections \in Nat
      /\ collections' = collections \/ collections' = collections + 1
  BY CollectionsGrow DEF TypeOK
<1>2. data[o][NumParts] \in Seq(Nat)
  BY LastPart
<1>3. CASE data'[o][NumParts] = data[o][NumParts]
  <2>1. i \in DOMAIN data[o][NumParts]
    BY <1>3
  <2>2. data[o][NumParts][i] <= collections /\ data[o][NumParts][i] \in Nat
    BY <1>2, <2>1 DEF DataInv
  <2> QED
    BY <1>1, <1>3, <2>2
<1>4. CASE data'[o][NumParts] # data[o][NumParts]
  <2>1. Store(u)
    BY <1>4 DEF Step, LockWriter, Refuse, UseCache, NeedsCollecting, NotBuilt,
                LockMutex, Relock, Finish, FailQuietly, Throw, Leave, LockReader,
                Copy, EndCopy, StartCollecting, state
  <2>2. /\ part[u] \in Parts /\ obj[u] \in Objects
        /\ data' = [data EXCEPT ![obj[u]][part[u]] = <<gen[u]>>]
    BY <2>1, StoreAssigns, StructsOverwrite
  <2>3. data'[o][NumParts] = <<gen[u]>>
    BY <1>4, <2>2 DEF TypeOK
  <2>4. gen[u] \in 1 .. collections /\ collections' = collections
    BY <2>1 DEF Store, CallInv, GenTaken
  <2>5. i = 1
    BY <2>3
  <2> QED
    BY <2>3, <2>4, <2>5
<1> QED
  BY <1>3, <1>4

\* A thread in the middle of its collection goes on writing.
LEMMA WritesOn ==
  ASSUME Structs, TypeOK, CallInv, NEW u \in Threads, Step(u) \/ Relock(u),
         pc[u] = "collect", part[u] \in 2 .. NumParts
  PROVE  Store(u)
<1>1. Struct(kind(u)) /\ part[u] # 1 /\ part[u] \in Parts
  BY StructOf, BoundAssumption DEF Parts
<1>2. ~Finish(u) /\ ~FailQuietly(u)
  BY <1>1 DEF Finish, FailQuietly, Struct
<1>3. ~Throw(u)
  <2>1. kind(u).absent # "within"
    BY <1>1, BoundAssumption DEF CallInv, SampleDue
  <2>2. "breaks" \notin kind(u).fails
    BY <1>1 DEF Struct
  <2> QED
    BY <1>1, <2>1, <2>2 DEF Throw
<1> QED
  BY <1>2, <1>3
     DEF Step, LockWriter, Refuse, UseCache, NeedsCollecting, NotBuilt,
         LockMutex, Relock, Leave, LockReader, Copy, EndCopy

LEMMA StoreTears ==
  ASSUME Structs, TypeOK, StoredInv, NEW u \in Threads, Store(u)
  PROVE  (Uniform(obj[u]) \/ BeingWritten(obj[u]))'
<1>1. /\ part[u] \in Parts /\ part'[u] = part[u] + 1 /\ obj[u] \in Objects
      /\ data' = [data EXCEPT ![obj[u]][part[u]] = <<gen[u]>>]
  BY StoreAssigns, StructsOverwrite
<1>2. obj' = obj /\ pc' = pc /\ pc[u] = "collect"
  BY DEF Store
<1>3. CASE part[u] = NumParts
  <2>1. /\ data'[obj[u]] = [data[obj[u]] EXCEPT ![NumParts] = <<gen[u]>>]
        /\ data[obj[u]] \in [Parts -> Seq(Nat)] /\ NumParts \in Parts
    BY <1>1, <1>3 DEF TypeOK
  <2>2. ASSUME NEW p \in Parts PROVE data'[obj[u]][p] = data'[obj[u]][NumParts]
    <3>1. CASE p = NumParts
      BY <3>1
    <3>2. CASE p # NumParts
      <4>1. p < part[u]
        BY <1>3, <3>2, BoundAssumption DEF Parts
      <4>2. data[obj[u]][p] = <<gen[u]>>
        BY <1>2, <4>1 DEF StoredInv, Stored
      <4> QED
        BY <2>1, <3>2, <4>2
    <3> QED
      BY <3>1, <3>2
  <2> QED
    BY <1>2, <2>2 DEF Uniform
<1>4. CASE part[u] # NumParts
  <2>1. part'[u] \in 2 .. NumParts
    BY <1>1, <1>4, BoundAssumption DEF Parts
  <2> QED
    BY <1>2, <2>1 DEF BeingWritten
<1> QED
  BY <1>3, <1>4

LEMMA DataStep ==
  ASSUME Structs, TypeOK, StoredInv, DataInv, CallInv,
         NEW u \in Threads, Step(u) \/ Relock(u)
  PROVE  DataInv'
<1> SUFFICES ASSUME NEW o \in Objects
             PROVE  (Uniform(o) \/ BeingWritten(o))'
  BY NothingNewer DEF DataInv
<1>1. CASE Store(u) /\ obj[u] = o
  <2>1. obj' = obj
    BY <1>1 DEF Store
  <2> QED
    BY <1>1, <2>1, StoreTears DEF Uniform, BeingWritten
<1>2. CASE ~(Store(u) /\ obj[u] = o)
  <2>1. data'[o] = data[o]
    <3>1. CASE Store(u)
      BY <1>2, <3>1, StoreAssigns, StructsOverwrite DEF TypeOK
    <3>2. CASE ~Store(u)
      BY <3>2 DEF Step, LockWriter, Refuse, UseCache, NeedsCollecting, NotBuilt,
                  LockMutex, Relock, Finish, FailQuietly, Throw, Leave,
                  LockReader, Copy, EndCopy, StartCollecting, state
    <3> QED
      BY <3>1, <3>2
  <2>2. CASE Uniform(o)
    BY <2>1, <2>2 DEF Uniform
  <2>3. CASE BeingWritten(o)
    <3>1. PICK t \in Threads :
            obj[t] = o /\ pc[t] = "collect" /\ part[t] \in 2 .. NumParts
      BY <2>3 DEF BeingWritten
    <3>2. t # u
      BY <1>2, <3>1, WritesOn
    <3> QED
      BY <3>1, <3>2, OthersLeaveCallAlone DEF BeingWritten
  <2> QED
    BY <2>2, <2>3 DEF DataInv
<1> QED
  BY <1>1, <1>2

LEMMA CallDataBegin ==
  ASSUME TypeOK, CallInv, DataInv, NEW u \in Threads, NEW o \in Objects,
         NEW f \in BOOLEAN, NEW label \in {"writer", "reader"},
         Begin(u, o, f, label)
  PROVE  CallInv' /\ DataInv'
<1>0. label \in Labels /\ UNCHANGED <<data, collected, collections>>
  BY DEF Labels, Begin, state
<1>1. ASSUME NEW t \in Threads
      PROVE  (AnswerOpen(t) /\ SampleDue(t) /\ GenTaken(t) /\ LeavesWith(t))'
  <2>1. CASE t = u
    <3>1. pc'[t] = label /\ outcome'[t] = "none" /\ calls'[t] = calls[t] + 1
          /\ calls[t] \in Nat
      BY <2>1, BoundAssumption DEF Begin, Goto, TypeOK
    <3> QED
      BY <3>1 DEF AnswerOpen, SampleDue, GenTaken, LeavesWith
  <2>2. CASE t # u
    <3>1. /\ pc'[t] = pc[t] /\ obj'[t] = obj[t] /\ part'[t] = part[t]
          /\ force'[t] = force[t] /\ gen'[t] = gen[t]
          /\ outcome'[t] = outcome[t] /\ calls'[t] = calls[t]
      BY <1>0, <2>2, BeginFrame
    <3>2. AnswerOpen(t)' /\ LeavesWith(t)'
      BY <1>0, <3>1 DEF CallInv, AnswerOpen, LeavesWith, kind
    <3>3. SampleDue(t)'
      BY <1>0, <3>1 DEF CallInv, SampleDue, kind
    <3>4. GenTaken(t)'
      BY <1>0, <3>1 DEF CallInv, GenTaken
    <3> QED
      BY <3>2, <3>3, <3>4
  <2> QED
    BY <2>1, <2>2
<1>2. ASSUME NEW q \in Objects PROVE (Uniform(q) \/ BeingWritten(q))'
  <2>1. CASE Uniform(q)
    BY <1>0, <2>1 DEF Uniform
  <2>2. CASE BeingWritten(q)
    <3>1. PICK t \in Threads :
            obj[t] = q /\ pc[t] = "collect" /\ part[t] \in 2 .. NumParts
      BY <2>2 DEF BeingWritten
    <3>2. t # u
      BY <3>1 DEF Begin
    <3> QED
      BY <1>0, <3>1, <3>2, BeginFrame DEF BeingWritten
  <2> QED
    BY <2>1, <2>2 DEF DataInv
<1> QED
  BY <1>0, <1>1, <1>2 DEF CallInv, DataInv

LEMMA CallDataInvariant ==
  ASSUME Structs
  PROVE  Spec => [](CallInv /\ DataInv)
<1>1. Init => CallInv /\ DataInv
  <2> SUFFICES ASSUME Init PROVE CallInv /\ DataInv
    OBVIOUS
  <2>1. CallInv
    BY DEF Init, CallInv, AnswerOpen, SampleDue, GenTaken, LeavesWith
  <2>2. ASSUME NEW o \in Objects
        PROVE  /\ Uniform(o)
               /\ \A i \in DOMAIN data[o][NumParts] :
                    data[o][NumParts][i] <= collections
    <3>1. data[o] = NoData \/ data[o] = FromJson
      BY DEF Init
    <3>2. NumParts \in Parts /\ collections = 0
      BY BoundAssumption DEF Parts, Init
    <3>3. data[o][NumParts] = <<>> \/ data[o][NumParts] = <<0>>
      BY <3>1, <3>2 DEF NoData, FromJson
    <3> QED
      BY <3>1, <3>2, <3>3 DEF Uniform, NoData, FromJson
  <2> QED
    BY <2>1, <2>2 DEF DataInv
<1>2. AllGuarded /\ Overwrites
  BY StructsOverwrite DEF Overwrites
<1>3. TypeOK /\ RwInv /\ CheckInv /\ StoredInv /\ (CallInv /\ DataInv)
      /\ [Next]_vars => (CallInv /\ DataInv)'
  <2> SUFFICES ASSUME TypeOK, RwInv, CheckInv, StoredInv, CallInv, DataInv,
                      [Next]_vars
               PROVE  CallInv' /\ DataInv'
    OBVIOUS
  <2>1. CASE UNCHANGED vars
    BY <2>1 DEF vars, state, call, CallInv, AnswerOpen, SampleDue, GenTaken,
                LeavesWith, DataInv, Uniform, BeingWritten, kind
  <2> QED
    BY <2>1, CallDataBegin, CallStep, DataStep DEF Next, Done, Evaluate, ToJson
<1> QED
  BY <1>1, <1>2, <1>3, RwInvariant, CheckInvariant, StoredInvariant,
     TypeCorrect, PTL DEF Spec

LEMMA SpentFinite ==
  ASSUME IsFiniteSet(Threads)
  PROVE  /\ IsFiniteSet(Threads \X (1 .. MaxCalls))
         /\ Cardinality(Threads \X (1 .. MaxCalls)) =
              MaxCalls * Cardinality(Threads)
<1>1. IsFiniteSet(1 .. MaxCalls) /\ Cardinality(1 .. MaxCalls) = MaxCalls
  BY FS_Interval, BoundAssumption
<1>2. Cardinality(Threads) \in Nat
  BY FS_CardinalityType
<1>3. /\ IsFiniteSet(Threads \X (1 .. MaxCalls))
      /\ Cardinality(Threads \X (1 .. MaxCalls)) =
           Cardinality(Threads) * Cardinality(1 .. MaxCalls)
  BY <1>1, FS_Product
<1> QED
  BY <1>1, <1>2, <1>3, BoundAssumption

\* No call that is spent becomes unspent, and a call that starts a collection
\* was not.
LEMMA SpentGrows ==
  ASSUME TypeOK, CallInv, NEW u \in Threads, Step(u) \/ Relock(u)
  PROVE  /\ Spent \subseteq Spent'
         /\ StartCollecting(u) =>
              /\ Spent \union {<<u, calls[u]>>} \subseteq Spent'
              /\ <<u, calls[u]>> \notin Spent
<1>1. calls' = calls
  BY DEF Step, LockWriter, Refuse, UseCache, NeedsCollecting, NotBuilt,
         LockMutex, Relock, Store, Finish, FailQuietly, Throw, Leave,
         LockReader, Copy, EndCopy, StartCollecting, End
<1>2. ASSUME NEW t \in Threads, ~Pending(t)
      PROVE  ~Pending(t)'
  <2>1. CASE t = u
    BY <1>2, <2>1
       DEF Pending, TypeOK, Step, LockWriter, Refuse, UseCache, NeedsCollecting,
           NotBuilt, LockMutex, Relock, Store, Finish, FailQuietly, Throw,
           Leave, LockReader, Copy, EndCopy, StartCollecting, End, Goto
  <2>2. CASE t # u
    BY <1>2, <2>2, OthersLeaveCallAlone DEF Pending
  <2> QED
    BY <2>1, <2>2
<1>3. Spent \subseteq Spent'
  BY <1>1, <1>2 DEF Spent
<1>4. ASSUME StartCollecting(u)
      PROVE  <<u, calls[u]>> \in Spent'
  <2>1. pc'[u] = "collect" /\ collections' = collections + 1
    BY <1>4, Starts
  <2>2. pc[u] # "idle"
    BY <2>1, <1>4 DEF TypeOK, Step, LockWriter, Refuse, UseCache,
       NeedsCollecting, NotBuilt, LockMutex, Relock, Store, Finish, FailQuietly,
       Throw, Leave, LockReader, Copy, EndCopy
  <2>3. calls[u] \in 1 .. MaxCalls
    BY <2>2, BoundAssumption DEF CallInv, AnswerOpen, TypeOK
  <2> QED
    BY <1>1, <2>1, <2>3 DEF Spent, Pending
<1>5. ASSUME StartCollecting(u)
      PROVE  <<u, calls[u]>> \notin Spent
  <2>0. collections' # collections
    BY <1>5, Starts DEF TypeOK
  <2>1. Pending(u)
    BY <2>0 DEF Pending, Step, LockWriter, Refuse, UseCache, NeedsCollecting,
       NotBuilt, LockMutex, Relock, Store, Finish, FailQuietly, Throw, Leave,
       LockReader, Copy, EndCopy, state
  <2>2. calls[u] \in 0 .. MaxCalls
    BY DEF TypeOK
  <2> QED
    BY <2>1, <2>2, BoundAssumption DEF Spent
<1> QED
  BY <1>3, <1>4, <1>5

LEMMA CountStep ==
  ASSUME IsFiniteSet(Threads), TypeOK, CallInv, CountInv,
         NEW u \in Threads, Step(u) \/ Relock(u)
  PROVE  CountInv'
<1>1. IsFiniteSet(Spent) /\ IsFiniteSet(Spent')
  <2>1. Spent \in SUBSET (Threads \X (1 .. MaxCalls))
        /\ Spent' \in SUBSET (Threads \X (1 .. MaxCalls))
    BY DEF Spent
  <2> QED
    BY <2>1, SpentFinite, FS_Subset
<1>2. /\ Cardinality(Spent) \in Nat /\ Cardinality(Spent') \in Nat
      /\ Cardinality(Spent) <= Cardinality(Spent')
      /\ collections \in Nat
  BY <1>1, SpentGrows, FS_Subset, FS_CardinalityType DEF TypeOK
<1>3. CASE collections' = collections
  BY <1>2, <1>3 DEF CountInv
<1>4. CASE collections' # collections
  <2>1. StartCollecting(u) /\ collections' = collections + 1
    BY <1>4, CollectionsGrow
  <2> DEFINE Now == Spent \union {<<u, calls[u]>>}
  <2>2. Now \in SUBSET Spent' /\ <<u, calls[u]>> \notin Spent
    BY <1>4, <2>1, SpentGrows
  <2>3. Cardinality(Now) = Cardinality(Spent) + 1
    BY <1>1, <2>2, FS_AddElement
  <2>4. Cardinality(Now) <= Cardinality(Spent')
    BY <1>1, <2>2, FS_Subset
  <2> QED
    BY <1>2, <2>1, <2>3, <2>4 DEF CountInv
<1> QED
  BY <1>3, <1>4

LEMMA CountBegin ==
  ASSUME IsFiniteSet(Threads), TypeOK, CountInv,
         NEW u \in Threads, NEW o \in Objects, NEW f \in BOOLEAN,
         NEW label \in {"writer", "reader"}, Begin(u, o, f, label)
  PROVE  CountInv'
<1>1. Spent \in SUBSET Spent'
  <2>1. calls' = [calls EXCEPT ![u] = @ + 1] /\ pc' = [pc EXCEPT ![u] = label]
    BY DEF Begin, Goto
  <2>2. calls \in [Threads -> 0 .. MaxCalls] /\ pc \in [Threads -> Labels]
    BY DEF TypeOK
  <2>3. ASSUME NEW x \in Spent PROVE x \in Spent'
    <3>1. /\ x \in Threads \X (1 .. MaxCalls) /\ x[1] \in Threads
          /\ x[2] \in 1 .. MaxCalls
          /\ x[2] < calls[x[1]] \/ (x[2] = calls[x[1]] /\ ~Pending(x[1]))
      BY DEF Spent
    <3>2. CASE x[1] = u
      <4>1. x[2] < calls'[x[1]]
        BY <2>1, <2>2, <3>1, <3>2, BoundAssumption
      <4> QED
        BY <3>1, <4>1 DEF Spent
    <3>3. CASE x[1] # u
      <4>1. calls'[x[1]] = calls[x[1]] /\ pc'[x[1]] = pc[x[1]]
        BY <2>1, <2>2, <3>1, <3>3
      <4> QED
        BY <3>1, <4>1 DEF Spent, Pending
    <3> QED
      BY <3>2, <3>3
  <2> QED
    BY <2>3
<1>2. IsFiniteSet(Spent')
  <2>1. Spent' \in SUBSET (Threads \X (1 .. MaxCalls))
    BY DEF Spent
  <2> QED
    BY <2>1, SpentFinite, FS_Subset
<1>3. Cardinality(Spent) <= Cardinality(Spent') /\ IsFiniteSet(Spent)
  BY <1>1, <1>2, FS_Subset
<1>4. Cardinality(Spent) \in Nat /\ Cardinality(Spent') \in Nat
  BY <1>2, <1>3, FS_CardinalityType
<1>5. collections' = collections /\ collections \in Nat
  BY DEF Begin, state, TypeOK
<1> QED
  BY <1>3, <1>4, <1>5 DEF CountInv

LEMMA CountInvariant ==
  ASSUME Structs, IsFiniteSet(Threads)
  PROVE  Spec => []CountInv
<1>1. Init => CountInv
  <2>1. Spent \in SUBSET (Threads \X (1 .. MaxCalls))
    BY DEF Spent
  <2>2. Cardinality(Spent) \in Nat
    BY <2>1, SpentFinite, FS_Subset, FS_CardinalityType
  <2> QED
    BY <2>2 DEF Init, CountInv
<1>2. TypeOK /\ (CallInv /\ DataInv) /\ CountInv /\ [Next]_vars => CountInv'
  <2> SUFFICES ASSUME TypeOK, CallInv, CountInv, [Next]_vars PROVE CountInv'
    OBVIOUS
  <2>1. CASE UNCHANGED vars
    BY <2>1 DEF vars, state, call, CountInv, Spent, Pending
  <2> QED
    BY <2>1, CountBegin, CountStep DEF Next, Done, Evaluate, ToJson
<1> QED
  BY <1>1, <1>2, CallDataInvariant, TypeCorrect, PTL DEF Spec

-----------------------------------------------------------------------------
(* Step by step.                                                             *)

RefInv ==
  /\ TypeOK /\ RwInv /\ CheckInv /\ MutexExact
  /\ StoredInv /\ CallInv /\ DataInv /\ CountInv /\ JsonIsOneInstant

\* A step in which u's own call, and what u's object is worth, look the same
\* from outside.
LEMMA Stutters ==
  ASSUME TypeOK, NEW u \in Threads, Step(u) \/ Relock(u),
         Value' = Value, \A o \in Objects : Known'[o] = Known[o],
         Request(u)' = Request(u), obj' = obj, Sampled(u)' = Sampled(u),
         Answers'[u] = Answers[u]
  PROVE  UNCHANGED Cached!vars
<1>1. ASSUME NEW t \in Threads
      PROVE  /\ Request(t)' = Request(t) /\ Sampled(t)' = Sampled(t)
             /\ Answers'[t] = Answers[t]
  <2>1. CASE t = u
    BY <2>1
  <2>2. CASE t # u
    BY <2>2, OthersLeaveCallAlone DEF Request, Sampled, Answers
  <2> QED
    BY <2>1, <2>2
<1>2. Known' = Known
  BY DEF Known
<1>3. Answers' = Answers
  BY <1>1 DEF Answers
<1>4. /\ [t \in Threads |-> Request(t)]' = [t \in Threads |-> Request(t)]
      /\ [t \in Threads |-> Sampled(t)]' = [t \in Threads |-> Sampled(t)]
  BY <1>1
<1> QED
  BY <1>2, <1>3, <1>4 DEF Cached!vars, Cached!cache

\* evaluate ends, by returning or by an exception.
LEMMA EndReturns ==
  ASSUME TypeOK, CallInv, NEW u \in Threads, Step(u) \/ Relock(u),
         NEW how \in {"returned", "threw"}, End(u, how), UNCHANGED state,
         Evaluating(u), Sampled(u) => collected[obj[u]],
         \/ Sampled(u)
         \/ ~force[u] /\ collected[obj[u]]
         \/ kind(u).fails # {}
         \/ kind(u).absent # "no"
  PROVE  Cached!Return(u)
<1>1. /\ pc'[u] = "idle" /\ outcome'[u] = how /\ obj' = obj /\ copy' = copy
      /\ obj[u] \in Objects
  BY DEF End, Goto, TypeOK
<1>2. Request(u) = IF force[u] THEN "force" ELSE "evaluate"
  BY DEF Request, Evaluating
<1>3. ASSUME NEW t \in Threads
      PROVE  /\ Request(t)' = IF t = u THEN "none" ELSE Request(t)
             /\ Sampled(t)' = IF t = u THEN FALSE ELSE Sampled(t)
             /\ Answers'[t] = Answers[t]
  <2>1. CASE t = u
    <3>1. outcome[u] = "none"
      BY DEF CallInv, AnswerOpen, Evaluating
    <3> QED
      BY <1>1, <2>1, <3>1 DEF Request, Sampled, Answers
  <2>2. CASE t # u
    BY <2>2, OthersLeaveCallAlone DEF Request, Sampled, Answers
  <2> QED
    BY <2>1, <2>2
<1>4. Value' = Value
  BY DEF Value, state
<1>5. Known' = Known
  <2>1. collected' = collected
    BY DEF state
  <2>2. ASSUME NEW o \in Objects
        PROVE  (collected[o] \/ \E t \in Threads : obj[t] = o /\ Sampled(t)')
               <=> (collected[o] \/ \E t \in Threads : obj[t] = o /\ Sampled(t))
    BY <1>3
  <2> QED
    BY <1>1, <2>1, <2>2 DEF Known
<1>6. Answers' = Answers
  BY <1>3 DEF Answers
<1>7. /\ [t \in Threads |-> Request(t)]' =
           [[t \in Threads |-> Request(t)] EXCEPT ![u] = "none"]
      /\ [t \in Threads |-> Sampled(t)]' =
           [[t \in Threads |-> Sampled(t)] EXCEPT ![u] = FALSE]
  BY <1>3
<1>8. \/ Sampled(u)
      \/ ~force[u] /\ Known[obj[u]]
      \/ obj[u] \in {o \in Objects : Kind[o].fails # {} \/ Kind[o].absent # "no"}
  BY <1>1 DEF Known, kind
<1> QED
  BY <1>1, <1>2, <1>4, <1>5, <1>6, <1>7, <1>8
     DEF Cached!Return, Cached!Finish, Cached!cache

\* The JSON that is done is the object's one value.
LEMMA EndCopyAnswers ==
  ASSUME Structs, RefInv, NEW u \in Threads, EndCopy(u)
  PROVE  Cached!Answer(u)
<1> USE DEF RefInv
<1>1. /\ pc'[u] = "idle" /\ outcome'[u] = "json" /\ obj' = obj /\ copy' = copy
      /\ obj[u] \in Objects /\ pc[u] = "copy" /\ UNCHANGED state
  BY DEF EndCopy, End, Goto, TypeOK
<1>2. Request(u) = "json" /\ ~Sampled(u)
  BY <1>1 DEF Request, Sampled
<1>3. part[u] = NumParts + 1
  <2>1. part[u] >= 1 /\ part[u] \in 0 .. NumParts + 1 /\ part[u] \notin Parts
    BY <1>1 DEF CallInv, AnswerOpen, TypeOK, EndCopy
  <2> QED
    BY <2>1, BoundAssumption DEF Parts
<1>4. \A p \in Parts : copy[u][p] = data[obj[u]][p]
  BY <1>1, <1>3, BoundAssumption DEF JsonIsOneInstant, Reading, Parts
<1>5. Uniform(obj[u])
  <2>1. ~BeingWritten(obj[u])
    <3>1. ReaderBlocksDuringEvaluate
      BY GuardedExclusion, StructsOverwrite DEF Overwrites
    <3> QED
      BY <1>1, <3>1
         DEF BeingWritten, ReaderBlocksDuringEvaluate, Evaluating, Reading
  <2> QED
    BY <1>1, <2>1 DEF DataInv
<1>6. Whole(copy[u]) = Value[obj[u]]
  <2>1. NumParts \in Parts
    BY BoundAssumption DEF Parts
  <2> QED
    BY <1>1, <1>4, <1>5, <2>1 DEF Whole, Value, Uniform
<1>7. ASSUME NEW t \in Threads
      PROVE  /\ Request(t)' = IF t = u THEN "none" ELSE Request(t)
             /\ Sampled(t)' = IF t = u THEN FALSE ELSE Sampled(t)
             /\ Answers'[t] = IF t = u THEN Value[obj[u]] ELSE Answers[t]
  <2>1. CASE t = u
    BY <1>1, <1>6, <2>1 DEF Request, Sampled, Answers
  <2>2. CASE t # u
    BY <2>2, OthersLeaveCallAlone DEF Request, Sampled, Answers, Step
  <2> QED
    BY <2>1, <2>2
<1>8. Value' = Value /\ Known' = Known
  <2>1. ASSUME NEW t \in Threads PROVE Sampled(t)' = Sampled(t)
    BY <1>2, <1>7 DEF Sampled
  <2> QED
    BY <1>1, <2>1 DEF Value, Known, state
<1>9. Answers' = [Answers EXCEPT ![u] = Value[obj[u]]]
  BY <1>7 DEF Answers
<1>10. /\ [t \in Threads |-> Request(t)]' =
            [[t \in Threads |-> Request(t)] EXCEPT ![u] = "none"]
       /\ [t \in Threads |-> Sampled(t)]' =
            [[t \in Threads |-> Sampled(t)] EXCEPT ![u] = FALSE]
  BY <1>7
<1> QED
  BY <1>1, <1>2, <1>8, <1>9, <1>10 DEF Cached!Answer, Cached!Finish, Cached!cache

\* The last part of a collection makes it the object's value.
LEMMA LastStoreSamples ==
  ASSUME Structs, IsFiniteSet(Threads), RefInv, NEW u \in Threads, Store(u),
         part[u] = NumParts
  PROVE  Cached!Sample(u, gen[u])
         /\ gen[u] \in 1 .. MaxCalls * Cardinality(Threads)
<1> USE DEF RefInv
<1>1. /\ part'[u] = NumParts + 1 /\ obj[u] \in Objects
      /\ data' = [data EXCEPT ![obj[u]][NumParts] = <<gen[u]>>]
      /\ UNCHANGED <<obj, pc, force, gen, copy, outcome>> /\ pc[u] = "collect"
  BY StoreAssigns, StructsOverwrite DEF Store
<1>2. /\ ~Sampled(u) /\ Sampled(u)'
      /\ Request(u) = (IF force[u] THEN "force" ELSE "evaluate")
      /\ Request(u)' = Request(u)
  BY <1>1, BoundAssumption DEF Sampled, Request
<1>3. force[u] \/ ~Known[obj[u]]
  <2>1. force[u] \/ ~collected[obj[u]]
    BY <1>1, BoundAssumption DEF CallInv, SampleDue
  <2>2. ReaderBlocksDuringEvaluate
    BY GuardedExclusion, StructsOverwrite DEF Overwrites
  <2>3. \A t \in Threads : obj[t] = obj[u] /\ t # u => ~Sampled(t)
    BY <1>1, <2>2 DEF ReaderBlocksDuringEvaluate, Evaluating, Sampled
  <2> QED
    BY <1>1, <1>2, <2>1, <2>3 DEF Known
<1>4. Cached!Newer(gen[u], Value[obj[u]])
  <2>1. part[u] <= NumParts /\ SampleDue(u)
    BY BoundAssumption DEF CallInv
  <2>2. \A i \in DOMAIN data[obj[u]][NumParts] :
          gen[u] > data[obj[u]][NumParts][i]
    BY <1>1, <2>1 DEF SampleDue
  <2>3. Value[obj[u]] = data[obj[u]][NumParts]
    BY <1>1 DEF Value
  <2> QED
    BY <2>2, <2>3 DEF Cached!Newer
<1>5. Value' = [Value EXCEPT ![obj[u]] = <<gen[u]>>]
  <2>1. ASSUME NEW o \in Objects
        PROVE  data'[o][NumParts] =
                 IF o = obj[u] THEN <<gen[u]>> ELSE data[o][NumParts]
    BY <1>1, LastPart DEF TypeOK
  <2> QED
    BY <2>1 DEF Value
<1>6. ASSUME NEW t \in Threads, t # u
      PROVE  /\ Request(t)' = Request(t) /\ Sampled(t)' = Sampled(t)
             /\ Answers'[t] = Answers[t]
  BY <1>6, OthersLeaveCallAlone DEF Request, Sampled, Answers, Step
<1>7. Known' = [Known EXCEPT ![obj[u]] = TRUE]
  <2>1. ASSUME NEW o \in Objects, o # obj[u]
        PROVE  collected'[o] = collected[o]
    <3>1. PICK b : collected' = [collected EXCEPT ![obj[u]] = b]
      BY Zenon DEF Store
    <3> QED
      BY <2>1, <3>1 DEF TypeOK
  <2>2. ASSUME NEW o \in Objects, o # obj[u]
        PROVE  (\E t \in Threads : obj[t] = o /\ Sampled(t)')
               <=> (\E t \in Threads : obj[t] = o /\ Sampled(t))
    BY <1>6, <2>2
  <2>3. ASSUME NEW o \in Objects
        PROVE  Known'[o] = IF o = obj[u] THEN TRUE ELSE Known[o]
    <3>1. CASE o = obj[u]
      BY <1>1, <1>2, <3>1 DEF Known
    <3>2. CASE o # obj[u]
      BY <1>1, <2>1, <2>2, <3>2 DEF Known
    <3> QED
      BY <3>1, <3>2
  <2> QED
    BY <2>3 DEF Known
<1>8. Answers' = Answers
  BY <1>1 DEF Answers
<1>9. /\ [t \in Threads |-> Request(t)]' = [t \in Threads |-> Request(t)]
      /\ [t \in Threads |-> Sampled(t)]' =
           [[t \in Threads |-> Sampled(t)] EXCEPT ![u] = TRUE]
  BY <1>2, <1>6
<1>10. gen[u] \in 1 .. MaxCalls * Cardinality(Threads)
  <2>1. gen[u] \in 1 .. collections /\ collections \in Nat
    BY <1>1 DEF CallInv, GenTaken, TypeOK
  <2>2. Spent \in SUBSET (Threads \X (1 .. MaxCalls))
    BY DEF Spent
  <2>3. /\ Cardinality(Spent) <= MaxCalls * Cardinality(Threads)
        /\ Cardinality(Spent) \in Nat
    BY <2>2, SpentFinite, FS_Subset, FS_CardinalityType
  <2>4. MaxCalls * Cardinality(Threads) \in Nat
    BY SpentFinite, FS_CardinalityType
  <2> QED
    BY <2>1, <2>3, <2>4 DEF CountInv
<1> QED
  BY <1>1, <1>2, <1>3, <1>4, <1>5, <1>7, <1>8, <1>9, <1>10 DEF Cached!Sample

LEMMA BeginInvokes ==
  ASSUME TypeOK, NEW u \in Threads, NEW o \in Objects, NEW f \in BOOLEAN,
         NEW label \in {"writer", "reader"}, Begin(u, o, f, label)
  PROVE  \E what \in Cached!Requests \ {"none"} : Cached!Invoke(u, o, what)
<1> DEFINE what == IF label = "reader" THEN "json"
                   ELSE IF f THEN "force" ELSE "evaluate"
<1>1. /\ pc[u] = "idle" /\ pc'[u] = label /\ force'[u] = f
      /\ obj' = [obj EXCEPT ![u] = o] /\ outcome'[u] = "none"
      /\ UNCHANGED state
  BY DEF Begin, Goto, TypeOK
<1>2. label \in Labels
  BY DEF Labels
<1>3. ASSUME NEW t \in Threads, t # u
      PROVE  /\ Request(t)' = Request(t) /\ Sampled(t)' = Sampled(t)
             /\ Answers'[t] = Answers[t] /\ obj'[t] = obj[t]
  BY <1>2, <1>3, BeginFrame DEF Request, Sampled, Answers
<1>4. /\ Request(u) = "none" /\ Request(u)' = what
      /\ ~Sampled(u) /\ ~Sampled(u)' /\ Answers'[u] = "none"
  BY <1>1 DEF Request, Sampled, Answers
<1>5. ASSUME NEW t \in Threads PROVE Sampled(t)' = Sampled(t)
  BY <1>3, <1>4 DEF Sampled
<1>6. Value' = Value
  BY <1>1 DEF Value, state
<1>7. Known' = Known
  <2>1. ASSUME NEW q \in Objects, NEW t \in Threads
        PROVE  (obj'[t] = q /\ Sampled(t)') <=> (obj[t] = q /\ Sampled(t))
    BY <1>3, <1>4
  <2>2. collected' = collected
    BY <1>1 DEF state
  <2> QED
    BY <2>1, <2>2 DEF Known
<1>8. Answers' = [Answers EXCEPT ![u] = "none"]
  BY <1>3, <1>4 DEF Answers
<1>9. /\ [t \in Threads |-> Request(t)]' =
           [[t \in Threads |-> Request(t)] EXCEPT ![u] = what]
      /\ [t \in Threads |-> Sampled(t)]' = [t \in Threads |-> Sampled(t)]
  BY <1>3, <1>4, <1>5
<1>10. what \in Cached!Requests \ {"none"}
  BY DEF Cached!Requests
<1> HIDE DEF what
<1>11. Cached!Invoke(u, o, what)
  BY <1>1, <1>4, <1>6, <1>7, <1>8, <1>9
     DEF Cached!Invoke, Cached!NoAnswer, Cached!cache
<1> QED
  BY <1>10, <1>11

\* Every way out of evaluate is one the cache allows.
LEMMA WaysOut ==
  ASSUME Structs, RefInv, NEW u \in Threads,
         \/ UseCache(u) \/ NotBuilt(u) \/ Throw(u) \/ Leave(u)
         \/ Refuse(u) \/ Relock(u)
  PROVE  Cached!Return(u)
<1> USE DEF RefInv
<1>1. CASE UseCache(u)
  <2>1. /\ End(u, "returned") /\ UNCHANGED state /\ Evaluating(u) /\ ~Sampled(u)
        /\ ~force[u] /\ collected[obj[u]]
    BY <1>1 DEF UseCache, Evaluating, Sampled
  <2> QED
    BY <1>1, <2>1, EndReturns DEF Step
<1>2. CASE NotBuilt(u)
  <2>1. /\ End(u, "threw") /\ UNCHANGED state /\ Evaluating(u) /\ ~Sampled(u)
        /\ kind(u).absent # "no"
    BY <1>2 DEF NotBuilt, Evaluating, Sampled
  <2> QED
    BY <1>2, <2>1, EndReturns DEF Step
<1>3. CASE Throw(u)
  <2>1. End(u, "threw") /\ UNCHANGED state /\ Evaluating(u) /\ pc[u] = "collect"
    BY <1>3 DEF Throw, Evaluating
  <2>2. \/ kind(u).absent = "within"
        \/ kind(u).fails # {} /\ part[u] \in Parts
    BY <1>3, BoundAssumption DEF Throw, Parts
  <2>3. ~Sampled(u)
    BY <2>1, <2>2, BoundAssumption DEF Sampled, CallInv, SampleDue, Parts
  <2> QED
    BY <1>3, <2>1, <2>2, <2>3, EndReturns DEF Step
<1>4. CASE Leave(u)
  <2>1. End(u, "returned") /\ UNCHANGED state /\ Evaluating(u) /\ pc[u] = "leave"
    BY <1>4 DEF Leave, Evaluating
  <2>2. IF Sampled(u) THEN collected[obj[u]] ELSE kind(u).fails # {}
    BY <2>1 DEF Sampled, CallInv, LeavesWith
  <2> QED
    BY <1>4, <2>1, <2>2, EndReturns DEF Step
<1>5. CASE Refuse(u)
  BY <1>5, StructOf DEF Refuse, Struct
<1>6. CASE Relock(u)
  <2>1. u \in Owners
    BY <1>6 DEF Relock, MutexExact, Held
  <2> QED
    BY <1>6, <2>1 DEF Relock, Owners, Collecting
<1> QED
  BY <1>1, <1>2, <1>3, <1>4, <1>5, <1>6

\* All that evaluate and to_json do besides, the cache does not see.
LEMMA InnerSteps ==
  ASSUME Structs, RefInv, NEW u \in Threads,
         \/ LockWriter(u) \/ NeedsCollecting(u) \/ LockMutex(u)
         \/ (Store(u) /\ part[u] # NumParts)
         \/ Finish(u) \/ FailQuietly(u) \/ LockReader(u) \/ Copy(u)
  PROVE  UNCHANGED Cached!vars
<1> USE DEF RefInv
<1>0. Step(u)
  BY DEF Step
<1>1. /\ obj' = obj /\ obj[u] \in Objects
      /\ outcome' = outcome /\ outcome[u] = "none"
  <2>1. pc[u] # "idle"
    BY DEF LockWriter, NeedsCollecting, LockMutex, Store, Finish, FailQuietly,
           LockReader, Copy
  <2> QED
    BY <2>1 DEF CallInv, AnswerOpen, TypeOK, LockWriter, NeedsCollecting,
           LockMutex, Store, Finish, FailQuietly, LockReader, Copy,
           StartCollecting
<1>2. Answers'[u] = Answers[u]
  BY <1>1 DEF Answers
<1>3. Request(u)' = Request(u)
  <2>1. force' = force
    BY DEF LockWriter, NeedsCollecting, LockMutex, Store, Finish, FailQuietly,
           LockReader, Copy, StartCollecting
  <2>2. \/ pc[u] \in {"reader", "copy"} /\ pc'[u] \in {"reader", "copy"}
        \/ /\ pc[u] \in {"writer", "check", "lock", "collect", "leave"}
           /\ pc'[u] \in {"writer", "check", "lock", "collect", "leave"}
    BY DEF LockWriter, NeedsCollecting, LockMutex, Store, Finish, FailQuietly,
           LockReader, Copy, StartCollecting, Goto, TypeOK
  <2> QED
    BY <2>1, <2>2 DEF Request
<1>4. Sampled(u)' = Sampled(u) /\ Value' = Value
  <2>1. CASE Store(u) /\ part[u] # NumParts
    <3>1. /\ part[u] \in Parts /\ part'[u] = part[u] + 1 /\ pc' = pc
          /\ data' = [data EXCEPT ![obj[u]][part[u]] = <<gen[u]>>]
      BY <2>1, StoreAssigns, StructsOverwrite DEF Store
    <3>2. ASSUME NEW o \in Objects
          PROVE  data'[o][NumParts] = data[o][NumParts]
      <4>1. NumParts \in Parts /\ data[o] \in [Parts -> Seq(Nat)]
        BY LastPart
      <4>2. CASE o = obj[u]
        <5>1. data'[o] = [data[o] EXCEPT ![part[u]] = <<gen[u]>>]
          BY <3>1, <4>2 DEF TypeOK
        <5> QED
          BY <2>1, <4>1, <5>1
      <4>3. CASE o # obj[u]
        BY <1>1, <3>1, <4>3 DEF TypeOK
      <4> QED
        BY <4>2, <4>3
    <3>3. ~Sampled(u) /\ ~Sampled(u)'
      <4>1. part[u] <= NumParts /\ part'[u] <= NumParts
        BY <2>1, <3>1, BoundAssumption DEF Parts
      <4> QED
        BY <3>1, <4>1, BoundAssumption DEF Sampled, Parts
    <3> QED
      BY <3>2, <3>3 DEF Value, Sampled
  <2>2. CASE (NeedsCollecting(u) \/ LockMutex(u)) /\ StartCollecting(u)
    <3>1. pc'[u] = "collect" /\ part'[u] = 1 /\ data' = data
      BY <2>2, Starts
    <3>2. pc[u] \notin {"collect", "leave"}
      BY <2>2 DEF NeedsCollecting, LockMutex
    <3> QED
      BY <3>1, <3>2, BoundAssumption DEF Sampled, Value
  <2>3. CASE Finish(u) \/ FailQuietly(u)
    <3>1. pc[u] = "collect" /\ pc'[u] = "leave" /\ UNCHANGED <<part, data>>
      BY <2>3 DEF Finish, FailQuietly, Goto, TypeOK, state
    <3> QED
      BY <3>1 DEF Sampled, Value
  <2>4. CASE \/ LockWriter(u) \/ LockReader(u) \/ Copy(u)
             \/ ((NeedsCollecting(u) \/ LockMutex(u)) /\ ~StartCollecting(u))
    <3>1. /\ pc[u] \notin {"collect", "leave"} /\ data' = data
          /\ pc'[u] \notin {"collect", "leave"}
      BY <2>4 DEF LockWriter, NeedsCollecting, LockMutex, LockReader, Copy,
           Goto, TypeOK, state
    <3> QED
      BY <3>1 DEF Sampled, Value
  <2> QED
    BY <2>1, <2>2, <2>3, <2>4
<1>5. ASSUME NEW t \in Threads PROVE Sampled(t)' = Sampled(t)
  <2>1. CASE t = u
    BY <1>4, <2>1
  <2>2. CASE t # u
    BY <1>0, <2>2, OthersLeaveCallAlone DEF Sampled
  <2> QED
    BY <2>1, <2>2
<1>6. ASSUME NEW o \in Objects PROVE Known'[o] = Known[o]
  <2>1. (\E t \in Threads : obj'[t] = o /\ Sampled(t)')
        <=> (\E t \in Threads : obj[t] = o /\ Sampled(t))
    BY <1>1, <1>5
  <2>2. CASE Finish(u) /\ o = obj[u]
    <3>1. Sampled(u)
      <4>1. part[u] \notin Parts /\ pc[u] = "collect"
        BY <2>2, StructOf DEF Finish, Struct
      <4>2. part[u] >= 1 /\ part[u] \in 0 .. NumParts + 1
        BY <4>1 DEF StoredInv, Stored, TypeOK
      <4> QED
        BY <4>1, <4>2, BoundAssumption DEF Sampled, Parts
    <3>2. Sampled(u)' /\ obj'[u] = o /\ obj[u] = o
      BY <1>1, <1>5, <2>2, <3>1
    <3> QED
      BY <3>1, <3>2 DEF Known
  <2>3. CASE ~(Finish(u) /\ o = obj[u])
    <3>1. collected'[o] = collected[o]
      <4>1. CASE Finish(u)
        BY <1>1, <2>3, <4>1 DEF Finish, TypeOK
      <4>2. CASE Store(u)
        BY <4>2, StoreUnmarked
      <4>3. CASE ~Finish(u) /\ ~Store(u)
        BY <4>3 DEF LockWriter, NeedsCollecting, LockMutex, FailQuietly,
             LockReader, Copy, StartCollecting, state
      <4> QED
        BY <4>1, <4>2, <4>3
    <3> QED
      BY <2>1, <3>1 DEF Known
  <2> QED
    BY <2>2, <2>3
<1> QED
  BY <1>0, <1>1, <1>2, <1>3, <1>4, <1>6, Stutters

LEMMA RefInvariant ==
  ASSUME Structs, IsFiniteSet(Threads)
  PROVE  Spec => []RefInv
<1>1. AllGuarded /\ Overwrites /\ GivesBack
  BY StructsOverwrite DEF Overwrites, Structs
<1> QED
  BY <1>1, TypeCorrect, RwInvariant, CheckInvariant, MutexExactInvariant,
     StoredInvariant, CallDataInvariant, CountInvariant, JsonAlwaysOneInstant,
     PTL DEF RefInv

LEMMA InitRefines == Init => Cached!Init
<1> SUFFICES ASSUME Init PROVE Cached!Init
  OBVIOUS
<1>1. Value \in [Objects -> {<<>>, <<0>>}]
  <2>1. NumParts \in Parts
    BY BoundAssumption DEF Parts
  <2>2. \A o \in Objects : data[o][NumParts] \in {<<>>, <<0>>}
    BY <2>1 DEF Init, NoData, FromJson
  <2> QED
    BY <2>2 DEF Value
<1>2. Known \in [Objects -> BOOLEAN]
  BY DEF Known, Init
<1>3. \A t \in Threads : /\ Request(t) = "none" /\ Sampled(t) = FALSE
                          /\ Answers[t] = "none"
  BY DEF Init, Request, Sampled, Answers
<1>4. Answers = [t \in Threads |-> "none"]
  BY <1>3 DEF Answers
<1>5. obj \in [Threads -> Objects]
  BY KindAssumption DEF Init
<1> QED
  BY <1>1, <1>2, <1>3, <1>4, <1>5 DEF Cached!Init, Cached!NoAnswer

\* Sources that overwrite a struct behave as one cached value per object that
\* any number of threads read and replace in one step each: no interleaving of
\* the two locks shows a caller half of a collection, an older sample or a
\* second one, and no call returns without a value unless the source may fail.
THEOREM StructsImplementCachedData ==
  ASSUME Structs, IsFiniteSet(Threads)
  PROVE  Spec => ImplementsCachedData
<1>1. RefInv /\ [Next]_vars => [Cached!Next]_(Cached!vars)
  <2> SUFFICES ASSUME RefInv, [Next]_vars
               PROVE  Cached!Next \/ UNCHANGED Cached!vars
    OBVIOUS
  <2>1. CASE UNCHANGED vars
    BY <2>1 DEF vars, state, call, Cached!vars, Cached!cache, Value, Known,
                Answers, Request, Sampled
  <2>2. ASSUME NEW u \in Threads, NEW o \in Objects, NEW f \in BOOLEAN,
               NEW label \in {"writer", "reader"}, Begin(u, o, f, label)
        PROVE  Cached!Next
    BY <2>2, BeginInvokes DEF Cached!Next, RefInv
  <2>3. ASSUME NEW u \in Threads, Step(u) \/ Relock(u)
        PROVE  Cached!Next \/ UNCHANGED Cached!vars
    <3>1. CASE Store(u) /\ part[u] = NumParts
      BY <3>1, LastStoreSamples DEF Cached!Next
    <3>2. CASE EndCopy(u)
      BY <3>2, EndCopyAnswers DEF Cached!Next
    <3>3. CASE \/ UseCache(u) \/ NotBuilt(u) \/ Throw(u) \/ Leave(u)
               \/ Refuse(u) \/ Relock(u)
      BY <3>3, WaysOut DEF Cached!Next
    <3>4. CASE \/ LockWriter(u) \/ NeedsCollecting(u) \/ LockMutex(u)
               \/ (Store(u) /\ part[u] # NumParts)
               \/ Finish(u) \/ FailQuietly(u) \/ LockReader(u) \/ Copy(u)
      BY <3>4, InnerSteps
    <3> QED
      BY <2>3, <3>1, <3>2, <3>3, <3>4 DEF Step
  <2> QED
    BY <2>1, <2>2, <2>3 DEF Next, Done, Evaluate, ToJson
<1> QED
  BY <1>1, InitRefines, RefInvariant, PTL
     DEF Spec, ImplementsCachedData, Cached!Spec
=============================================================================
