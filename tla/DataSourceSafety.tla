-------------------------- MODULE DataSourceSafety --------------------------
(***************************************************************************)
(* The two locks of DataSource.tla do what they are for, whatever the      *)
(* number of threads and objects and whatever the sources collect.         *)
(*                                                                         *)
(* The argument: a lock is held by exactly the threads whose call is at a  *)
(* point where it should be (Held), or by those at least when calls may    *)
(* end without giving it back (Covers).  Both are inductive, and each      *)
(* action is, as far as a lock is concerned, one of five things: taking    *)
(* it, sharing it, giving either back, or leaving it alone.                *)
(***************************************************************************)
EXTENDS DataSource, SequenceTheorems, TLAPS

-----------------------------------------------------------------------------
(* Types                                                                     *)

LEMMA LockTypes ==
  ASSUME NEW m \in SM!SharedMutex, NEW t \in Threads
  PROVE  /\ SM!Lock(m, t) \in SM!SharedMutex
         /\ SM!LockShared(m, t) \in SM!SharedMutex
         /\ SM!Unlock(m, t) \in SM!SharedMutex
         /\ SM!UnlockShared(m, t) \in SM!SharedMutex
  BY DEF SM!SharedMutex, SM!Lock, SM!LockShared, SM!Unlock, SM!UnlockShared

LEMMA KindType == ASSUME TypeOK, NEW t \in Threads
                  PROVE  kind(t) \in SourceKind
  BY KindAssumption DEF TypeOK, kind

LEMMA InitTypeOK == Init => TypeOK
<1> SUFFICES ASSUME Init PROVE TypeOK
  OBVIOUS
<1>1. SM!Unlocked \in SM!SharedMutex
  BY DEF SM!Unlocked, SM!SharedMutex
<1>2. NoData \in [Parts -> Seq(Nat)] /\ FromJson \in [Parts -> Seq(Nat)]
  BY DEF NoData, FromJson
<1>3. (CHOOSE o \in Objects : TRUE) \in Objects
  BY KindAssumption
<1>4. data \in [Objects -> [Parts -> Seq(Nat)]]
  BY <1>2 DEF Init
<1>5. obj \in [Threads -> Objects]
  BY <1>3 DEF Init
<1>6. part \in [Threads -> 0 .. NumParts + 1] /\ calls \in [Threads -> 0 .. MaxCalls]
  BY BoundAssumption DEF Init
<1> QED
  BY <1>1, <1>2, <1>4, <1>5, <1>6 DEF Init, TypeOK, Labels, Outcomes

LEMMA ReleaseWriterType ==
  ASSUME TypeOK, NEW t \in Threads, ReleaseWriter(t)
  PROVE  rw_mutex' \in [Objects -> SM!SharedMutex]
  BY LockTypes DEF TypeOK, ReleaseWriter

LEMMA ReleaseMutexType ==
  ASSUME TypeOK, NEW t \in Threads, ReleaseMutex(t) \/ UnwindMutex(t)
  PROVE  mutex' \in SM!SharedMutex
  BY LockTypes DEF TypeOK, ReleaseMutex, UnwindMutex

\* The variables that End, Begin and StartCollecting take care of.
CallType ==
  /\ pc \in [Threads -> Labels]
  /\ obj \in [Threads -> Objects]
  /\ force \in [Threads -> BOOLEAN]
  /\ part \in [Threads -> 0 .. NumParts + 1]
  /\ gen \in [Threads -> Nat]
  /\ copy \in [Threads -> [Parts -> Seq(Nat)]]
  /\ outcome \in [Threads -> Outcomes]
  /\ calls \in [Threads -> 0 .. MaxCalls]

LEMMA EndType ==
  ASSUME TypeOK, NEW t \in Threads, NEW how \in Outcomes, End(t, how)
  PROVE  CallType'
  BY BoundAssumption DEF TypeOK, CallType, End, Goto, Labels

LEMMA BeginType ==
  ASSUME TypeOK, NEW t \in Threads, NEW o \in Objects, NEW f \in BOOLEAN,
         NEW label \in Labels, Begin(t, o, f, label)
  PROVE  TypeOK'
<1>1. NoData \in [Parts -> Seq(Nat)]
  BY DEF NoData
<1> QED
  BY <1>1, BoundAssumption DEF TypeOK, Begin, Goto, Outcomes, locks, state

LEMMA StartType ==
  ASSUME TypeOK, NEW t \in Threads, StartCollecting(t)
  PROVE  /\ CallType'
         /\ collected' \in [Objects -> BOOLEAN]
         /\ data' \in [Objects -> [Parts -> Seq(Nat)]]
         /\ collections' \in Nat
  BY BoundAssumption DEF TypeOK, CallType, StartCollecting, Goto, Labels

LEMMA StepTypeOK ==
  ASSUME TypeOK, NEW t \in Threads, Step(t) \/ Relock(t)
  PROVE  TypeOK'
<1> USE LockTypes
<1>1. CASE LockWriter(t)
  <2>1. rw_mutex' \in [Objects -> SM!SharedMutex]
    <3>1. CASE kind(t).guarded
      <4>1. rw_mutex' = [rw_mutex EXCEPT ![obj[t]] = SM!Lock(@, t)]
        BY <1>1, <3>1 DEF LockWriter
      <4> QED
        BY <4>1 DEF TypeOK
    <3>2. CASE ~kind(t).guarded
      BY <1>1, <3>2 DEF LockWriter, TypeOK
    <3> QED
      BY <3>1, <3>2
  <2>2. pc' \in [Threads -> Labels]
    <3>1. Goto(t, "lock") \/ Goto(t, "check")
      BY <1>1, Zenon DEF LockWriter
    <3> QED
      BY <3>1 DEF Goto, TypeOK, Labels
  <2> QED
    BY <1>1, <2>1, <2>2 DEF LockWriter, TypeOK, state
<1>2. CASE Refuse(t)
  <2>1. CallType'
    BY <1>2, EndType DEF Refuse, Outcomes
  <2>2. rw_mutex' \in [Objects -> SM!SharedMutex]
    BY <1>2, ReleaseWriterType DEF Refuse
  <2>3. mutex' \in SM!SharedMutex
    BY <1>2, ReleaseMutexType DEF Refuse, TypeOK
  <2> QED
    BY <1>2, <2>1, <2>2, <2>3 DEF Refuse, TypeOK, CallType, state
<1>3. CASE UseCache(t)
  <2>1. CallType'
    BY <1>3, EndType DEF UseCache, Outcomes
  <2>2. rw_mutex' \in [Objects -> SM!SharedMutex]
    BY <1>3, ReleaseWriterType DEF UseCache
  <2>3. mutex' \in SM!SharedMutex
    BY <1>3, ReleaseMutexType DEF UseCache, TypeOK
  <2> QED
    BY <1>3, <2>1, <2>2, <2>3 DEF UseCache, TypeOK, CallType, state
<1>4. CASE NeedsCollecting(t)
  <2>1. CASE StartCollecting(t)
    BY <1>4, <2>1, StartType DEF NeedsCollecting, TypeOK, CallType, locks
  <2>2. CASE ~kind(t).eager
    BY <1>4, <2>2 DEF NeedsCollecting, TypeOK, Goto, Labels, locks, state
  <2> QED
    BY <1>4, <2>1, <2>2 DEF NeedsCollecting
<1>5. CASE NotBuilt(t)
  <2>1. CallType'
    BY <1>5, EndType DEF NotBuilt, Outcomes
  <2> QED
    BY <1>5, <2>1, ReleaseWriterType DEF NotBuilt, TypeOK, CallType, state
<1>6. CASE LockMutex(t)
  <2>1. mutex' \in SM!SharedMutex
    BY <1>6 DEF LockMutex, TypeOK
  <2>2. CASE kind(t).eager
    BY <1>6, <2>1, <2>2 DEF LockMutex, TypeOK, Goto, Labels, state
  <2>3. CASE ~kind(t).eager
    <3>1. StartCollecting(t) /\ UNCHANGED rw_mutex
      BY <1>6, <2>3 DEF LockMutex
    <3> QED
      BY <2>1, <3>1, StartType DEF TypeOK, CallType
  <2> QED
    BY <2>2, <2>3
<1>7. CASE Relock(t)
  <2>1. CallType'
    BY <1>7, EndType DEF Relock, Outcomes
  <2> QED
    BY <1>7, <2>1, ReleaseWriterType DEF Relock, TypeOK, CallType, state
<1>8. CASE Store(t)
  <2>1. obj[t] \in Objects /\ part[t] \in Parts /\ gen[t] \in Nat
    BY <1>8 DEF Store, TypeOK
  <2>2. data' \in [Objects -> [Parts -> Seq(Nat)]]
    <3>1. data[obj[t]][part[t]] \in Seq(Nat)
      BY <2>1 DEF TypeOK
    <3>2. Append(data[obj[t]][part[t]], gen[t]) \in Seq(Nat)
      BY <2>1, <3>1, AppendProperties
    <3>3. <<gen[t]>> \in Seq(Nat)
      BY <2>1
    <3> QED
      BY <1>8, <2>1, <3>2, <3>3 DEF Store, TypeOK
  <2>3. collected' \in [Objects -> BOOLEAN]
    <3>1. PICK reported :
            collected' = [collected EXCEPT ![obj[t]] =
              \/ @
              \/ kind(t).marks = "around"
              \/ (kind(t).marks = "first" /\ part[t] = 1 /\ reported)]
      BY <1>8, Zenon DEF Store
    <3> DEFINE mark == \/ collected[obj[t]]
                       \/ kind(t).marks = "around"
                       \/ (kind(t).marks = "first" /\ part[t] = 1 /\ reported)
    <3>2. mark \in BOOLEAN
      OBVIOUS
    <3>3. collected' = [collected EXCEPT ![obj[t]] = mark]
      BY <3>1, Zenon
    <3> HIDE DEF mark
    <3> QED
      BY <3>2, <3>3 DEF TypeOK
  <2>4. part' \in [Threads -> 0 .. NumParts + 1]
    <3>1. part' = [part EXCEPT ![t] = @ + 1]
      BY <1>8 DEF Store
    <3> QED
      BY <2>1, <3>1, BoundAssumption DEF TypeOK, Parts
  <2> QED
    BY <1>8, <2>2, <2>3, <2>4 DEF Store, TypeOK, locks
<1>9. CASE Finish(t)
  <2>1. mutex' \in SM!SharedMutex
    BY <1>9, ReleaseMutexType DEF Finish
  <2>2. collected' \in [Objects -> BOOLEAN]
    BY <1>9 DEF Finish, TypeOK
  <2> QED
    BY <1>9, <2>1, <2>2 DEF Finish, TypeOK, Goto, Labels
<1>10. CASE FailQuietly(t)
  <2>1. mutex' \in SM!SharedMutex
    BY <1>10, ReleaseMutexType DEF FailQuietly
  <2> QED
    BY <1>10, <2>1 DEF FailQuietly, TypeOK, Goto, Labels, state
<1>11. CASE Throw(t)
  <2>1. CallType'
    BY <1>11, EndType DEF Throw, Outcomes
  <2>2. rw_mutex' \in [Objects -> SM!SharedMutex] /\ mutex' \in SM!SharedMutex
    BY <1>11, ReleaseWriterType, ReleaseMutexType DEF Throw
  <2> QED
    BY <1>11, <2>1, <2>2 DEF Throw, TypeOK, CallType, state
<1>12. CASE Leave(t)
  <2>1. CallType'
    BY <1>12, EndType DEF Leave, Outcomes
  <2> QED
    BY <1>12, <2>1, ReleaseWriterType DEF Leave, TypeOK, CallType, state
<1>13. CASE LockReader(t)
  BY <1>13, BoundAssumption DEF LockReader, TypeOK, Goto, Labels, state
<1>14. CASE Copy(t)
  <2>1. part[t] \in Parts /\ data[obj[t]][part[t]] \in Seq(Nat)
    BY <1>14 DEF Copy, TypeOK
  <2>2. copy' \in [Threads -> [Parts -> Seq(Nat)]]
    BY <1>14, <2>1 DEF Copy, TypeOK
  <2>3. part' \in [Threads -> 0 .. NumParts + 1]
    <3>1. /\ part' = [part EXCEPT ![t] = @ + 1]
          /\ part \in [Threads -> 0 .. NumParts + 1]
      BY <1>14 DEF Copy, TypeOK
    <3>2. part[t] + 1 \in 0 .. NumParts + 1
      BY <2>1, BoundAssumption DEF Parts
    <3> QED  BY <3>1, <3>2
  <2> QED
    BY <1>14, <2>2, <2>3 DEF Copy, TypeOK, locks, state
<1>15. CASE EndCopy(t)
  <2>1. CallType'
    BY <1>15, EndType DEF EndCopy, Outcomes
  <2> QED
    BY <1>15, <2>1 DEF EndCopy, TypeOK, CallType, state
<1> QED
  BY <1>1, <1>2, <1>3, <1>4, <1>5, <1>6, <1>7, <1>8, <1>9, <1>10, <1>11,
     <1>12, <1>13, <1>14, <1>15 DEF Step

\* Every variable keeps its type, whatever the threads do.
THEOREM TypeCorrect == Spec => []TypeOK
<1>1. TypeOK /\ [Next]_vars => TypeOK'
  <2> SUFFICES ASSUME TypeOK, [Next]_vars PROVE TypeOK'
    OBVIOUS
  <2>1. CASE UNCHANGED vars
    BY <2>1 DEF TypeOK, vars, locks, state, call
  <2>2. ASSUME NEW t \in Threads, NEW o \in Objects, NEW f \in BOOLEAN,
               Evaluate(t, o, f)
        PROVE  TypeOK'
    BY <2>2, BeginType DEF Evaluate, Labels
  <2>3. ASSUME NEW t \in Threads, NEW o \in Objects, ToJson(t, o)
        PROVE  TypeOK'
    BY <2>3, BeginType DEF ToJson, Labels
  <2> QED
    BY <2>1, <2>2, <2>3, StepTypeOK DEF Next, Done
<1> QED
  BY InitTypeOK, <1>1, PTL DEF Spec

-----------------------------------------------------------------------------
(* One lock: W should own it and R should share it.                          *)

AtMostOneSide(m) ==
  /\ \A t, u \in Threads : t \in m.owner /\ u \in m.owner => t = u
  /\ \A t, u \in Threads : t \in m.owner => m.shares[u] = 0

Held(m, W, R) ==
  /\ m \in SM!SharedMutex
  /\ AtMostOneSide(m)
  /\ \A t \in Threads : t \in m.owner <=> t \in W
  /\ \A t \in Threads : m.shares[t] = IF t \in R THEN 1 ELSE 0

LEMMA HeldFree == Held(SM!Unlocked, {}, {})
  BY DEF Held, AtMostOneSide, SM!SharedMutex, SM!Unlocked

LEMMA HeldLock ==
  ASSUME NEW m, NEW W, NEW R, NEW t \in Threads, Held(m, W, R), SM!CanLock(m)
  PROVE  Held(SM!Lock(m, t), W \union {t}, R)
  BY DEF Held, AtMostOneSide, SM!SharedMutex, SM!CanLock, SM!NoShares, SM!Lock

LEMMA HeldLockShared ==
  ASSUME NEW m, NEW W, NEW R, NEW t \in Threads, t \notin R,
         Held(m, W, R), SM!CanLockShared(m)
  PROVE  Held(SM!LockShared(m, t), W, R \union {t})
  BY DEF Held, AtMostOneSide, SM!SharedMutex, SM!CanLockShared, SM!LockShared

LEMMA HeldUnlock ==
  ASSUME NEW m, NEW W, NEW R, NEW t \in Threads, Held(m, W, R)
  PROVE  Held(SM!Unlock(m, t), W \ {t}, R)
  BY DEF Held, AtMostOneSide, SM!SharedMutex, SM!Unlock

LEMMA HeldUnlockShared ==
  ASSUME NEW m, NEW W, NEW R, NEW t \in Threads, Held(m, W, R)
  PROVE  Held(SM!UnlockShared(m, t), W, R \ {t})
  BY DEF Held, AtMostOneSide, SM!SharedMutex, SM!UnlockShared

Covers(m, W, R) ==
  /\ m \in SM!SharedMutex
  /\ AtMostOneSide(m)
  /\ \A t \in W : t \in m.owner
  /\ \A t \in R : m.shares[t] > 0

LEMMA CoversLock ==
  ASSUME NEW m, NEW W \in SUBSET Threads, NEW R \in SUBSET Threads,
         NEW t \in Threads, Covers(m, W, R), SM!CanLock(m)
  PROVE  Covers(SM!Lock(m, t), W \union {t}, R)
  BY DEF Covers, AtMostOneSide, SM!SharedMutex, SM!CanLock, SM!NoShares, SM!Lock

LEMMA CoversLockShared ==
  ASSUME NEW m, NEW W \in SUBSET Threads, NEW R \in SUBSET Threads,
         NEW t \in Threads, Covers(m, W, R), SM!CanLockShared(m)
  PROVE  Covers(SM!LockShared(m, t), W, R \union {t})
  BY DEF Covers, AtMostOneSide, SM!SharedMutex, SM!CanLockShared, SM!LockShared

LEMMA CoversUnlock ==
  ASSUME NEW m, NEW W \in SUBSET Threads, NEW R \in SUBSET Threads,
         NEW t \in Threads, Covers(m, W, R)
  PROVE  Covers(SM!Unlock(m, t), W \ {t}, R)
  BY DEF Covers, AtMostOneSide, SM!SharedMutex, SM!Unlock

LEMMA CoversUnlockShared ==
  ASSUME NEW m, NEW W \in SUBSET Threads, NEW R \in SUBSET Threads,
         NEW t \in Threads, Covers(m, W, R)
  PROVE  Covers(SM!UnlockShared(m, t), W, R \ {t})
  BY DEF Covers, AtMostOneSide, SM!SharedMutex, SM!UnlockShared

-----------------------------------------------------------------------------
(* The object's rw_mutex.                                                    *)

Writers(o) == {t \in Threads : obj[t] = o /\ Evaluating(t) /\ Kind[o].guarded}
Readers(o) == {t \in Threads : obj[t] = o /\ Reading(t)}

RwInv == \A o \in Objects : Held(rw_mutex[o], Writers(o), Readers(o))

\* Only t's own call moves.
Frame(t) == \A u \in Threads \ {t} : obj'[u] = obj[u] /\ pc'[u] = pc[u]

\* t's call goes from one point to another, on the same object.
Moves(t, from, to) ==
  /\ pc[t] = from
  /\ pc' = [pc EXCEPT ![t] = to]
  /\ obj' = obj

\* A step that neither takes nor gives back the rw_mutex, between two points
\* that both want it or both do not.
LEMMA RwKept ==
  ASSUME TypeOK, RwInv, NEW t \in Threads, Frame(t), rw_mutex' = rw_mutex,
         \A o \in Objects : /\ t \in Writers(o)' <=> t \in Writers(o)
                            /\ t \in Readers(o)' <=> t \in Readers(o)
  PROVE  RwInv'
<1> SUFFICES ASSUME NEW o \in Objects
             PROVE  Held(rw_mutex'[o], Writers(o)', Readers(o)')
  BY DEF RwInv, Held, AtMostOneSide
<1>1. Writers(o)' = Writers(o)
  BY DEF Writers, Evaluating, Frame
<1>2. Readers(o)' = Readers(o)
  BY DEF Readers, Reading, Frame
<1>3. Held(rw_mutex[o], Writers(o), Readers(o))
  BY DEF RwInv
<1> QED
  BY <1>1, <1>2, <1>3

LEMMA RwWriterEnters ==
  ASSUME TypeOK, RwInv, NEW t \in Threads, NEW to \in {"check", "lock"},
         kind(t).guarded, Moves(t, "writer", to), SM!CanLock(rw_mutex[obj[t]]),
         rw_mutex' = [rw_mutex EXCEPT ![obj[t]] = SM!Lock(@, t)]
  PROVE  RwInv'
<1> SUFFICES ASSUME NEW o \in Objects
             PROVE  Held(rw_mutex'[o], Writers(o)', Readers(o)')
  BY DEF RwInv, Held, AtMostOneSide
<1>1. Held(rw_mutex[o], Writers(o), Readers(o))
  BY DEF RwInv
<1>2. Readers(o)' = Readers(o)
  BY DEF Readers, Reading, Moves, TypeOK
<1>3. CASE o = obj[t]
  <2>1. Writers(o)' = Writers(o) \union {t}
    BY <1>3 DEF Writers, Evaluating, Moves, TypeOK, kind
  <2>2. rw_mutex'[o] = SM!Lock(rw_mutex[o], t)
    BY <1>3 DEF TypeOK
  <2> QED
    BY <1>1, <1>2, <1>3, <2>1, <2>2, HeldLock
<1>4. CASE o # obj[t]
  <2>1. Writers(o)' = Writers(o)
    BY <1>4 DEF Writers, Evaluating, Moves, TypeOK
  <2>2. rw_mutex'[o] = rw_mutex[o]
    BY <1>4 DEF TypeOK
  <2> QED
    BY <1>1, <1>2, <2>1, <2>2
<1> QED
  BY <1>3, <1>4

LEMMA RwWriterLeaves ==
  ASSUME TypeOK, RwInv, NEW t \in Threads, NEW from, Evaluating(t),
         Moves(t, from, "idle"), ReleaseWriter(t)
  PROVE  RwInv'
<1>1. CASE ~kind(t).guarded
  <2>1. rw_mutex' = rw_mutex
    BY <1>1 DEF ReleaseWriter
  <2>2. Frame(t)
    BY DEF Frame, Moves, TypeOK
  <2>3. ASSUME NEW o \in Objects
        PROVE  /\ t \in Writers(o)' <=> t \in Writers(o)
               /\ t \in Readers(o)' <=> t \in Readers(o)
    BY <1>1 DEF Writers, Readers, Evaluating, Reading, Moves, TypeOK, kind
  <2> QED
    BY <2>1, <2>2, <2>3, RwKept
<1>2. CASE kind(t).guarded
  <2> SUFFICES ASSUME NEW o \in Objects
               PROVE  Held(rw_mutex'[o], Writers(o)', Readers(o)')
    BY DEF RwInv, Held, AtMostOneSide
  <2>1. Held(rw_mutex[o], Writers(o), Readers(o))
    BY DEF RwInv
  <2>2. Readers(o)' = Readers(o)
    BY DEF Readers, Reading, Evaluating, Moves, TypeOK
  <2>3. CASE o = obj[t]
    <3>1. Writers(o)' = Writers(o) \ {t}
      BY <2>3 DEF Writers, Evaluating, Moves, TypeOK
    <3>2. rw_mutex'[o] = SM!Unlock(rw_mutex[o], t)
      BY <1>2, <2>3 DEF ReleaseWriter, TypeOK
    <3> QED
      BY <2>1, <2>2, <3>1, <3>2, HeldUnlock
  <2>4. CASE o # obj[t]
    <3>1. Writers(o)' = Writers(o)
      BY <2>4 DEF Writers, Evaluating, Moves, TypeOK
    <3>2. rw_mutex'[o] = rw_mutex[o]
      BY <1>2, <2>4 DEF ReleaseWriter, TypeOK
    <3> QED
      BY <2>1, <2>2, <3>1, <3>2
  <2> QED
    BY <2>3, <2>4
<1> QED
  BY <1>1, <1>2

LEMMA RwReaderEnters ==
  ASSUME TypeOK, RwInv, NEW t \in Threads, Moves(t, "reader", "copy"),
         SM!CanLockShared(rw_mutex[obj[t]]),
         rw_mutex' = [rw_mutex EXCEPT ![obj[t]] = SM!LockShared(@, t)]
  PROVE  RwInv'
<1> SUFFICES ASSUME NEW o \in Objects
             PROVE  Held(rw_mutex'[o], Writers(o)', Readers(o)')
  BY DEF RwInv, Held, AtMostOneSide
<1>1. Held(rw_mutex[o], Writers(o), Readers(o))
  BY DEF RwInv
<1>2. Writers(o)' = Writers(o)
  BY DEF Writers, Evaluating, Moves, TypeOK
<1>3. CASE o = obj[t]
  <2>1. Readers(o)' = Readers(o) \union {t} /\ t \notin Readers(o)
    BY <1>3 DEF Readers, Reading, Moves, TypeOK
  <2>2. rw_mutex'[o] = SM!LockShared(rw_mutex[o], t)
    BY <1>3 DEF TypeOK
  <2> QED
    BY <1>1, <1>2, <1>3, <2>1, <2>2, HeldLockShared
<1>4. CASE o # obj[t]
  <2>1. Readers(o)' = Readers(o)
    BY <1>4 DEF Readers, Reading, Moves, TypeOK
  <2>2. rw_mutex'[o] = rw_mutex[o]
    BY <1>4 DEF TypeOK
  <2> QED
    BY <1>1, <1>2, <2>1, <2>2
<1> QED
  BY <1>3, <1>4

LEMMA RwReaderLeaves ==
  ASSUME TypeOK, RwInv, NEW t \in Threads, Moves(t, "copy", "idle"),
         rw_mutex' = [rw_mutex EXCEPT ![obj[t]] = SM!UnlockShared(@, t)]
  PROVE  RwInv'
<1> SUFFICES ASSUME NEW o \in Objects
             PROVE  Held(rw_mutex'[o], Writers(o)', Readers(o)')
  BY DEF RwInv, Held, AtMostOneSide
<1>1. Held(rw_mutex[o], Writers(o), Readers(o))
  BY DEF RwInv
<1>2. Writers(o)' = Writers(o)
  BY DEF Writers, Evaluating, Moves, TypeOK
<1>3. CASE o = obj[t]
  <2>1. Readers(o)' = Readers(o) \ {t}
    BY <1>3 DEF Readers, Reading, Moves, TypeOK
  <2>2. rw_mutex'[o] = SM!UnlockShared(rw_mutex[o], t)
    BY <1>3 DEF TypeOK
  <2> QED
    BY <1>1, <1>2, <2>1, <2>2, HeldUnlockShared
<1>4. CASE o # obj[t]
  <2>1. Readers(o)' = Readers(o)
    BY <1>4 DEF Readers, Reading, Moves, TypeOK
  <2>2. rw_mutex'[o] = rw_mutex[o]
    BY <1>4 DEF TypeOK
  <2> QED
    BY <1>1, <1>2, <2>1, <2>2
<1> QED
  BY <1>3, <1>4

\* Whatever a call does, the rw_mutex of every object stays held by the calls
\* that are between the constructor and the destructor of a guard on it.
LEMMA RwStep ==
  ASSUME TypeOK, RwInv, NEW t \in Threads, Step(t) \/ Relock(t)
  PROVE  RwInv'
<1> DEFINE SameSide ==
      \A o \in Objects : /\ t \in Writers(o)' <=> t \in Writers(o)
                         /\ t \in Readers(o)' <=> t \in Readers(o)
<1>1. CASE LockWriter(t)
  <2>1. PICK to \in {"check", "lock"} : Moves(t, "writer", to)
    BY <1>1, Zenon DEF LockWriter, Moves, Goto
  <2>2. CASE kind(t).guarded
    BY <1>1, <2>1, <2>2, RwWriterEnters DEF LockWriter
  <2>3. CASE ~kind(t).guarded
    <3>1. SameSide /\ Frame(t)
      BY <2>1, <2>3
         DEF Writers, Readers, Evaluating, Reading, Moves, TypeOK, kind, Frame
    <3> QED
      BY <1>1, <2>3, <3>1, RwKept DEF LockWriter
  <2> QED
    BY <2>2, <2>3
<1>2. CASE Refuse(t) \/ UseCache(t)
  <2>1. Moves(t, "check", "idle") /\ ReleaseWriter(t)
    BY <1>2 DEF Refuse, UseCache, End, Goto, Moves
  <2> QED
    BY <2>1, RwWriterLeaves DEF Evaluating, Moves
<1>3. CASE NotBuilt(t) \/ Relock(t)
  <2>1. Moves(t, "lock", "idle") /\ ReleaseWriter(t)
    BY <1>3 DEF NotBuilt, Relock, End, Goto, Moves
  <2> QED
    BY <2>1, RwWriterLeaves DEF Evaluating, Moves
<1>4. CASE Throw(t)
  <2>1. Moves(t, "collect", "idle") /\ ReleaseWriter(t)
    BY <1>4 DEF Throw, End, Goto, Moves
  <2> QED
    BY <2>1, RwWriterLeaves DEF Evaluating, Moves
<1>5. CASE Leave(t)
  <2>1. Moves(t, "leave", "idle") /\ ReleaseWriter(t)
    BY <1>5 DEF Leave, End, Goto, Moves
  <2> QED
    BY <2>1, RwWriterLeaves DEF Evaluating, Moves
<1>6. CASE NeedsCollecting(t) \/ LockMutex(t) \/ Finish(t) \/ FailQuietly(t)
  <2>1. /\ Evaluating(t) /\ obj' = obj /\ rw_mutex' = rw_mutex
        /\ pc' \in {[pc EXCEPT ![t] = to] : to \in {"check", "lock", "collect", "leave"}}
    BY <1>6 DEF NeedsCollecting, LockMutex, Finish, FailQuietly, Evaluating,
                StartCollecting, Goto, locks
  <2>2. SameSide /\ Frame(t)
    BY <2>1 DEF Writers, Readers, Evaluating, Reading, TypeOK, Frame
  <2> QED
    BY <2>1, <2>2, RwKept
<1>7. CASE Store(t) \/ Copy(t)
  <2>1. pc' = pc /\ obj' = obj /\ rw_mutex' = rw_mutex
    BY <1>7 DEF Store, Copy, locks
  <2>2. SameSide /\ Frame(t)
    BY <2>1 DEF Writers, Readers, Evaluating, Reading, Frame
  <2> QED
    BY <2>1, <2>2, RwKept
<1>8. CASE LockReader(t)
  <2>1. Moves(t, "reader", "copy")
    BY <1>8 DEF LockReader, Moves, Goto
  <2> QED
    BY <1>8, <2>1, RwReaderEnters DEF LockReader
<1>9. CASE EndCopy(t)
  <2>1. Moves(t, "copy", "idle")
    BY <1>9 DEF EndCopy, End, Moves, Goto
  <2> QED
    BY <1>9, <2>1, RwReaderLeaves DEF EndCopy
<1> QED
  BY <1>1, <1>2, <1>3, <1>4, <1>5, <1>6, <1>7, <1>8, <1>9 DEF Step

LEMMA RwInit == Init => RwInv
<1> SUFFICES ASSUME Init, NEW o \in Objects
             PROVE  Held(rw_mutex[o], Writers(o), Readers(o))
  BY DEF RwInv
<1>1. Writers(o) = {} /\ Readers(o) = {}
  BY DEF Init, Writers, Readers, Evaluating, Reading
<1> QED
  BY <1>1, HeldFree DEF Init

LEMMA RwBegin ==
  ASSUME TypeOK, RwInv, NEW t \in Threads, NEW o \in Objects, NEW f \in BOOLEAN,
         NEW label \in {"writer", "reader"}, Begin(t, o, f, label)
  PROVE  RwInv'
<1>1. Frame(t) /\ rw_mutex' = rw_mutex
  BY DEF Begin, Goto, Frame, TypeOK, locks
<1>2. \A q \in Objects : /\ t \in Writers(q)' <=> t \in Writers(q)
                         /\ t \in Readers(q)' <=> t \in Readers(q)
  BY DEF Begin, Goto, Writers, Readers, Evaluating, Reading, TypeOK
<1> QED
  BY <1>1, <1>2, RwKept

LEMMA RwInvariant == Spec => []RwInv
<1>1. TypeOK /\ RwInv /\ [Next]_vars => RwInv'
  <2> SUFFICES ASSUME TypeOK, RwInv, [Next]_vars PROVE RwInv'
    OBVIOUS
  <2>1. CASE UNCHANGED vars
    BY <2>1 DEF vars, locks, state, call, RwInv, Held, AtMostOneSide, Writers,
                Readers, Evaluating, Reading
  <2>2. ASSUME NEW t \in Threads, NEW o \in Objects, NEW f \in BOOLEAN,
               Evaluate(t, o, f)
        PROVE  RwInv'
    BY <2>2, RwBegin DEF Evaluate
  <2>3. ASSUME NEW t \in Threads, NEW o \in Objects, ToJson(t, o)
        PROVE  RwInv'
    BY <2>3, RwBegin DEF ToJson
  <2> QED
    BY <2>1, <2>2, <2>3, RwStep DEF Next, Done
<1> QED
  BY RwInit, TypeCorrect, <1>1, PTL DEF Spec

\* A call never ends with its object's rw_mutex in hand, whichever of its
\* ways out it took.
THEOREM RwMutexAlwaysGivenBack == Spec => []RwMutexGivenBack
<1>1. RwInv => RwMutexGivenBack
  BY DEF RwInv, RwMutexGivenBack, Held, Writers, Readers, Evaluating, Reading
<1> QED
  BY <1>1, RwInvariant, PTL

AllGuarded == \A o \in Objects : Kind[o].guarded

LEMMA GuardedExclusion ==
  ASSUME AllGuarded, TypeOK, RwInv
  PROVE  ReaderBlocksDuringEvaluate
<1> SUFFICES ASSUME NEW t \in Threads, NEW u \in Threads,
                    t # u, obj[t] = obj[u], Evaluating(t)
             PROVE  ~Evaluating(u) /\ ~Reading(u)
  BY DEF ReaderBlocksDuringEvaluate
<1>1. PICK o \in Objects : o = obj[t]
  BY DEF TypeOK
<1>2. Held(rw_mutex[o], Writers(o), Readers(o)) /\ Kind[o].guarded
  BY DEF RwInv, AllGuarded
<1>3. t \in Writers(o)
  BY <1>1, <1>2 DEF Writers
<1>4. u \notin Writers(o)
  BY <1>2, <1>3 DEF Held, AtMostOneSide
<1>5. u \notin Readers(o)
  BY <1>2, <1>3 DEF Held, AtMostOneSide
<1> QED
  BY <1>1, <1>2, <1>4, <1>5 DEF Writers, Readers

\* Where every source's evaluate takes its object's rw_mutex, the json cast
\* blocks while the object is being evaluated, and evaluations of one object
\* never overlap.
THEOREM ReadersBlock ==
  ASSUME AllGuarded
  PROVE  Spec => []ReaderBlocksDuringEvaluate
<1>1. TypeOK /\ RwInv => ReaderBlocksDuringEvaluate
  BY GuardedExclusion
<1> QED
  BY <1>1, RwInvariant, TypeCorrect, PTL

-----------------------------------------------------------------------------
(* What the exclusion buys: untorn copies, and no needless collection.       *)

\* While t is between two points of evaluate or to_json on an object, nobody
\* else changes what that object holds.
LEMMA OthersLeaveDataAlone ==
  ASSUME AllGuarded, TypeOK, RwInv, NEW t \in Threads, NEW u \in Threads,
         t # u, Evaluating(t) \/ Reading(t), Step(u) \/ Relock(u)
  PROVE  data'[obj[t]] = data[obj[t]] /\ collected'[obj[t]] = collected[obj[t]]
<1>1. CASE Store(u) \/ Finish(u)
  <2>1. Evaluating(u)
    BY <1>1 DEF Store, Finish, Evaluating
  <2>2. obj[u] # obj[t]
    BY <2>1, GuardedExclusion DEF ReaderBlocksDuringEvaluate
  <2>3. PICK b : collected' = [collected EXCEPT ![obj[u]] = b]
    BY <1>1, Zenon DEF Store, Finish
  <2>4. \/ data' = data
        \/ \E d : data' = [data EXCEPT ![obj[u]] = d]
    BY <1>1, Zenon DEF Store, Finish
  <2>5. obj[t] \in Objects
    BY DEF TypeOK
  <2> QED
    BY <2>2, <2>3, <2>4, <2>5 DEF TypeOK
<1>2. CASE ~(Store(u) \/ Finish(u))
  BY <1>2 DEF Step, LockWriter, Refuse, UseCache, NeedsCollecting, NotBuilt,
              LockMutex, Relock, FailQuietly, Throw, Leave, LockReader, Copy,
              EndCopy, StartCollecting, state
<1> QED
  BY <1>1, <1>2

\* A thread's program counter, object, part and copy are its own.
LEMMA OthersLeaveCallAlone ==
  ASSUME TypeOK, NEW t \in Threads, NEW u \in Threads, t # u,
         Step(u) \/ Relock(u)
  PROVE  /\ pc'[t] = pc[t] /\ obj'[t] = obj[t] /\ part'[t] = part[t]
         /\ copy'[t] = copy[t] /\ force'[t] = force[t] /\ gen'[t] = gen[t]
         /\ outcome'[t] = outcome[t] /\ calls'[t] = calls[t]
  BY DEF TypeOK, Step, LockWriter, Refuse, UseCache, NeedsCollecting, NotBuilt,
         LockMutex, Relock, Store, Finish, FailQuietly, Throw, Leave,
         LockReader, Copy, EndCopy, StartCollecting, End, Goto

LEMMA BeginFrame ==
  ASSUME TypeOK, NEW t \in Threads, NEW u \in Threads, NEW o \in Objects,
         NEW f \in BOOLEAN, NEW label \in Labels, Begin(u, o, f, label)
  PROVE  /\ UNCHANGED state
         /\ t = u => pc'[t] = label
         /\ t # u => /\ pc'[t] = pc[t] /\ obj'[t] = obj[t] /\ part'[t] = part[t]
                     /\ copy'[t] = copy[t] /\ force'[t] = force[t]
                     /\ gen'[t] = gen[t] /\ outcome'[t] = outcome[t]
                     /\ calls'[t] = calls[t]
  BY DEF TypeOK, Begin, Goto

JsonOf(t) ==
  Reading(t) => \A p \in Parts : p < part[t] => copy[t][p] = data[obj[t]][p]

LEMMA JsonStep ==
  ASSUME AllGuarded, TypeOK, RwInv, JsonIsOneInstant,
         NEW u \in Threads, Step(u) \/ Relock(u)
  PROVE  JsonIsOneInstant'
<1> SUFFICES ASSUME NEW t \in Threads PROVE JsonOf(t)'
  BY DEF JsonIsOneInstant, JsonOf
<1>1. JsonOf(t)
  BY DEF JsonIsOneInstant, JsonOf
<1>2. CASE t # u
  BY <1>1, <1>2, OthersLeaveDataAlone, OthersLeaveCallAlone DEF JsonOf, Reading
<1>3. CASE t = u
  <2>1. CASE LockReader(t)
    BY <2>1 DEF LockReader, JsonOf, Parts, TypeOK
  <2>2. CASE Copy(t)
    <3>1. /\ part[t] \in Parts /\ part'[t] = part[t] + 1
          /\ data' = data /\ obj' = obj
          /\ copy'[t] = [copy[t] EXCEPT ![part[t]] = data[obj[t]][part[t]]]
          /\ Reading(t)
      BY <2>2 DEF Copy, TypeOK, state, Reading
    <3>2. copy[t] \in [Parts -> Seq(Nat)]
      BY DEF TypeOK
    <3>3. ASSUME NEW p \in Parts, p < part[t] + 1
          PROVE  copy'[t][p] = data[obj[t]][p]
      <4>1. p = part[t] \/ p < part[t]
        BY <3>1, <3>3, BoundAssumption DEF Parts
      <4>2. CASE p = part[t]
        BY <3>1, <3>2, <4>2
      <4>3. CASE p < part[t]
        <5>1. copy[t][p] = data[obj[t]][p] /\ p # part[t]
          BY <1>1, <3>1, <4>3, BoundAssumption DEF JsonOf, Parts
        <5> QED
          BY <3>1, <3>2, <5>1
      <4> QED
        BY <4>1, <4>2, <4>3
    <3>4. data'[obj'[t]] = data[obj[t]]
      BY <3>1
    <3> QED
      BY <3>1, <3>3, <3>4 DEF JsonOf, Parts
  <2>3. CASE ~LockReader(t) /\ ~Copy(t)
    <3>1. pc'[t] # "copy"
      BY <1>3, <2>3
         DEF TypeOK, Step, LockWriter, Refuse, UseCache, NeedsCollecting,
             NotBuilt, LockMutex, Relock, Store, Finish, FailQuietly, Throw,
             Leave, EndCopy, StartCollecting, End, Goto
    <3> QED
      BY <3>1 DEF JsonOf, Reading
  <2> QED
    BY <2>1, <2>2, <2>3
<1> QED
  BY <1>2, <1>3

\* The JSON under construction is at every moment a prefix of what the object
\* holds at that moment, so a finished one is the data of one instant.
THEOREM JsonAlwaysOneInstant ==
  ASSUME AllGuarded
  PROVE  Spec => []JsonIsOneInstant
<1>1. Init => JsonIsOneInstant
  BY DEF Init, JsonIsOneInstant, Reading
<1>2. TypeOK /\ RwInv /\ JsonIsOneInstant /\ [Next]_vars => JsonIsOneInstant'
  <2> SUFFICES ASSUME TypeOK, RwInv, JsonIsOneInstant, [Next]_vars
               PROVE  JsonIsOneInstant'
    OBVIOUS
  <2>1. CASE UNCHANGED vars
    BY <2>1 DEF vars, state, call, JsonIsOneInstant, Reading
  <2>2. ASSUME NEW u \in Threads, NEW o \in Objects, NEW f \in BOOLEAN,
               NEW label \in {"writer", "reader"}, Begin(u, o, f, label)
        PROVE  JsonIsOneInstant'
    BY <2>2, BeginFrame DEF JsonIsOneInstant, Reading, state, Labels
  <2> QED
    BY <2>1, <2>2, JsonStep DEF Next, Done, Evaluate, ToJson
<1> QED
  BY <1>1, <1>2, RwInvariant, TypeCorrect, PTL DEF Spec

\* From the cached check to the first part collected, the answer of the check
\* still holds.
CheckStillHolds(t) ==
  \/ pc[t] = "lock" /\ ~kind(t).eager
  \/ pc[t] = "collect" /\ part[t] = 1
  => force[t] \/ ~collected[obj[t]]

CheckInv == \A t \in Threads : CheckStillHolds(t)

LEMMA CheckStep ==
  ASSUME AllGuarded, TypeOK, RwInv, CheckInv,
         NEW u \in Threads, Step(u) \/ Relock(u)
  PROVE  CheckInv'
<1> SUFFICES ASSUME NEW t \in Threads PROVE CheckStillHolds(t)'
  BY DEF CheckInv
<1>1. CheckStillHolds(t)
  BY DEF CheckInv
<1>2. CASE t # u
  <2>1. CASE Evaluating(t)
    BY <1>1, <1>2, <2>1, OthersLeaveDataAlone, OthersLeaveCallAlone
       DEF CheckStillHolds, kind
  <2>2. CASE ~Evaluating(t)
    BY <1>2, <2>2, OthersLeaveCallAlone DEF CheckStillHolds, Evaluating
  <2> QED
    BY <2>1, <2>2
<1>3. CASE t = u
  <2>1. CASE NeedsCollecting(t)
    <3>1. force[t] \/ ~collected[obj[t]]
      BY <2>1 DEF NeedsCollecting
    <3>2. UNCHANGED <<force, obj, collected>>
      BY <2>1 DEF NeedsCollecting, StartCollecting, state
    <3> QED
      BY <3>1, <3>2 DEF CheckStillHolds
  <2>2. CASE LockMutex(t)
    <3>1. CASE kind(t).eager
      BY <2>2, <3>1 DEF LockMutex, CheckStillHolds, kind, Goto, TypeOK
    <3>2. CASE ~kind(t).eager
      <4>1. force[t] \/ ~collected[obj[t]]
        BY <1>1, <2>2, <3>2 DEF LockMutex, CheckStillHolds
      <4>2. UNCHANGED <<force, obj, collected>>
        BY <2>2, <3>2 DEF LockMutex, StartCollecting
      <4> QED
        BY <4>1, <4>2 DEF CheckStillHolds
    <3> QED
      BY <3>1, <3>2
  <2>3. CASE LockWriter(t)
    <3>1. pc'[t] = (IF kind(t).eager THEN "lock" ELSE "check") /\ obj' = obj
      BY <2>3 DEF LockWriter, Goto, TypeOK
    <3> QED
      BY <3>1 DEF CheckStillHolds, kind
  <2>4. CASE Store(t)
    <3>1. part'[t] # 1 /\ pc'[t] = "collect"
      BY <2>4 DEF Store, TypeOK, Parts
    <3> QED
      BY <3>1 DEF CheckStillHolds
  <2>5. CASE ~(NeedsCollecting(t) \/ LockMutex(t) \/ LockWriter(t) \/ Store(t))
    <3>1. pc'[t] \notin {"lock", "collect"}
      BY <1>3, <2>5
         DEF TypeOK, Step, Refuse, UseCache, NotBuilt, Relock, Finish,
             FailQuietly, Throw, Leave, LockReader, Copy, EndCopy, End, Goto
    <3> QED
      BY <3>1 DEF CheckStillHolds
  <2> QED
    BY <2>1, <2>2, <2>3, <2>4, <2>5
<1> QED
  BY <1>2, <1>3

LEMMA CheckInvariant ==
  ASSUME AllGuarded
  PROVE  Spec => []CheckInv
<1>1. Init => CheckInv
  BY DEF Init, CheckInv, CheckStillHolds
<1>2. TypeOK /\ RwInv /\ CheckInv /\ [Next]_vars => CheckInv'
  <2> SUFFICES ASSUME TypeOK, RwInv, CheckInv, [Next]_vars PROVE CheckInv'
    OBVIOUS
  <2>1. CASE UNCHANGED vars
    BY <2>1 DEF vars, state, call, CheckInv, CheckStillHolds, kind
  <2>2. ASSUME NEW u \in Threads, NEW o \in Objects, NEW f \in BOOLEAN,
               NEW label \in {"writer", "reader"}, Begin(u, o, f, label)
        PROVE  CheckInv'
    BY <2>2, BeginFrame DEF CheckInv, CheckStillHolds, kind, state, Labels
  <2> QED
    BY <2>1, <2>2, CheckStep DEF Next, Done, Evaluate, ToJson
<1> QED
  BY <1>1, <1>2, RwInvariant, TypeCorrect, PTL DEF Spec

\* When a collection starts, the object is uncollected or the caller insists:
\* nobody collected it between the check and the start, however long the
\* thread waited for the class mutex in between.
THEOREM NeverCollectedTwice ==
  ASSUME AllGuarded
  PROVE  Spec => []CollectedOnlyOnceUnlessForced
<1>1. CheckInv => CollectedOnlyOnceUnlessForced
  BY DEF CheckInv, CheckStillHolds, CollectedOnlyOnceUnlessForced
<1> QED
  BY <1>1, CheckInvariant, PTL

-----------------------------------------------------------------------------
(* The class mutex: a command that takes it exclusively collects alone, also *)
(* after calls that ended without giving it back; and no call does that      *)
(* where nothing throws between a lock() and an unlock().                    *)

Owners  == {t \in Threads : Collecting(t) /\ kind(t).mode = "exclusive"}
Sharers == {t \in Threads : Collecting(t) /\ kind(t).mode # "exclusive"}

-----------------------------------------------------------------------------
(* What a step does to the class mutex is one of three things.               *)

TakesMutex(t) ==
  /\ \E to \in {"check", "collect"} :
       Moves(t, "lock", to) /\ (to = "check" <=> kind(t).eager)
  /\ IF kind(t).mode = "exclusive"
     THEN SM!CanLock(mutex) /\ mutex' = SM!Lock(mutex, t)
     ELSE SM!CanLockShared(mutex) /\ mutex' = SM!LockShared(mutex, t)

\* The ways out of a source that throw while the class mutex is held.
ThrowsInside(k) ==
  \/ k.eager /\ ~k.configured
  \/ k.absent = "within"
  \/ k.fails \intersect {"throws", "breaks"} # {}

GivesMutex(t) ==
  /\ Collecting(t)
  /\ \E from \in Labels, to \in {"leave", "idle"} : Moves(t, from, to)
  /\ ReleaseMutex(t) \/ (UnwindMutex(t) /\ ThrowsInside(kind(t)))

LeavesMutex(t) ==
  /\ mutex' = mutex /\ obj' = obj /\ Frame(t)
  /\ Collecting(t)' <=> Collecting(t)

LEMMA MutexMoves ==
  ASSUME TypeOK, NEW t \in Threads, Step(t) \/ Relock(t)
  PROVE  TakesMutex(t) \/ GivesMutex(t) \/ LeavesMutex(t)
<1>1. CASE LockMutex(t)
  <2>1. CASE kind(t).eager
    <3>1. Moves(t, "lock", "check")
      BY <1>1, <2>1 DEF LockMutex, Moves, Goto
    <3> QED
      BY <1>1, <2>1, <3>1 DEF LockMutex, TakesMutex
  <2>2. CASE ~kind(t).eager
    <3>1. Moves(t, "lock", "collect")
      BY <1>1, <2>2 DEF LockMutex, StartCollecting, Moves, Goto
    <3> QED
      BY <1>1, <2>2, <3>1 DEF LockMutex, TakesMutex
  <2> QED
    BY <2>1, <2>2
<1>2. CASE (Refuse(t) \/ UseCache(t)) /\ kind(t).eager
  <2>1. Moves(t, "check", "idle") /\ Collecting(t)
    BY <1>2 DEF Refuse, UseCache, End, Goto, Moves, Collecting
  <2>2. ReleaseMutex(t) \/ (UnwindMutex(t) /\ ThrowsInside(kind(t)))
    BY <1>2 DEF Refuse, UseCache, ThrowsInside
  <2> QED
    BY <2>1, <2>2 DEF GivesMutex, Labels
<1>3. CASE Finish(t) \/ FailQuietly(t)
  <2>1. Moves(t, "collect", "leave") /\ Collecting(t) /\ ReleaseMutex(t)
    BY <1>3 DEF Finish, FailQuietly, Goto, Moves, Collecting
  <2> QED
    BY <2>1 DEF GivesMutex, Labels
<1>4. CASE Throw(t)
  <2>1. Moves(t, "collect", "idle") /\ Collecting(t) /\ UnwindMutex(t)
    BY <1>4 DEF Throw, End, Goto, Moves, Collecting
  <2>2. ThrowsInside(kind(t))
    BY <1>4 DEF Throw, ThrowsInside
  <2> QED
    BY <2>1, <2>2 DEF GivesMutex, Labels
<1>5. CASE (Refuse(t) \/ UseCache(t)) /\ ~kind(t).eager
  <2>1. mutex' = mutex /\ Moves(t, "check", "idle")
    BY <1>5 DEF Refuse, UseCache, End, Goto, Moves
  <2> QED
    BY <1>5, <2>1 DEF LeavesMutex, Collecting, Moves, Frame, TypeOK
<1>6. CASE NeedsCollecting(t)
  <2>1. /\ mutex' = mutex
        /\ Moves(t, "check", IF kind(t).eager THEN "collect" ELSE "lock")
    BY <1>6 DEF NeedsCollecting, StartCollecting, Goto, Moves, locks
  <2> QED
    BY <2>1 DEF LeavesMutex, Collecting, Moves, Frame, TypeOK, kind
<1>7. CASE LockWriter(t)
  <2>1. /\ mutex' = mutex
        /\ Moves(t, "writer", IF kind(t).eager THEN "lock" ELSE "check")
    BY <1>7 DEF LockWriter, Goto, Moves
  <2> QED
    BY <2>1 DEF LeavesMutex, Collecting, Moves, Frame, TypeOK, kind
<1>8. CASE NotBuilt(t) \/ Relock(t) \/ Leave(t) \/ EndCopy(t)
  <2>1. /\ mutex' = mutex /\ obj' = obj /\ pc' = [pc EXCEPT ![t] = "idle"]
        /\ pc[t] \in {"lock", "leave", "copy"}
    BY <1>8 DEF NotBuilt, Relock, Leave, EndCopy, End, Goto
  <2> QED
    BY <2>1 DEF LeavesMutex, Collecting, Frame, TypeOK
<1>9. CASE Store(t) \/ Copy(t)
  <2>1. mutex' = mutex /\ obj' = obj /\ pc' = pc
    BY <1>9 DEF Store, Copy, locks
  <2> QED
    BY <2>1 DEF LeavesMutex, Collecting, Frame, kind
<1>10. CASE LockReader(t)
  <2>1. mutex' = mutex /\ Moves(t, "reader", "copy")
    BY <1>10 DEF LockReader, Goto, Moves
  <2> QED
    BY <2>1 DEF LeavesMutex, Collecting, Moves, Frame, TypeOK
<1> QED
  BY <1>1, <1>2, <1>3, <1>4, <1>5, <1>6, <1>7, <1>8, <1>9, <1>10 DEF Step

\* Who has to have it changes by at most the thread that moves.
LEMMA WhoTakes ==
  ASSUME TypeOK, NEW t \in Threads, TakesMutex(t)
  PROVE  /\ kind(t).mode = "exclusive" =>
              Owners' = Owners \union {t} /\ Sharers' = Sharers
         /\ kind(t).mode # "exclusive" =>
              /\ Owners' = Owners
              /\ Sharers' = Sharers \union {t} /\ t \notin Sharers
<1>1. PICK to \in {"check", "collect"} :
        Moves(t, "lock", to) /\ (to = "check" <=> kind(t).eager)
  BY DEF TakesMutex
<1> QED
  BY <1>1 DEF Owners, Sharers, Collecting, Moves, kind, TypeOK

LEMMA WhoGives ==
  ASSUME TypeOK, NEW t \in Threads, GivesMutex(t)
  PROVE  /\ Owners' = Owners \ {t} /\ Sharers' = Sharers \ {t}
         /\ kind(t).mode = "exclusive" => t \notin Sharers
         /\ kind(t).mode # "exclusive" => t \notin Owners
<1>1. PICK from \in Labels, to \in {"leave", "idle"} : Moves(t, from, to)
  BY DEF GivesMutex
<1> QED
  BY <1>1 DEF GivesMutex, Owners, Sharers, Collecting, Moves, kind, TypeOK

LEMMA WhoStays ==
  ASSUME TypeOK, NEW t \in Threads, LeavesMutex(t)
  PROVE  Owners' = Owners /\ Sharers' = Sharers
  BY DEF LeavesMutex, Owners, Sharers, Collecting, Frame, kind

LEMMA WhoBegins ==
  ASSUME TypeOK, NEW t \in Threads, NEW o \in Objects,
         NEW f \in BOOLEAN, NEW label \in {"writer", "reader"},
         Begin(t, o, f, label)
  PROVE  Owners' = Owners /\ Sharers' = Sharers /\ mutex' = mutex
  BY DEF Owners, Sharers, Collecting, Begin, Goto, kind, TypeOK, locks

-----------------------------------------------------------------------------
(* Whoever collects holds the mutex; others may hold it as well.             *)

MutexInv == Covers(mutex, Owners, Sharers)

LEMMA MutexKept ==
  ASSUME MutexInv, mutex' = mutex, Owners' \subseteq Owners,
         Sharers' \subseteq Sharers
  PROVE  MutexInv'
  BY DEF MutexInv, Covers, AtMostOneSide

LEMMA MutexStep ==
  ASSUME TypeOK, MutexInv, NEW t \in Threads, Step(t) \/ Relock(t)
  PROVE  MutexInv'
<1>1. Covers(mutex, Owners, Sharers) /\ Owners \in SUBSET Threads
      /\ Sharers \in SUBSET Threads
  BY DEF MutexInv, Owners, Sharers
<1> SUFFICES Covers(mutex', Owners', Sharers')
  BY DEF MutexInv, Covers, AtMostOneSide
<1>2. CASE TakesMutex(t) /\ kind(t).mode = "exclusive"
  BY <1>1, <1>2, WhoTakes, CoversLock DEF TakesMutex
<1>3. CASE TakesMutex(t) /\ kind(t).mode # "exclusive"
  BY <1>1, <1>3, WhoTakes, CoversLockShared DEF TakesMutex
<1>4. CASE GivesMutex(t)
  <2>1. Owners' = Owners \ {t} /\ Sharers' = Sharers \ {t}
    BY <1>4, WhoGives
  <2>2. CASE mutex' = mutex
    BY <1>1, <2>1, <2>2 DEF Covers
  <2>3. CASE mutex' = SM!Unlock(mutex, t) /\ kind(t).mode = "exclusive"
    <3>1. Sharers' = Sharers
      BY <1>4, <2>1, <2>3, WhoGives
    <3> QED
      BY <1>1, <2>1, <2>3, <3>1, CoversUnlock
  <2>4. CASE mutex' = SM!UnlockShared(mutex, t) /\ kind(t).mode # "exclusive"
    <3>1. Owners' = Owners
      BY <1>4, <2>1, <2>4, WhoGives
    <3> QED
      BY <1>1, <2>1, <2>4, <3>1, CoversUnlockShared
  <2> QED
    BY <1>4, <2>2, <2>3, <2>4 DEF GivesMutex, ReleaseMutex, UnwindMutex
<1>5. CASE LeavesMutex(t)
  BY <1>1, <1>5, WhoStays DEF LeavesMutex
<1> QED
  BY <1>2, <1>3, <1>4, <1>5, MutexMoves

LEMMA MutexInvariant == Spec => []MutexInv
<1>1. Init => MutexInv
  <2>1. Init => Owners = {} /\ Sharers = {} /\ mutex = SM!Unlocked
    BY DEF Init, Owners, Sharers, Collecting
  <2> QED
    BY <2>1 DEF MutexInv, Covers, AtMostOneSide, SM!Unlocked, SM!SharedMutex
<1>2. TypeOK /\ MutexInv /\ [Next]_vars => MutexInv'
  <2> SUFFICES ASSUME TypeOK, MutexInv, [Next]_vars PROVE MutexInv'
    OBVIOUS
  <2>1. CASE UNCHANGED vars
    <3>1. Owners' = Owners /\ Sharers' = Sharers /\ mutex' = mutex
      BY <2>1 DEF vars, locks, call, Owners, Sharers, Collecting, kind
    <3> QED
      BY <3>1, MutexKept
  <2> QED
    BY <2>1, WhoBegins, MutexKept, MutexStep DEF Next, Done, Evaluate, ToJson
<1> QED
  BY <1>1, <1>2, TypeCorrect, PTL DEF Spec

FlagChoosesMode ==
  \A o \in Objects : Kind[o].exclusive => Kind[o].mode = "exclusive"

\* Where every source whose "exclusive" flag is set locks the class mutex
\* exclusively (remote_shell_command does not), it collects while no other
\* thread collects anything.
THEOREM ExclusiveAlwaysAlone ==
  ASSUME FlagChoosesMode
  PROVE  Spec => []ExclusiveRunsAlone
<1>1. TypeOK /\ MutexInv => ExclusiveRunsAlone
  <2> SUFFICES ASSUME TypeOK, MutexInv, NEW t \in Threads, NEW u \in Threads,
                      t # u, Collecting(t), kind(t).exclusive, Collecting(u)
               PROVE  FALSE
    BY DEF ExclusiveRunsAlone
  <2>1. t \in Owners
    BY DEF Owners, FlagChoosesMode, kind, TypeOK
  <2>2. u \in Owners \/ u \in Sharers
    BY DEF Owners, Sharers
  <2> QED
    BY <2>1, <2>2 DEF MutexInv, Covers, AtMostOneSide
<1> QED
  BY <1>1, MutexInvariant, TypeCorrect, PTL

-----------------------------------------------------------------------------
(* Nobody else holds it, where no exception leaves it locked.                *)

GivesBack ==
  \A o \in Objects : Kind[o].scoped \/ ~ThrowsInside(Kind[o])

MutexExact == Held(mutex, Owners, Sharers)

LEMMA MutexExactStep ==
  ASSUME GivesBack, TypeOK, MutexExact, NEW t \in Threads,
         Step(t) \/ Relock(t)
  PROVE  MutexExact'
<1>1. Held(mutex, Owners, Sharers)
  BY DEF MutexExact
<1> SUFFICES Held(mutex', Owners', Sharers')
  BY DEF MutexExact, Held, AtMostOneSide
<1>2. CASE TakesMutex(t) /\ kind(t).mode = "exclusive"
  BY <1>1, <1>2, WhoTakes, HeldLock DEF TakesMutex
<1>3. CASE TakesMutex(t) /\ kind(t).mode # "exclusive"
  BY <1>1, <1>3, WhoTakes, HeldLockShared DEF TakesMutex
<1>4. CASE GivesMutex(t)
  <2>1. Owners' = Owners \ {t} /\ Sharers' = Sharers \ {t}
    BY <1>4, WhoGives
  <2>2. ReleaseMutex(t)
    BY <1>4 DEF GivesMutex, UnwindMutex, GivesBack, kind, TypeOK
  <2>3. CASE kind(t).mode = "exclusive"
    <3>1. Sharers' = Sharers /\ mutex' = SM!Unlock(mutex, t)
      BY <1>4, <2>1, <2>2, <2>3, WhoGives DEF ReleaseMutex
    <3> QED
      BY <1>1, <2>1, <3>1, HeldUnlock
  <2>4. CASE kind(t).mode # "exclusive"
    <3>1. Owners' = Owners /\ mutex' = SM!UnlockShared(mutex, t)
      BY <1>4, <2>1, <2>2, <2>4, WhoGives DEF ReleaseMutex
    <3> QED
      BY <1>1, <2>1, <3>1, HeldUnlockShared
  <2> QED
    BY <2>3, <2>4
<1>5. CASE LeavesMutex(t)
  BY <1>1, <1>5, WhoStays DEF LeavesMutex
<1> QED
  BY <1>2, <1>3, <1>4, <1>5, MutexMoves

LEMMA MutexExactInvariant ==
  ASSUME GivesBack
  PROVE  Spec => []MutexExact
<1>1. Init => MutexExact
  <2>1. Init => Owners = {} /\ Sharers = {} /\ mutex = SM!Unlocked
    BY DEF Init, Owners, Sharers, Collecting
  <2> QED
    BY <2>1, HeldFree DEF MutexExact
<1>2. TypeOK /\ MutexExact /\ [Next]_vars => MutexExact'
  <2> SUFFICES ASSUME TypeOK, MutexExact, [Next]_vars PROVE MutexExact'
    OBVIOUS
  <2>1. ASSUME mutex' = mutex, Owners' = Owners, Sharers' = Sharers
        PROVE  MutexExact'
    BY <2>1 DEF MutexExact, Held, AtMostOneSide
  <2>2. CASE UNCHANGED vars
    <3>1. Owners' = Owners /\ Sharers' = Sharers /\ mutex' = mutex
      BY <2>2 DEF vars, locks, call, Owners, Sharers, Collecting, kind
    <3> QED
      BY <2>1, <3>1
  <2> QED
    BY <2>1, <2>2, WhoBegins, MutexExactStep DEF Next, Done, Evaluate, ToJson
<1> QED
  BY <1>1, <1>2, TypeCorrect, PTL DEF Spec

\* A call never ends with the class mutex in hand, where every source either
\* holds it by a guard object or has no way to throw while it holds it.  The
\* commands lock it by hand; what breaks them is a build that has none of
\* them, whose exception comes out of popen3 between lock() and unlock().
THEOREM ClassMutexAlwaysGivenBack ==
  ASSUME GivesBack
  PROVE  Spec => []ClassMutexGivenBack
<1>1. MutexExact => ClassMutexGivenBack
  BY DEF MutexExact, ClassMutexGivenBack, Held, Owners, Sharers, Collecting
<1> QED
  BY <1>1, MutexExactInvariant, PTL
=============================================================================
