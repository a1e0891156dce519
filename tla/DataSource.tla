----------------------------- MODULE DataSource -----------------------------
(***************************************************************************)
(* The protocol every wassail data source follows, run by any number of    *)
(* threads on any number of source objects.                                *)
(*                                                                         *)
(* evaluate(force) collects the data once and caches it; to_json copies    *)
(* the cache out.  Two locks are involved: each object's rw_mutex keeps    *)
(* its readers apart from its writer, and one mutex shared by all objects  *)
(* of all sources lets a command marked exclusive run alone.               *)
(*                                                                         *)
(* What differs between the sources (see Sources.tla) is the constant      *)
(* Kind.  Data is abstracted to NumParts parts; a part holds the numbers   *)
(* of the collections whose results are in it: <<g>> after an overwrite    *)
(* by collection g, <<f, g>> when g was pushed behind f, <<>> when the     *)
(* part still has its default.  A number of 0 stands for data that was     *)
(* read from JSON when the object was made.                                *)
(***************************************************************************)
EXTENDS Naturals, Sequences, Sources

CONSTANTS
  Threads,    \* the program's threads
  Objects,    \* the data source objects they share
  Kind,       \* Objects -> SourceKind
  NumParts,   \* steps in which a collection writes, and to_json reads, data
  MaxCalls    \* bound: calls each thread makes

ASSUME KindAssumption  == Objects # {} /\ Kind \in [Objects -> SourceKind]
ASSUME BoundAssumption == NumParts \in Nat \ {0} /\ MaxCalls \in Nat

VARIABLES
  rw_mutex,   \* per object: impl::rw_mutex
  mutex,      \* common::mutex, shared by every object
  collected,  \* per object: common::collected_
  data,       \* per object: impl::data
  collections,\* number of collections started so far
  pc, obj, force, part, gen,  \* per thread: where its current call stands
  copy,       \* per thread: the JSON being built
  outcome,    \* per thread: how its last call ended
  calls       \* per thread: calls made

locks == <<rw_mutex, mutex>>
state == <<collected, data, collections>>
call  == <<pc, obj, force, part, gen, copy, outcome, calls>>
vars  == <<locks, state, call>>

SM == INSTANCE SharedMutex

Parts  == 1 .. NumParts
NoData == [p \in Parts |-> <<>>]
kind(t) == Kind[obj[t]]

Labels == {"idle", "writer", "check", "lock", "collect", "leave",
           "reader", "copy"}
Outcomes == {"none", "returned", "threw", "json"}

Goto(t, label) == pc' = [pc EXCEPT ![t] = label]

-----------------------------------------------------------------------------
(* Giving the locks back.                                                    *)

\* t's call ends, by returning or by an exception.
End(t, how) ==
  /\ Goto(t, "idle")
  /\ outcome' = [outcome EXCEPT ![t] = how]
  /\ force' = [force EXCEPT ![t] = FALSE]
  /\ part'  = [part EXCEPT ![t] = 0]
  /\ gen'   = [gen EXCEPT ![t] = 0]
  /\ UNCHANGED <<obj, copy, calls>>

\* The destructor of "writer", for the sources that have one.
ReleaseWriter(t) ==
  rw_mutex' = IF kind(t).guarded
              THEN [rw_mutex EXCEPT ![obj[t]] = SM!Unlock(@, t)]
              ELSE rw_mutex

ReleaseMutex(t) ==
  mutex' = IF kind(t).mode = "exclusive" THEN SM!Unlock(mutex, t)
                                         ELSE SM!UnlockShared(mutex, t)

\* An exception gives the class mutex back only where it is held by a guard
\* object; popen3 runs between a lock() and an unlock() call.
UnwindMutex(t) == IF kind(t).scoped THEN ReleaseMutex(t) ELSE mutex' = mutex

-----------------------------------------------------------------------------
(* evaluate                                                                  *)

Begin(t, o, f, label) ==
  /\ pc[t] = "idle"
  /\ calls[t] < MaxCalls
  /\ Goto(t, label)
  /\ calls'   = [calls EXCEPT ![t] = @ + 1]
  /\ obj'     = [obj EXCEPT ![t] = o]
  /\ force'   = [force EXCEPT ![t] = f]
  /\ copy'    = [copy EXCEPT ![t] = NoData]
  /\ outcome' = [outcome EXCEPT ![t] = "none"]
  /\ UNCHANGED <<part, gen, locks, state>>

Evaluate(t, o, f) == Begin(t, o, f, "writer")

\* Wrong: a shared_lock where the code has a unique_lock.
LockWriterShared(t) ==
  /\ pc[t] = "writer"
  /\ SM!CanLockShared(rw_mutex[obj[t]])
  /\ rw_mutex' = [rw_mutex EXCEPT ![obj[t]] = SM!LockShared(@, t)]
  /\ Goto(t, IF kind(t).eager THEN "lock" ELSE "check")
  /\ UNCHANGED <<mutex, state, obj, force, part, gen, copy, outcome, calls>>

\* unique_lock writer(d.pimpl->rw_mutex), then on to the first decision.
LockWriter(t) ==
  /\ pc[t] = "writer"
  /\ IF kind(t).guarded
     THEN /\ SM!CanLock(rw_mutex[obj[t]])
          /\ rw_mutex' = [rw_mutex EXCEPT ![obj[t]] = SM!Lock(@, t)]
     ELSE rw_mutex' = rw_mutex
  /\ Goto(t, IF kind(t).eager THEN "lock" ELSE "check")
  /\ UNCHANGED <<mutex, state, obj, force, part, gen, copy, outcome, calls>>

\* Wrong: locked and unlocked by hand, and forgotten when nothing is configured.
RefuseKeepingMutex(t) ==
  /\ pc[t] = "check"
  /\ ~kind(t).configured
  /\ ReleaseWriter(t)
  /\ End(t, "threw")
  /\ UNCHANGED <<mutex, state>>

\* if (d.command.empty()) throw: by then an eager source has the class mutex.
Refuse(t) ==
  /\ pc[t] = "check"
  /\ ~kind(t).configured
  /\ IF kind(t).eager THEN UnwindMutex(t) ELSE mutex' = mutex
  /\ ReleaseWriter(t)
  /\ End(t, "threw")
  /\ UNCHANGED state

\* Nothing to do: the data is cached and the call does not insist.
UseCache(t) ==
  /\ pc[t] = "check"
  /\ kind(t).configured
  /\ collected[obj[t]] /\ ~force[t]
  /\ IF kind(t).eager THEN ReleaseMutex(t) ELSE mutex' = mutex
  /\ ReleaseWriter(t)
  /\ End(t, "returned")
  /\ UNCHANGED state

StartCollecting(t) ==
  /\ Goto(t, "collect")
  /\ part' = [part EXCEPT ![t] = 1]
  /\ gen'  = [gen EXCEPT ![t] = collections + 1]
  /\ collections' = collections + 1
  /\ UNCHANGED <<obj, force, copy, outcome, calls, collected, data>>

\* if (force or not d.collected())
NeedsCollecting(t) ==
  /\ pc[t] = "check"
  /\ kind(t).configured
  /\ force[t] \/ ~collected[obj[t]]
  /\ IF kind(t).eager
     THEN StartCollecting(t)
     ELSE /\ Goto(t, "lock")
          /\ UNCHANGED <<state, obj, force, part, gen, copy, outcome, calls>>
  /\ UNCHANGED locks

\* The #else branch: throw std::runtime_error("... is not available").
NotBuilt(t) ==
  /\ pc[t] = "lock"
  /\ kind(t).absent = "before"
  /\ ReleaseWriter(t)
  /\ End(t, "threw")
  /\ UNCHANGED <<mutex, state>>

\* Wrong: every source shares the class mutex, the exclusive commands too.
LockMutexShared(t) ==
  /\ pc[t] = "lock"
  /\ kind(t).absent # "before"
  /\ mutex' = SM!LockShared(mutex, t)
  /\ IF kind(t).eager
     THEN /\ Goto(t, "check")
          /\ UNCHANGED <<state, obj, force, part, gen, copy, outcome, calls>>
     ELSE StartCollecting(t)
  /\ UNCHANGED rw_mutex

\* shared_lock lock(d.mutex), or the lock()/lock_shared() of a command.
LockMutex(t) ==
  /\ pc[t] = "lock"
  /\ kind(t).absent # "before"
  /\ IF kind(t).mode = "exclusive"
     THEN SM!CanLock(mutex) /\ mutex' = SM!Lock(mutex, t)
     ELSE SM!CanLockShared(mutex) /\ mutex' = SM!LockShared(mutex, t)
  /\ IF kind(t).eager
     THEN /\ Goto(t, "check")
          /\ UNCHANGED <<state, obj, force, part, gen, copy, outcome, calls>>
     ELSE StartCollecting(t)
  /\ UNCHANGED rw_mutex

\* The thread itself still owns the mutex exclusively, from a call that threw:
\* undefined by the standard.  This build's pthread_rwlock answers EDEADLK,
\* which libstdc++ throws; the lock may as well never be granted (no fairness
\* is assumed of this action).
Relock(t) ==
  /\ pc[t] = "lock"
  /\ kind(t).absent # "before"
  /\ t \in mutex.owner
  /\ ReleaseWriter(t)
  /\ End(t, "threw")
  /\ UNCHANGED <<mutex, state>>

\* Wrong: what is collected is put behind what is there, in every source.
StoreAppending(t) ==
  /\ pc[t] = "collect"
  /\ kind(t).absent # "within"
  /\ part[t] \in Parts
  /\ data' = [data EXCEPT ![obj[t]][part[t]] = Append(@, gen[t])]
  /\ part' = [part EXCEPT ![t] = @ + 1]
  /\ UNCHANGED <<locks, collected, collections,
                 pc, obj, force, gen, copy, outcome, calls>>

\* One system call, list entry or field.
Store(t) ==
  /\ pc[t] = "collect"
  /\ kind(t).absent # "within"
  /\ part[t] \in Parts
  /\ \E reported \in IF kind(t).skips THEN BOOLEAN ELSE {TRUE} :
       /\ data' = IF ~reported THEN data
                  ELSE [data EXCEPT ![obj[t]][part[t]] =
                          IF kind(t).store = "append" THEN Append(@, gen[t])
                                                      ELSE <<gen[t]>>]
       /\ collected' = [collected EXCEPT ![obj[t]] =
            \/ @
            \/ kind(t).marks = "around"
            \/ (kind(t).marks = "first" /\ part[t] = 1 /\ reported)]
  /\ part' = [part EXCEPT ![t] = @ + 1]
  /\ UNCHANGED <<locks, collections, pc, obj, force, gen, copy, outcome, calls>>

\* Wrong: evaluate_common before the last part is there.
FinishEarly(t) ==
  /\ pc[t] = "collect"
  /\ kind(t).absent # "within"
  /\ collected' = [collected EXCEPT ![obj[t]] = TRUE]
  /\ ReleaseMutex(t)
  /\ Goto(t, "leave")
  /\ UNCHANGED <<rw_mutex, data, collections,
                 obj, force, part, gen, copy, outcome, calls>>

\* evaluate_common, and the class mutex is given back (a command does it the
\* other way round; its rw_mutex hides the difference).  A command whose popen3
\* came back early with -1, or a mount table that could not be read to its
\* end, gets here too: nothing looks at the failure.
Finish(t) ==
  /\ pc[t] = "collect"
  /\ kind(t).absent # "within"
  /\ part[t] \in Parts => "stopped" \in kind(t).fails
  /\ collected' = [collected EXCEPT ![obj[t]] = @ \/ kind(t).marks # "first"]
  /\ ReleaseMutex(t)
  /\ Goto(t, "leave")
  /\ UNCHANGED <<rw_mutex, data, collections,
                 obj, force, part, gen, copy, outcome, calls>>

\* The error is logged and evaluate returns without collecting anything.
FailQuietly(t) ==
  /\ pc[t] = "collect"
  /\ part[t] = 1
  /\ "quiet" \in kind(t).fails
  /\ ReleaseMutex(t)
  /\ Goto(t, "leave")
  /\ UNCHANGED <<rw_mutex, state, obj, force, part, gen, copy, outcome, calls>>

\* Wrong: the exception leaves the object locked.
ThrowKeepingWriter(t) ==
  /\ pc[t] = "collect"
  /\ \/ kind(t).absent = "within"
     \/ "throws" \in kind(t).fails /\ part[t] = 1
     \/ "breaks" \in kind(t).fails /\ part[t] \in Parts \ {1}
  /\ UnwindMutex(t)
  /\ End(t, "threw")
  /\ UNCHANGED <<rw_mutex, state>>

Throw(t) ==
  /\ pc[t] = "collect"
  /\ \/ kind(t).absent = "within"
     \/ "throws" \in kind(t).fails /\ part[t] = 1
     \/ "breaks" \in kind(t).fails /\ part[t] \in Parts \ {1}
  /\ UnwindMutex(t)
  /\ ReleaseWriter(t)
  /\ End(t, "threw")
  /\ UNCHANGED state

Leave(t) ==
  /\ pc[t] = "leave"
  /\ ReleaseWriter(t)
  /\ End(t, "returned")
  /\ UNCHANGED <<mutex, state>>

-----------------------------------------------------------------------------
(* to_json                                                                   *)

ToJson(t, o) == Begin(t, o, FALSE, "reader")

\* Wrong: to_json without its reader lock.
LockReaderNot(t) ==
  /\ pc[t] = "reader"
  /\ Goto(t, "copy")
  /\ part' = [part EXCEPT ![t] = 1]
  /\ UNCHANGED <<locks, state, obj, force, gen, copy, outcome, calls>>

\* shared_lock reader(d.pimpl->rw_mutex): every source takes this one.
LockReader(t) ==
  /\ pc[t] = "reader"
  /\ SM!CanLockShared(rw_mutex[obj[t]])
  /\ rw_mutex' = [rw_mutex EXCEPT ![obj[t]] = SM!LockShared(@, t)]
  /\ Goto(t, "copy")
  /\ part' = [part EXCEPT ![t] = 1]
  /\ UNCHANGED <<mutex, state, obj, force, gen, copy, outcome, calls>>

\* Wrong: the loop runs once too often, or never moves on.
CopyOnePast(t) ==
  /\ pc[t] = "copy"
  /\ part[t] \in 1 .. NumParts + 1
  /\ part' = [part EXCEPT ![t] = @ + 1]
  /\ UNCHANGED <<locks, state, pc, obj, force, gen, copy, outcome, calls>>

CopyInPlace(t) ==
  /\ pc[t] = "copy"
  /\ part[t] \in Parts
  /\ copy' = [copy EXCEPT ![t][part[t]] = data[obj[t]][part[t]]]
  /\ UNCHANGED <<locks, state, pc, obj, force, part, gen, outcome, calls>>

Copy(t) ==
  /\ pc[t] = "copy"
  /\ part[t] \in Parts
  /\ copy' = [copy EXCEPT ![t][part[t]] = data[obj[t]][part[t]]]
  /\ part' = [part EXCEPT ![t] = @ + 1]
  /\ UNCHANGED <<locks, state, pc, obj, force, gen, outcome, calls>>

EndCopy(t) ==
  /\ pc[t] = "copy"
  /\ part[t] \notin Parts
  /\ rw_mutex' = [rw_mutex EXCEPT ![obj[t]] = SM!UnlockShared(@, t)]
  /\ End(t, "json")
  /\ UNCHANGED <<mutex, state>>

-----------------------------------------------------------------------------
(* An object is made empty, or from JSON.  JSON that has a "data" member     *)
(* makes it collected, whatever the member holds: every to_json writes one,  *)
(* also for a source nobody has evaluated yet.                               *)

FromJson == [p \in Parts |-> <<0>>]

Made(o) ==
  \/ collected[o] = FALSE /\ data[o] = NoData
  \/ collected[o] = TRUE /\ data[o] \in {NoData, FromJson}

Init ==
  /\ rw_mutex = [o \in Objects |-> SM!Unlocked]
  /\ mutex = SM!Unlocked
  /\ collected \in [Objects -> BOOLEAN]
  /\ data \in [Objects -> {NoData, FromJson}]
  /\ \A o \in Objects : Made(o)
  /\ collections = 0
  /\ pc    = [t \in Threads |-> "idle"]
  /\ obj   = [t \in Threads |-> CHOOSE o \in Objects : TRUE]
  /\ force = [t \in Threads |-> FALSE]
  /\ part  = [t \in Threads |-> 0]
  /\ gen   = [t \in Threads |-> 0]
  /\ copy  = [t \in Threads |-> NoData]
  /\ outcome = [t \in Threads |-> "none"]
  /\ calls = [t \in Threads |-> 0]

\* What a call does once it is made.
Step(t) ==
  \/ LockWriter(t) \/ Refuse(t) \/ UseCache(t) \/ NeedsCollecting(t)
  \/ NotBuilt(t) \/ LockMutex(t)
  \/ Store(t) \/ Finish(t) \/ FailQuietly(t) \/ Throw(t) \/ Leave(t)
  \/ LockReader(t) \/ Copy(t) \/ EndCopy(t)

\* All calls are made and have ended.
Done ==
  /\ \A t \in Threads : pc[t] = "idle" /\ calls[t] = MaxCalls
  /\ UNCHANGED vars

Next ==
  \/ \E t \in Threads :
       \/ \E o \in Objects, f \in BOOLEAN : Evaluate(t, o, f)
       \/ \E o \in Objects : ToJson(t, o)
       \/ Step(t)
       \/ Relock(t)
  \/ Done

Spec == Init /\ [][Next]_vars

\* A thread that can go on does.  The mutex promises no order among those who
\* wait for it, so weak fairness is all a call gets.
FairSpec == Spec /\ \A t \in Threads : WF_vars(Step(t))

-----------------------------------------------------------------------------
(* Properties                                                                *)

TypeOK ==
  /\ rw_mutex \in [Objects -> SM!SharedMutex]
  /\ mutex \in SM!SharedMutex
  /\ collected \in [Objects -> BOOLEAN]
  /\ data \in [Objects -> [Parts -> Seq(Nat)]]
  /\ collections \in Nat
  /\ pc \in [Threads -> Labels]
  /\ obj \in [Threads -> Objects]
  /\ force \in [Threads -> BOOLEAN]
  /\ part \in [Threads -> 0 .. NumParts + 1]
  /\ gen \in [Threads -> Nat]
  /\ copy \in [Threads -> [Parts -> Seq(Nat)]]
  /\ outcome \in [Threads -> Outcomes]
  /\ calls \in [Threads -> 0 .. MaxCalls]

\* Between the constructor and the destructor of "writer".
Evaluating(t) == pc[t] \in {"check", "lock", "collect", "leave"}
Reading(t) == pc[t] = "copy"

\* Holding the class mutex.
Collecting(t) == pc[t] = "collect" \/ (pc[t] = "check" /\ kind(t).eager)

\* The json cast blocks while the same object is being evaluated, and two
\* evaluations of one object never overlap: what rw_mutex is for.
ReaderBlocksDuringEvaluate ==
  \A t, u \in Threads :
    t # u /\ obj[t] = obj[u] /\ Evaluating(t) => ~Evaluating(u) /\ ~Reading(u)

\* A command whose "exclusive" flag is set runs while no other thread collects
\* anything, from any object of any source.
ExclusiveRunsAlone ==
  \A t, u \in Threads :
    t # u /\ Collecting(t) /\ kind(t).exclusive => ~Collecting(u)

\* The JSON being built never mixes two states of the cache: every part copied
\* so far is still what the object holds, so the finished copy is the data of
\* one instant.
JsonIsOneInstant ==
  \A t \in Threads : Reading(t) =>
    \A p \in Parts : p < part[t] => copy[t][p] = data[obj[t]][p]

\* The cached check is not stale when the collection it led to starts: an
\* object that is already collected is collected again only by force.
CollectedOnlyOnceUnlessForced ==
  \A t \in Threads : pc[t] = "collect" /\ part[t] = 1 =>
    force[t] \/ ~collected[obj[t]]

\* A call that has ended, in whatever way, has given back the object's
\* rw_mutex: the reader and writer guards see to it.
RwMutexGivenBack ==
  \A t \in Threads : pc[t] = "idle" =>
    \A o \in Objects :
      t \notin rw_mutex[o].owner /\ rw_mutex[o].shares[t] = 0

\* The same of the class mutex, which the commands lock and unlock by hand.
ClassMutexGivenBack ==
  \A t \in Threads : pc[t] = "idle" =>
    t \notin mutex.owner /\ mutex.shares[t] = 0

\* The data of a forced evaluation that ran to its end replaces what was
\* cached before it.
ForcedReplacesCache ==
  \A t \in Threads : pc[t] = "leave" /\ force[t] /\ part[t] \notin Parts =>
    \A p \in Parts : data[obj[t]][p] = <<gen[t]>>

\* Every call ends: none waits for ever for a lock.
EveryCallEnds == \A t \in Threads : pc[t] # "idle" ~> pc[t] = "idle"
=============================================================================
