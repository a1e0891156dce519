----------------------------- MODULE SharedMutex -----------------------------
(***************************************************************************)
(* std::shared_timed_mutex, the only lock the data sources use: one        *)
(* exclusive owner, or any number of shared ones.  Shared ownership is     *)
(* counted per thread, because a thread may take it again after a call of  *)
(* its own left without giving it back.  Nothing is assumed about the      *)
(* order in which waiting threads are served.                              *)
(***************************************************************************)
EXTENDS Naturals

CONSTANT Threads

SharedMutex == [owner : SUBSET Threads, shares : [Threads -> Nat]]

Unlocked == [owner |-> {}, shares |-> [t \in Threads |-> 0]]

NoShares(m) == \A t \in Threads : m.shares[t] = 0

CanLock(m) == m.owner = {} /\ NoShares(m)

CanLockShared(m) == m.owner = {}

Lock(m, t) == [m EXCEPT !.owner = {t}]

LockShared(m, t) == [m EXCEPT !.shares[t] = @ + 1]

Unlock(m, t) == [m EXCEPT !.owner = @ \ {t}]

UnlockShared(m, t) == [m EXCEPT !.shares[t] = IF @ > 0 THEN @ - 1 ELSE 0]
=============================================================================
