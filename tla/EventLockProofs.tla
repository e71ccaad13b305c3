-------------------------- MODULE EventLockProofs --------------------------
(* Proofs about EventLock, for any number of Event objects, any timeout and  *)
(* both back ends.                                                           *)
EXTENDS EventLock, TLAPS

-----------------------------------------------------------------------------
(* The inductive invariant.  A holder's row or key is as old as the holder's *)
(* own date says, so it cannot expire before the holder's timeout.  What a   *)
(* swapping client saw is either replaced by now or still expired.  Tokens   *)
(* are never shared.                                                         *)

HolderInv ==
    \A c \in Client :
        pc[c] = "in" /\ age[c] < LockTimeout
            => store.token = own[c] /\ store.age <= age[c]

InOwns == \A c \in Client : pc[c] = "in" => own[c] # None

SwapSaw == \A c \in Client : pc[c] = "swap" => seen[c] # None

SeenExpired ==
    \A c \in Client :
        seen[c] # None /\ store.token = seen[c] => store.age > LockTimeout

OwnUnique ==
    \A c, d \in Client : own[c] # None /\ own[c] = own[d] => c = d

IInv == TypeOK /\ HolderInv /\ InOwns /\ SwapSaw /\ SeenExpired /\ OwnUnique

\* Every step of the lock, of its clients and of the clock keeps IInv.
LEMMA IInvStep == IInv /\ [Next]_vars => IInv'
<1> SUFFICES ASSUME IInv, [Next]_vars PROVE IInv'
  OBVIOUS
<1> USE NoneAssumption, TimeoutAssumption, RetriesAssumption, PatienceAssumption, BackendAssumption
<1> USE DEF IInv, TypeOK, HolderInv, InOwns, SwapSaw, SeenExpired, OwnUnique, Stale, Free
<1>1. CASE UNCHANGED vars
  BY <1>1 DEF vars
<1>2. CASE Tick
  BY <1>2 DEF Tick, Older
<1>3. ASSUME NEW c \in Client, CallAlreadySet(c) PROVE IInv'
  BY <1>3 DEF CallAlreadySet
<1>4. ASSUME NEW c \in Client, Call(c) PROVE IInv'
  BY <1>4 DEF Call
<1>5. ASSUME NEW c \in Client, RedisAcquire(c) PROVE IInv'
  BY <1>5 DEF RedisAcquire, Enter, KeyGone, NewToken, InUse
<1>6. ASSUME NEW c \in Client, RedisMiss(c) PROVE IInv'
  BY <1>6 DEF RedisMiss, Missed, AgainInRound, RoundOver
<1>7. ASSUME NEW c \in Client, RedisAcquireError(c) PROVE IInv'
  BY <1>7 DEF RedisAcquireError, KeyGone, NewToken, InUse
<1>8. ASSUME NEW c \in Client, DbCreate(c) PROVE IInv'
  BY <1>8 DEF DbCreate, Enter, NewToken, InUse
<1>9. ASSUME NEW c \in Client, DbReadExpired(c) PROVE IInv'
  BY <1>9 DEF DbReadExpired, RowExpired
<1>10. ASSUME NEW c \in Client, DbMiss(c) PROVE IInv'
  BY <1>10 DEF DbMiss, Missed, AgainInRound, RoundOver
<1>11. ASSUME NEW c \in Client, DbSwap(c) PROVE IInv'
  <2>1. CASE store.token # seen[c]
    BY <1>11, <2>1 DEF DbSwap, Missed, AgainInRound, RoundOver
  <2>2. CASE store.token = seen[c]
    <3>1. PICK t \in NewToken : Enter(c, t)
      BY <1>11, <2>2 DEF DbSwap
    <3>2. store.age > LockTimeout
      BY <1>11, <2>2 DEF DbSwap
    <3>3. /\ store' = [token |-> t, age |-> age[c]] /\ age' = age /\ tries' = tries
          /\ left' = [left EXCEPT ![c] = None]
      BY <1>11, <2>2, <3>1 DEF DbSwap, Enter
    <3>4. t \in Token /\ \A d \in Client : own[d] # t /\ seen[d] # t
      BY DEF NewToken, InUse
    <3> QED
      BY <1>11, <2>2, <3>1, <3>2, <3>3, <3>4 DEF DbSwap, Enter
  <2> QED
    BY <2>1, <2>2
<1>12. ASSUME NEW c \in Client, ReleaseOwned(c) PROVE IInv'
  BY <1>12 DEF ReleaseOwned, Inside, Owned
<1>13. ASSUME NEW c \in Client, ReleaseLost(c) PROVE IInv'
  BY <1>13 DEF ReleaseLost, Inside
<1>14. ASSUME NEW c \in Client, ReleaseError(c) PROVE IInv'
  BY <1>14 DEF ReleaseError, Inside, Owned
<1>15. ASSUME NEW c \in Client, Reload(c) PROVE IInv'
  BY <1>15 DEF Reload
<1>16. QED
  BY <1>1, <1>2, <1>3, <1>4, <1>5, <1>6, <1>7, <1>8, <1>9, <1>10, <1>11, <1>12,
     <1>13, <1>14, <1>15 DEF Next, Acquire, Release

\* IInv holds in every reachable state.
THEOREM Invariance == Spec => []IInv
<1>1. Init => IInv
  BY NoneAssumption, TimeoutAssumption, RetriesAssumption, PatienceAssumption,
     BackendAssumption DEF Init, IInv, TypeOK, HolderInv, InOwns, SwapSaw, SeenExpired, OwnUnique, Stale, Free
<1> QED
  BY <1>1, IInvStep, PTL DEF Spec

-----------------------------------------------------------------------------

\* The variables of locking.py keep their types.
THEOREM TypeCorrect == Spec => []TypeOK
<1>1. IInv => TypeOK
  BY DEF IInv
<1> QED
  BY <1>1, Invariance, PTL

\* A client that acquired the lock owns the row or key until its timeout.
THEOREM HolderKeeps == Spec => []HolderKeepsLock
<1>1. IInv => HolderKeepsLock
  BY DEF IInv, HolderInv, HolderKeepsLock
<1> QED
  BY <1>1, Invariance, PTL

\* Two clients that acquired the lock are not both inside within the timeout.
THEOREM Exclusion == Spec => []MutualExclusion
<1>1. IInv => MutualExclusion
  <2> SUFFICES ASSUME IInv, NEW c \in Client, NEW d \in Client, c # d,
                      pc[c] = "in", pc[d] = "in",
                      age[c] < LockTimeout, age[d] < LockTimeout
               PROVE FALSE
    BY TimeoutAssumption DEF MutualExclusion, IInv, TypeOK, Stale
  <2>1. own[c] = own[d] /\ own[c] # None
    BY DEF IInv, HolderInv, InOwns
  <2> QED
    BY <2>1 DEF IInv, OwnUnique
<1> QED
  BY <1>1, Invariance, PTL

\* A lock that has not expired is given up by its owner and nobody else.
THEOREM OwnerGivesUp == Spec => OnlyOwnerGivesUp
<1>1. IInv /\ [Next]_vars =>
        [store.token # None /\ store.age < LockTimeout /\ store'.token # store.token
           => \E c \in Client : own[c] = store.token /\ Inside(c) /\ pc'[c] = "out"]_vars
  <2> SUFFICES ASSUME IInv, Next, store.token # None, store.age < LockTimeout,
                      store'.token # store.token
               PROVE \E c \in Client : own[c] = store.token /\ Inside(c) /\ pc'[c] = "out"
    BY DEF vars
  <2> USE DEF IInv, TypeOK, Stale
  <2>1. ~KeyGone /\ ~RowExpired
    BY TimeoutAssumption DEF KeyGone, RowExpired
  <2>2. CASE Tick
    BY <2>2 DEF Tick
  <2>3. ASSUME NEW c \in Client, DbSwap(c) PROVE FALSE
    BY <2>3, <2>1 DEF DbSwap, SeenExpired, SwapSaw, RowExpired
  <2>4. ASSUME NEW c \in Client, ReleaseOwned(c) \/ ReleaseError(c)
        PROVE own[c] = store.token /\ Inside(c) /\ pc'[c] = "out"
    BY <2>4 DEF ReleaseOwned, ReleaseError, Owned, Inside
  <2>5. ASSUME NEW c \in Client, RedisAcquire(c) \/ RedisAcquireError(c) \/ DbCreate(c)
        PROVE FALSE
    BY <2>5, <2>1 DEF RedisAcquire, RedisAcquireError, DbCreate
  <2>6. ASSUME NEW c \in Client,
               \/ CallAlreadySet(c) \/ Call(c) \/ RedisMiss(c) \/ DbReadExpired(c)
               \/ DbMiss(c) \/ ReleaseLost(c) \/ Reload(c)
        PROVE FALSE
    BY <2>6 DEF CallAlreadySet, Call, RedisMiss, DbReadExpired, DbMiss, ReleaseLost, Reload
  <2> QED
    BY <2>2, <2>3, <2>4, <2>5, <2>6 DEF Next, Acquire, Release
<1> QED
  BY <1>1, Invariance, PTL DEF Spec, OnlyOwnerGivesUp

=============================================================================
