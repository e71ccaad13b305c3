----------------------------- MODULE EventLock -----------------------------
(***************************************************************************)
(* The per-event lock of eventyay/base/services/locking.py, which every    *)
(* operation that books or frees tickets takes.  A client is one Python    *)
(* Event object: the module-level functions keep what they know about the  *)
(* lock in its attribute _lock.  The lock itself is a row of EventLock     *)
(* (without Redis) or a key with a time to live (with Redis).              *)
(*                                                                         *)
(* Time is kept as ages that saturate at Stale = LockTimeout + 1, so the   *)
(* state space is finite without a bound on the clock.  A token stands for *)
(* a uuid: a new one is any token nobody refers to.                        *)
(***************************************************************************)
EXTENDS Integers, FiniteSets

CONSTANTS
    Client,       \* Event objects, each used by one worker thread
    Token,        \* lock tokens (uuid4)
    None,         \* "no token": Python's None, or the absent row / key
    LockTimeout,  \* LOCK_TIMEOUT, in ticks
    Retries,      \* attempts of one round of a lock call (5 in the code)
    Patience,     \* blocking_timeout of a blocking call, in ticks
    Backends      \* values of settings.HAS_REDIS, one of which is used

ASSUME NoneAssumption == None \notin Token
ASSUME TimeoutAssumption == LockTimeout \in Nat
ASSUME RetriesAssumption == Retries \in Nat \ {0}
ASSUME PatienceAssumption == Patience \in Nat
ASSUME BackendAssumption == Backends \subseteq BOOLEAN

VARIABLES
    hasRedis, \* settings.HAS_REDIS: which of the two back ends is used
    store,   \* [token, age] of the row or key; token = None when there is none
    isSet,   \* isSet[c]: event._lock is truthy
    own,     \* own[c]: the token event._lock carries
    pc,      \* "out"; "try", "swap" (DB: row read, not yet updated): in a lock call;
             \* "in": inside; "assumed": inside because _lock was already set
    tries,   \* attempts made in this round
    left,    \* time to the deadline of a blocking call; None if the call does not block
    seen,    \* DB: the token of the expired row the client read
    age      \* time since the date the client gives to its lock (dt = now())

vars == <<hasRedis, store, isSet, own, pc, tries, left, seen, age>>

Stale == LockTimeout + 1
Free == [token |-> None, age |-> 0]

TypeOK ==
    /\ hasRedis \in BOOLEAN
    /\ store \in [token : Token \cup {None}, age : 0..Stale]
    /\ isSet \in [Client -> BOOLEAN]
    /\ own \in [Client -> Token \cup {None}]
    /\ pc \in [Client -> {"out", "try", "swap", "in", "assumed"}]
    /\ tries \in [Client -> 0..(Retries - 1)]
    /\ left \in [Client -> 0..Patience \cup {None}]
    /\ seen \in [Client -> Token \cup {None}]
    /\ age \in [Client -> 0..Stale]

Init ==
    /\ hasRedis \in Backends
    /\ store = Free
    /\ isSet = [c \in Client |-> FALSE]
    /\ own = [c \in Client |-> None]
    /\ pc = [c \in Client |-> "out"]
    /\ tries = [c \in Client |-> 0]
    /\ left = [c \in Client |-> None]
    /\ seen = [c \in Client |-> None]
    /\ age = [c \in Client |-> 0]

InUse == {store.token} \cup {own[c] : c \in Client} \cup {seen[c] : c \in Client}
NewToken == Token \ InUse

\* Mutant: a Lock made without its timeout.
KeyGone_NoTimeout == store.token = None
\* Redis drops a key at the end of its time to live (timeout=LOCK_TIMEOUT).
KeyGone == store.token = None \/ store.age >= LockTimeout
\* Mutant: a row is taken over whatever its date.
RowExpired_Always == TRUE
\* l.date < now() - timedelta(seconds=LOCK_TIMEOUT)
RowExpired == store.age > LockTimeout
\* The next attempt of a lock call succeeds.
Obtainable == IF hasRedis THEN KeyGone ELSE store.token = None \/ RowExpired

Enter(c, t) ==
    /\ store' = [token |-> t, age |-> age'[c]]
    /\ isSet' = [isSet EXCEPT ![c] = TRUE]
    /\ own' = [own EXCEPT ![c] = t]
    /\ pc' = [pc EXCEPT ![c] = "in"]
    /\ left' = [left EXCEPT ![c] = None]

-----------------------------------------------------------------------------
(* lock_event *)

\* "if hasattr(event, '_lock') and event._lock: return True"
CallAlreadySet(c) ==
    /\ pc[c] = "out" /\ isSet[c]
    /\ pc' = [pc EXCEPT ![c] = "assumed"]
    /\ age' = [age EXCEPT ![c] = 0]
    /\ UNCHANGED <<hasRedis, store, isSet, own, tries, left, seen>>

\* The dispatch on HAS_REDIS.  redis_lock_from_event stores the Lock object in
\* event._lock before anything is acquired.  The order import blocks.
Call(c) ==
    /\ pc[c] = "out" /\ ~isSet[c]
    /\ pc' = [pc EXCEPT ![c] = "try"]
    /\ tries' = [tries EXCEPT ![c] = 0]
    /\ \E d \in {None, Patience} : left' = [left EXCEPT ![c] = d]
    /\ isSet' = [isSet EXCEPT ![c] = hasRedis]
    /\ UNCHANGED <<hasRedis, store, own, seen, age>>

\* A round is over after some attempts; a blocking acquire of Redis has rounds of one.
RoundOver(c) == tries[c] + 1 >= Retries \/ (hasRedis /\ left[c] # None)
\* Mutant: the deadline is forgotten.
TimeLeft_Always(c) == left[c] # None
TimeLeft(c) == left[c] \notin {None, 0}

\* Mutant: one attempt too many.
AgainInRound_OneMore(c) == tries[c] + 1 <= Retries
AgainInRound(c) == ~RoundOver(c)

\* One failed attempt: sleep and try again, in this round or in a new one if the call
\* blocks and its deadline is not over; else LockTimeoutException.
Missed(c) ==
    \/ /\ AgainInRound(c)
       /\ tries' = [tries EXCEPT ![c] = @ + 1]
       /\ pc' = [pc EXCEPT ![c] = "try"]
       /\ UNCHANGED left
    \/ /\ ~AgainInRound(c) /\ TimeLeft(c)
       /\ tries' = [tries EXCEPT ![c] = 0]
       /\ pc' = [pc EXCEPT ![c] = "try"]
       /\ UNCHANGED left
    \/ /\ ~AgainInRound(c) /\ ~TimeLeft(c)
       /\ tries' = [tries EXCEPT ![c] = 0]
       /\ pc' = [pc EXCEPT ![c] = "out"]
       /\ left' = [left EXCEPT ![c] = None]

RedisAcquire(c) ==
    /\ hasRedis /\ pc[c] = "try" /\ KeyGone
    /\ \E t \in NewToken : 
         /\ age' = [age EXCEPT ![c] = 0]
         /\ Enter(c, t)
    /\ UNCHANGED <<hasRedis, tries, seen>>

RedisMiss(c) ==
    /\ hasRedis /\ pc[c] = "try" /\ ~KeyGone
    /\ Missed(c)
    /\ UNCHANGED <<hasRedis, store, isSet, own, seen, age>>

\* RedisError during acquire: LockTimeoutException.  The SET may have been
\* executed although its answer was lost; nobody then knows its token.
RedisAcquireError(c) ==
    /\ hasRedis /\ pc[c] = "try"
    /\ \/ UNCHANGED store
       \/ /\ KeyGone
          /\ \E t \in NewToken : store' = [token |-> t, age |-> 0]
    /\ pc' = [pc EXCEPT ![c] = "out"]
    /\ left' = [left EXCEPT ![c] = None]
    /\ UNCHANGED <<hasRedis, isSet, own, tries, seen, age>>

\* get_or_create made the row.
DbCreate(c) ==
    /\ ~hasRedis /\ pc[c] = "try" /\ store.token = None
    /\ \E t \in NewToken :
         /\ age' = [age EXCEPT ![c] = 0]
         /\ Enter(c, t)
    /\ UNCHANGED <<hasRedis, tries, seen>>

\* get_or_create returned an expired row: remember its token and dt.
DbReadExpired(c) ==
    /\ ~hasRedis /\ pc[c] = "try" /\ store.token # None /\ RowExpired
    /\ seen' = [seen EXCEPT ![c] = store.token]
    /\ age' = [age EXCEPT ![c] = 0]
    /\ pc' = [pc EXCEPT ![c] = "swap"]
    /\ UNCHANGED <<hasRedis, store, isSet, own, tries, left>>

DbMiss(c) ==
    /\ ~hasRedis /\ pc[c] = "try" /\ store.token # None /\ ~RowExpired
    /\ Missed(c)
    /\ UNCHANGED <<hasRedis, store, isSet, own, seen, age>>

\* The UPDATE ... WHERE token = l.token; it may come later than the read.
DbSwap(c) ==
    /\ ~hasRedis /\ pc[c] = "swap"
    /\ seen' = [seen EXCEPT ![c] = None]
    /\ \/ /\ store.token = seen[c]
          /\ age' = age
          /\ \E t \in NewToken : Enter(c, t)
          /\ UNCHANGED tries
       \/ /\ store.token # seen[c]
          /\ Missed(c)
          /\ UNCHANGED <<store, isSet, own, age>>
    /\ UNCHANGED hasRedis

-----------------------------------------------------------------------------
(* release_event *)

\* Every client inside has _lock set, so the first check of release_event
\* ("if not event._lock: raise") never fires.
Inside(c) == pc[c] \in {"in", "assumed"} /\ isSet[c]

\* Mutant: the row is looked up without the token.
Owned_AnyToken(c) == store.token # None

\* The row or key still carries the client's token: it is deleted.
Owned(c) ==
    /\ own[c] # None /\ store.token = own[c]
    /\ hasRedis => ~KeyGone

ReleaseOwned(c) ==
    /\ Inside(c) /\ Owned(c)
    /\ store' = Free
    /\ isSet' = [isSet EXCEPT ![c] = FALSE]
    /\ own' = [own EXCEPT ![c] = None]
    /\ pc' = [pc EXCEPT ![c] = "out"]
    /\ UNCHANGED <<hasRedis, tries, left, seen, age>>

\* DoesNotExist / LockNotOwnedError: the exception leaves _lock set.  The Redis
\* Lock object has forgotten its token by then.
ReleaseLost(c) ==
    /\ Inside(c) /\ ~Owned(c)
    /\ own' = [own EXCEPT ![c] = IF hasRedis THEN None ELSE @]
    /\ pc' = [pc EXCEPT ![c] = "out"]
    /\ UNCHANGED <<hasRedis, store, isSet, tries, left, seen, age>>

\* RedisError while releasing; the key may be gone or may stay until it expires.
ReleaseError(c) ==
    /\ hasRedis /\ Inside(c)
    /\ \/ UNCHANGED store
       \/ Owned(c) /\ store' = Free
    /\ own' = [own EXCEPT ![c] = None]
    /\ pc' = [pc EXCEPT ![c] = "out"]
    /\ UNCHANGED <<hasRedis, isSet, tries, left, seen, age>>

-----------------------------------------------------------------------------
(* Environment *)

\* The worker drops its Event object (the request or task is over, or the
\* process died) and will use a fresh one, without _lock.
Reload(c) ==
    /\ pc[c] # "out" \/ isSet[c]
    /\ isSet' = [isSet EXCEPT ![c] = FALSE]
    /\ own' = [own EXCEPT ![c] = None]
    /\ seen' = [seen EXCEPT ![c] = None]
    /\ pc' = [pc EXCEPT ![c] = "out"]
    /\ left' = [left EXCEPT ![c] = None]
    /\ UNCHANGED <<hasRedis, store, tries, age>>

Older(n) == IF n < Stale THEN n + 1 ELSE n

Tick ==
    /\ store' = IF store.token = None THEN store ELSE [store EXCEPT !.age = Older(store.age)]
    /\ age' = [c \in Client |-> IF pc[c] \in {"swap", "in", "assumed"} THEN Older(age[c]) ELSE age[c]]
    /\ left' = [c \in Client |-> IF left[c] \in {None, 0} THEN left[c] ELSE left[c] - 1]
    /\ UNCHANGED <<hasRedis, isSet, own, pc, tries, seen>>

\* An attempt of a lock call that gets an answer, and the end of the with block.
Acquire(c) ==
    \/ RedisAcquire(c) \/ RedisMiss(c)
    \/ DbCreate(c) \/ DbReadExpired(c) \/ DbMiss(c) \/ DbSwap(c)

Release(c) ==
    ReleaseOwned(c) \/ ReleaseLost(c) \/ ReleaseError(c)

Next ==
    \/ \E c \in Client :
         \/ CallAlreadySet(c) \/ Call(c) \/ Acquire(c) \/ RedisAcquireError(c)
         \/ Release(c) \/ Reload(c)
    \/ Tick

Spec == Init /\ [][Next]_vars

\* Time passes and a lock call makes its next attempt; nothing forces a holder
\* to release, a worker to call, or Redis to answer.
Fairness == WF_vars(Tick) /\ \A c \in Client : WF_vars(Acquire(c))
FairSpec == Spec /\ Fairness

-----------------------------------------------------------------------------
(* Properties *)

\* A client that acquired the lock keeps it, whatever the others do, until it
\* releases it or LOCK_TIMEOUT has passed since: the row or key carries its
\* token, so no other client's release, swap or acquire took it away.
HolderKeepsLock ==
    \A c \in Client :
        pc[c] = "in" /\ age[c] < LockTimeout => store.token = own[c]

\* Two clients that acquired the lock are never both inside within LOCK_TIMEOUT
\* of acquiring it: "nobody can book tickets for this event until you release
\* the lock", as far as the timeout lets that be true.
MutualExclusion ==
    \A c, d \in Client :
        c # d /\ pc[c] = "in" /\ pc[d] = "in"
            => age[c] >= LockTimeout \/ age[d] >= LockTimeout

\* A row or key that has not expired disappears or changes hands only when the
\* client that owns it leaves: a client whose own lock was taken over deletes
\* nobody else's, and a swap prepared for an expired row misses a renewed one.
OnlyOwnerGivesUp ==
    [][store.token # None /\ store.age < LockTimeout /\ store'.token # store.token
         => \E c \in Client : own[c] = store.token /\ Inside(c) /\ pc'[c] = "out"]_vars

\* A lock whose holder died, or whose token got lost, is not locked for ever:
\* again and again the next lock call would get it.
AlwaysObtainableAgain == []<>Obtainable

\* A lock call ends, with the lock or with LockTimeoutException.
CallEnds == \A c \in Client : pc[c] \in {"try", "swap"} ~> pc[c] \in {"in", "out"}

=============================================================================
