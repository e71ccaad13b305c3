--------------------------- MODULE StaleCacheProofs ---------------------------
(***************************************************************************)
(* Proofs about the versioned caches.  A number of the counter is given    *)
(* once; before that nothing is stored under it and no reader holds it.    *)
(***************************************************************************)
EXTENDS StaleCache, FiniteSetTheorems, TLAPS

\* The types, as TLC checks them, without what they say of the readers' numbers.
Types ==
    /\ content \in 0..MaxCommits /\ counter \in Version
    /\ hot \in [Version -> Entries] /\ stale \in [Version -> Entries]
    /\ calls \in [Thread -> 0..MaxChanges]
    /\ pending \in [Thread -> BOOLEAN]
    /\ pc \in [Thread -> {"idle", "open", "commit", "missing"}]
    /\ bumps \in [Thread -> Nat]
    /\ reader \in [Reader -> [pc : {"idle", "keys", "load", "hot", "stale", "answer"},
                              v : Version, val : Entries]]
    /\ mark \in [Version -> 0..MaxCommits]

\* What is committed and what still may be.
Bounded ==
    /\ content + Cardinality(Busy) <= MaxCommits
    /\ \A t \in Thread : pc[t] \in {"commit", "missing"} => content >= 1

\* Where a thread is with its callbacks.
Stage(t) ==
    /\ pc[t] = "idle" => bumps[t] = 0 /\ calls[t] = 0
    /\ pc[t] = "open" => bumps[t] = 0 /\ calls[t] > 0 /\ pending[t] = TRUE
    /\ pc[t] = "commit" =>
         \/ bumps[t] = 0 /\ calls[t] > 0 /\ pending[t] = TRUE
         \/ bumps[t] = 1 /\ pending[t] = FALSE
    /\ pc[t] = "missing" => bumps[t] = 0 /\ calls[t] > 0 /\ pending[t] = FALSE
Stages == \A t \in Thread : Stage(t)

\* One request finds no counter, and there is none until it sets it.
First ==
    \A t \in Thread : pc[t] = "missing" =>
      /\ counter = Missing
      /\ \A u \in Thread : pc[u] = "missing" => u = t

\* An entry lies under a number that was given, and is no older.
Entry(cached) == \A v \in Version : cached[v] # Nothing => v <= counter /\ cached[v] >= mark[v]

\* So is what a reader has in hand.
InHand ==
    \A r \in Reader :
      /\ reader[r].v <= counter
      /\ reader[r].pc \in {"hot", "stale", "answer"} =>
           reader[r].val # Nothing /\ reader[r].val >= mark[reader[r].v]

Marked == \A v \in Version : mark[v] <= content

IInv == Types /\ Bounded /\ Stages /\ First /\ Entry(hot) /\ Entry(stale) /\ InHand /\ Marked

-----------------------------------------------------------------------------

\* At the start nothing is stored and nobody has a transaction.
LEMMA Initially == Init => IInv
<1> SUFFICES ASSUME Init PROVE IInv
  OBVIOUS
<1>1. Busy = {}
  BY DEF Init, Busy
<1>2. Cardinality(Busy) = 0
  BY <1>1, FS_EmptySet
<1>3. Bounded
  BY <1>2, BoundAssumption DEF Init, Bounded
<1>4. Types
  BY BoundAssumption DEF Init, Types, Version, Entries, Missing, Nothing, NoReader
<1>5. Stages /\ First
  BY DEF Init, Stages, Stage, First
<1>6. Entry(hot) /\ Entry(stale) /\ InHand /\ Marked
  BY BoundAssumption DEF Init, Entry, InHand, Marked, Version, Missing, Nothing, NoReader
<1> QED
  BY <1>3, <1>4, <1>5, <1>6 DEF IInv

\* Who has a transaction open changes only with the step of that thread.
LEMMA BusyFinite == IsFiniteSet(Busy) /\ Cardinality(Busy) \in Nat
<1>1. Busy \subseteq Thread
  BY DEF Busy
<1> QED
  BY <1>1, BoundAssumption, FS_Subset, FS_CardinalityType

LEMMA BusyOpens ==
    ASSUME NEW t \in Thread, pc \in [Thread -> {"idle", "open", "commit", "missing"}],
           pc[t] # "open", pc' = [pc EXCEPT ![t] = "open"]
    PROVE  Cardinality(Busy') = Cardinality(Busy) + 1
<1>1. t \notin Busy
  BY DEF Busy
<1>2. Busy' = Busy \cup {t}
  BY DEF Busy
<1> QED
  BY <1>1, <1>2, BusyFinite, FS_AddElement

LEMMA BusyCloses ==
    ASSUME NEW t \in Thread, NEW s \in {"idle", "commit"},
           pc \in [Thread -> {"idle", "open", "commit", "missing"}],
           pc[t] = "open", pc' = [pc EXCEPT ![t] = s]
    PROVE  Cardinality(Busy') = Cardinality(Busy) - 1
<1>1. t \in Busy
  BY DEF Busy
<1>2. Busy' = Busy \ {t}
  BY DEF Busy
<1> QED
  BY <1>1, <1>2, BusyFinite, FS_RemoveElement

LEMMA BusySame ==
    ASSUME NEW t \in Thread, NEW s \in {"idle", "commit", "missing"},
           pc \in [Thread -> {"idle", "open", "commit", "missing"}],
           pc[t] # "open", pc' = [pc EXCEPT ![t] = s]
    PROVE  Busy' = Busy
BY DEF Busy

-----------------------------------------------------------------------------
(* The steps of a thread *)

\* A change opens the transaction or goes on with it.
LEMMA Changes == ASSUME IInv, NEW t \in Thread, Change(t) PROVE IInv'
<1> USE DEF IInv
<1>1. Types'
  BY BoundAssumption DEF Types, Change, Registered
<1>2. Bounded'
  <2>1. CASE pc[t] = "open"
    <3>1. pc' = pc /\ content' = content
      BY <2>1 DEF Change, Types
    <3> QED
      BY <3>1 DEF Bounded, Busy
  <2>2. CASE pc[t] # "open"
    <3>1. Cardinality(Busy') = Cardinality(Busy) + 1
      BY <2>2, BusyOpens DEF Change, Types
    <3>2. content + Cardinality(Busy) < MaxCommits /\ content' = content
      BY <2>2 DEF Change
    <3>3. content' + Cardinality(Busy') <= MaxCommits
      BY <3>1, <3>2, BusyFinite, BoundAssumption DEF Types
    <3>4. \A u \in Thread : pc'[u] \in {"commit", "missing"} => content' >= 1
      BY DEF Change, Types, Bounded
    <3> QED
      BY <3>3, <3>4 DEF Bounded
  <2> QED
    BY <2>1, <2>2
<1>3. Stages'
  BY DEF Types, Change, Registered, Stages, Stage
<1>4. First'
  BY DEF Types, Change, First
<1>5. Entry(hot)' /\ Entry(stale)' /\ InHand' /\ Marked'
  BY DEF Change, Entry, InHand, Marked
<1> QED
  BY <1>1, <1>2, <1>3, <1>4, <1>5

\* A rollback ends the transaction or takes part of it back.
LEMMA RollsBack == ASSUME IInv, NEW t \in Thread, Rollback(t) PROVE IInv'
<1> USE DEF IInv
<1>1. Types'
  BY BoundAssumption DEF Types, Rollback
<1>2. Bounded'
  <2>1. CASE pc' = pc
    BY <2>1 DEF Rollback, Bounded, Busy
  <2>2. CASE pc' = [pc EXCEPT ![t] = "idle"]
    <3>1. Cardinality(Busy') = Cardinality(Busy) - 1
      BY <2>2, BusyCloses DEF Rollback, Types
    <3>2. content' + Cardinality(Busy') <= MaxCommits
      BY <3>1, BusyFinite, BoundAssumption DEF Types, Rollback, Bounded
    <3>3. \A u \in Thread : pc'[u] \in {"commit", "missing"} => content' >= 1
      BY <2>2 DEF Rollback, Types, Bounded
    <3> QED
      BY <3>2, <3>3 DEF Bounded
  <2> QED
    BY <2>1, <2>2 DEF Rollback
<1>3. Stages'
  BY DEF Types, Rollback, Stages, Stage
<1>4. First'
  BY DEF Types, Rollback, First
<1>5. Entry(hot)' /\ Entry(stale)' /\ InHand' /\ Marked'
  BY DEF Rollback, Entry, InHand, Marked
<1> QED
  BY <1>1, <1>2, <1>3, <1>4, <1>5

\* A commit is one transaction less open and one more committed.
LEMMA Commits == ASSUME IInv, NEW t \in Thread, Commit(t) PROVE IInv'
<1> USE DEF IInv
<1>1. Cardinality(Busy') = Cardinality(Busy) - 1
  BY BusyCloses DEF Commit, Types
<1>2. content' + Cardinality(Busy') <= MaxCommits
  BY <1>1, BusyFinite, BoundAssumption DEF Types, Commit, Bounded
<1>3. Cardinality(Busy') >= 0
  <2>1. t \in Busy
    BY DEF Commit, Busy
  <2>2. Cardinality(Busy) # 0
    BY <2>1, BusyFinite, FS_EmptySet
  <2> QED
    BY <2>2, <1>1, BusyFinite
<1>4. content' \in 0..MaxCommits /\ content' >= 1
  BY <1>1, <1>2, <1>3, BusyFinite, BoundAssumption DEF Types, Commit
<1>5. Types'
  BY <1>4 DEF Types, Commit
<1>6. Bounded'
  BY <1>2, <1>4 DEF Bounded
<1>7. Stages'
  BY DEF Types, Commit, Stages, Stage
<1>8. First'
  BY DEF Types, Commit, First
<1>9. Entry(hot)' /\ Entry(stale)' /\ InHand' /\ Marked'
  BY DEF Types, Commit, Entry, InHand, Marked
<1> QED
  BY <1>5, <1>6, <1>7, <1>8, <1>9

\* The steps after the commit that leave the counter alone.
LEMMA Leaves ==
    ASSUME IInv, NEW t \in Thread,
           FlushAgain(t) \/ BumpMissing(t) \/ BumpFails(t) \/ CommitDone(t)
    PROVE  IInv'
<1> USE DEF IInv
<1> USE DEF FlushAgain, BumpMissing, BumpFails, CommitDone
<1>1. Types'
  <2>1. CASE FlushAgain(t)
    BY <2>1, BoundAssumption DEF Types
  <2>2. CASE BumpMissing(t)
    BY <2>2 DEF Types, Flushed
  <2>3. CASE BumpFails(t)
    BY <2>3, BoundAssumption DEF Types
  <2>4. CASE CommitDone(t)
    BY <2>4 DEF Types
  <2> QED
    BY <2>1, <2>2, <2>3, <2>4
<1>2. Busy' = Busy
  BY DEF Types, Busy
<1>3. Bounded'
  BY <1>2 DEF Types, Bounded
<1>4. Stages'
  BY DEF Types, Stages, Stage, Flushed
<1>5. First'
  BY DEF Types, First
<1>6. Entry(hot)' /\ Entry(stale)' /\ InHand' /\ Marked'
  BY DEF Entry, InHand, Marked
<1> QED
  BY <1>1, <1>3, <1>4, <1>5, <1>6

\* The counter gets a number under which nothing lies and which no reader holds.
LEMMA Raises ==
    ASSUME IInv, NEW t \in Thread, NEW v \in Version, v > counter, Raise(t, v),
           UNCHANGED <<content, hot, stale, reader>>
    PROVE  Entry(hot)' /\ Entry(stale)' /\ InHand' /\ Marked'
<1> USE DEF IInv
<1>1. mark' = [mark EXCEPT ![v] = content] /\ counter' = v
  BY DEF Raise
<1>2. \A w \in Version : w <= counter => mark'[w] = mark[w] /\ w <= counter'
  BY <1>1 DEF Types, Version
<1>3. Entry(hot)' /\ Entry(stale)'
  BY <1>2 DEF Entry
<1>4. InHand'
  BY <1>2 DEF Types, InHand
<1>5. Marked'
  BY <1>1 DEF Types, Marked
<1> QED
  BY <1>3, <1>4, <1>5

\* Raised by one, or set for the first time by the one request that found none.
LEMMA Bumps == ASSUME IInv, NEW t \in Thread, Bump(t) \/ BumpFirst(t) PROVE IInv'
<1> USE DEF IInv
<1>1. PICK v \in Version : v > counter /\ Raise(t, v)
  <2>1. CASE Bump(t)
    BY <2>1, BoundAssumption DEF Types, Bump, Version
  <2>2. CASE BumpFirst(t)
    <3>1. counter = 0 /\ content >= 1
      BY <2>2 DEF BumpFirst, First, Bounded, Missing
    <3> QED
      BY <2>2, <3>1, BoundAssumption DEF BumpFirst, Types, Version
  <2> QED
    BY <2>1, <2>2
<1>2. Entry(hot)' /\ Entry(stale)' /\ InHand' /\ Marked'
  BY <1>1, Raises DEF Bump, BumpFirst
<1>3. calls[t] > 0
  BY DEF Bump, BumpFirst, Stages, Stage
<1>4. Types'
  <2>1. counter' \in Version /\ mark' \in [Version -> 0..MaxCommits] /\ bumps' \in [Thread -> Nat]
    BY <1>1 DEF Types, Raise
  <2>2. calls' \in [Thread -> 0..MaxChanges]
    BY <1>3, BoundAssumption DEF Types, Bump, BumpFirst
  <2>3. pending' \in [Thread -> BOOLEAN]
    BY DEF Types, Bump, BumpFirst, Flushed
  <2>4. pc' \in [Thread -> {"idle", "open", "commit", "missing"}]
    BY DEF Types, Bump, BumpFirst
  <2>5. UNCHANGED <<content, hot, stale, reader>>
    BY DEF Bump, BumpFirst
  <2> QED
    BY <2>1, <2>2, <2>3, <2>4, <2>5 DEF Types
<1>5. Busy' = Busy
  BY DEF Types, Busy, Bump, BumpFirst
<1>6. Bounded'
  BY <1>5 DEF Types, Bounded, Bump, BumpFirst
<1>7. Stages'
  BY DEF Types, Stages, Stage, Bump, BumpFirst, Raise, Flushed
<1>8. First'
  BY DEF Types, First, Bump, BumpFirst
<1> QED
  BY <1>2, <1>4, <1>6, <1>7, <1>8

-----------------------------------------------------------------------------
(* The steps of a reader and of the cache *)

\* What only touches readers and entries keeps the rest.
LEMMA ReaderOnly ==
    ASSUME IInv, UNCHANGED threads
    PROVE  Bounded' /\ Stages' /\ First' /\ Marked'
BY DEF IInv, threads, Bounded, Busy, Stages, Stage, First, Marked

LEMMA Reads == ASSUME IInv, NEW r \in Reader, ReadCounter(r) \/ Serve(r) PROVE IInv'
<1> USE DEF IInv
<1>1. UNCHANGED threads
  BY DEF ReadCounter, Serve, LookHot, Load, LoadFails, StoreHot, StoreStale, Answer
<1>2. Bounded' /\ Stages' /\ First' /\ Marked'
  BY <1>1, ReaderOnly
<1>3. reader[r].v \in Version /\ reader[r].val \in Entries
  BY DEF Types
<1>4. Types' /\ Entry(hot)' /\ Entry(stale)'
  <2>1. CASE StoreHot(r)
    BY <2>1, <1>1, <1>3 DEF StoreHot, Types, Entry, InHand, Step, threads
  <2>2. CASE StoreStale(r)
    BY <2>2, <1>1, <1>3 DEF StoreStale, Types, Entry, InHand, Step, threads
  <2>3. CASE ReadCounter(r) \/ LookHot(r) \/ Load(r) \/ LoadFails(r) \/ Answer(r)
    <3>1. UNCHANGED <<hot, stale>>
      BY <2>3 DEF ReadCounter, LookHot, Load, LoadFails, Answer
    <3>2. reader' \in [Reader -> [pc : {"idle", "keys", "load", "hot", "stale", "answer"},
                                  v : Version, val : Entries]]
      <4>0. Nothing \in Entries /\ Missing \in Version /\ NoReader.pc = "idle"
            /\ content \in Entries
        BY BoundAssumption DEF Types, Nothing, Missing, Entries, Version, NoReader
      <4>1. NoReader \in [pc : {"idle", "keys", "load", "hot", "stale", "answer"},
                          v : Version, val : Entries]
        BY <4>0 DEF NoReader, Missing
      <4>2. CASE ReadCounter(r)
        BY <4>2, <4>0 DEF ReadCounter, Step, Types
      <4>3. CASE LookHot(r)
        <5>1. \A x \in Entries : [reader[r] EXCEPT !.pc = "answer", !.val = x]
                \in [pc : {"idle", "keys", "load", "hot", "stale", "answer"}, v : Version, val : Entries]
          BY DEF Types
        <5>2. [reader[r] EXCEPT !.pc = "load"]
                \in [pc : {"idle", "keys", "load", "hot", "stale", "answer"}, v : Version, val : Entries]
          BY DEF Types
        <5>3. hot[reader[r].v] \in Entries
          BY <1>3 DEF Types
        <5>4. \/ reader' = [reader EXCEPT ![r] =
                    [reader[r] EXCEPT !.pc = "answer", !.val = hot[reader[r].v]]]
              \/ reader' = [reader EXCEPT ![r] = [reader[r] EXCEPT !.pc = "load"]]
          BY <4>3 DEF LookHot, Step
        <5> QED
          BY <5>1, <5>2, <5>3, <5>4 DEF Types
      <4>4. CASE Load(r)
        <5>1. [reader[r] EXCEPT !.pc = "hot", !.val = content]
                \in [pc : {"idle", "keys", "load", "hot", "stale", "answer"}, v : Version, val : Entries]
          BY <4>0 DEF Types
        <5>2. reader' = [reader EXCEPT ![r] = [reader[r] EXCEPT !.pc = "hot", !.val = content]]
          BY <4>4 DEF Load, Step
        <5> QED
          BY <5>1, <5>2 DEF Types
      <4>5. CASE LoadFails(r)
        <5>1. CASE Step(r, NoReader)
          BY <5>1, <4>1 DEF Step, Types
        <5>2. CASE Step(r, [reader[r] EXCEPT !.pc = "answer", !.val = stale[reader[r].v]])
          BY <5>2, <1>3 DEF Step, Types
        <5> QED
          BY <4>5, <5>1, <5>2 DEF LoadFails, CopyUsed, Copy
      <4>6. CASE Answer(r)
        BY <4>6, <4>1 DEF Answer, Step, Types
      <4> QED
        BY <2>3, <4>2, <4>3, <4>4, <4>5, <4>6
    <3>3. Types'
      BY <3>1, <3>2, <1>1 DEF Types, threads
    <3>4. Entry(hot)' /\ Entry(stale)'
      BY <3>1, <1>1 DEF Entry, threads
    <3> QED
      BY <3>3, <3>4
  <2> QED
    BY <2>1, <2>2, <2>3 DEF Serve
<1>5. InHand'
  <2>0. counter' = counter /\ mark' = mark /\ counter \in Version /\ counter >= 0
    BY <1>1 DEF threads, Types, Version
  <2>1. CASE ReadCounter(r)
    BY <2>0, <2>1 DEF ReadCounter, Step, InHand, Types, Missing, Version
  <2>2. CASE LookHot(r)
    <3>1. CASE hot[reader[r].v] # Nothing
               /\ Step(r, [reader[r] EXCEPT !.pc = "answer", !.val = hot[reader[r].v]])
      BY <2>0, <1>3, <3>1 DEF Step, InHand, Types, Entry
    <3>2. CASE Step(r, [reader[r] EXCEPT !.pc = "load"])
      BY <2>0, <3>2 DEF Step, InHand, Types
    <3> QED
      BY <2>2, <3>1, <3>2 DEF LookHot
  <2>3. CASE Load(r)
    <3>1. mark[reader[r].v] <= content /\ content # Nothing
      BY <1>3 DEF Marked, Types, Nothing
    <3> QED
      BY <2>0, <2>3, <3>1 DEF Load, Step, InHand, Types
  <2>4. CASE LoadFails(r)
    <3>1. CASE Step(r, NoReader)
      BY <2>0, <3>1 DEF Step, InHand, Types, NoReader
    <3>2. CASE stale[reader[r].v] # Nothing
               /\ Step(r, [reader[r] EXCEPT !.pc = "answer", !.val = stale[reader[r].v]])
      BY <2>0, <1>3, <3>2 DEF Step, InHand, Types, Entry
    <3> QED
      BY <2>4, <3>1, <3>2 DEF LoadFails, Copy, CopyUsed
  <2>5. CASE StoreHot(r) \/ StoreStale(r)
    BY <2>0, <2>5 DEF StoreHot, StoreStale, Step, InHand, Types
  <2>6. CASE Answer(r)
    BY <2>0, <2>6 DEF Answer, Step, InHand, Types, NoReader
  <2> QED
    BY <2>1, <2>2, <2>3, <2>4, <2>5, <2>6 DEF Serve
<1> QED
  BY <1>2, <1>4, <1>5

LEMMA Expires == ASSUME IInv, NEW v \in Version, ExpireHot(v) \/ ExpireStale(v) PROVE IInv'
<1> USE DEF IInv
<1> USE DEF ExpireHot, ExpireStale
<1>1. Bounded' /\ Stages' /\ First' /\ Marked'
  BY ReaderOnly
<1>2. Nothing \in Entries
  BY BoundAssumption DEF Nothing, Entries
<1>3. Types'
  BY <1>2 DEF Types, threads
<1>4. Entry(hot)' /\ Entry(stale)'
  BY DEF Types, Entry, threads
<1>5. InHand'
  BY DEF InHand, threads
<1> QED
  BY <1>1, <1>3, <1>4, <1>5

\* Every step keeps the invariant.
LEMMA Steps == IInv /\ [Next]_vars => IInv'
<1> SUFFICES ASSUME IInv, [Next]_vars PROVE IInv'
  OBVIOUS
<1>1. CASE \E t \in Thread : Change(t) \/ Rollback(t) \/ Commit(t) \/ Finish(t)
  BY <1>1, Changes, RollsBack, Commits, Leaves, Bumps DEF Finish
<1>2. CASE \E r \in Reader : ReadCounter(r) \/ Serve(r)
  BY <1>2, Reads
<1>3. CASE \E v \in Version : ExpireHot(v) \/ ExpireStale(v)
  BY <1>3, Expires
<1>4. CASE UNCHANGED vars
  BY <1>4 DEF vars, IInv, Types, Bounded, Busy, Stages, Stage, First, Entry, InHand, Marked
<1> QED
  BY <1>1, <1>2, <1>3, <1>4 DEF Next

LEMMA Invariance == Spec => []IInv
BY Initially, Steps, PTL DEF Spec

-----------------------------------------------------------------------------

\* The values keep their types, and no reader holds a number the counter has not reached.
THEOREM TypeCorrect == Spec => []TypeOK
<1>1. IInv => TypeOK
  BY DEF IInv, Types, InHand, TypeOK
<1> QED
  BY <1>1, Invariance, PTL

\* However many threads and readers: an answer is no older than what was committed when
\* the counter got the number the reader found.
THEOREM AnswersAreFresh == Spec => []Fresh
<1>1. IInv => Fresh
  BY DEF IInv, InHand, Fresh
<1> QED
  BY <1>1, Invariance, PTL

\* A committed transaction raises the counter exactly once, unless the cache failed.
THEOREM RaisedOnce == Spec => BumpedOnce
<1>1. IInv /\ [Next]_vars => [\A t \in Thread : CommitDone(t) => bumps[t] = 1]_vars
  BY DEF IInv, Types, Stages, Stage, CommitDone
<1> QED
  BY <1>1, Invariance, PTL DEF Spec, BumpedOnce
=============================================================================
