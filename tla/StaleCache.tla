------------------------------ MODULE StaleCache ------------------------------
(***************************************************************************)
(* The caches of base/services/stale_cache.py that carry a version: the    *)
(* keys contain a counter of the event, which requests that change the     *)
(* schedule raise after their commit, so that readers no longer find what  *)
(* was stored under the old number.  Next to every entry lies a copy that  *)
(* lives longer, for when the database does not answer.                    *)
(*                                                                         *)
(* What readers load is abstracted to how many changes were committed.     *)
(***************************************************************************)
EXTENDS Integers, FiniteSets

CONSTANTS
    Thread,     \* threads that serve requests that change something
    Reader,     \* requests that read through the cache
    MaxChanges, \* bound: changes in one transaction
    MaxCommits  \* bound: transactions that are committed

ASSUME BoundAssumption == MaxChanges \in Nat /\ MaxCommits \in Nat /\ IsFiniteSet(Thread)

Missing == 0        \* no counter: get_schedule_cache_version answers 0
Nothing == -1       \* no entry
Version == 0..MaxCommits
Entries == -1..MaxCommits

VARIABLES
    content, \* how many changing transactions are committed
    counter, \* cache: api:schedule:ver
    hot,     \* cache: what is stored under the hot key of each version
    stale,   \* cache: and under the stale key
    calls,   \* thread: callbacks registered in its transaction and not run yet
    pending, \* thread-local: the event is in _bump_on_commit_local.pending
    pc,      \* thread
    bumps,   \* thread: how often it has raised the counter for its commit
    reader,  \* what a reading request is at
    mark     \* what was committed when the counter got each number

vars == <<content, counter, hot, stale, calls, pending, pc, bumps, reader, mark>>
threads == <<content, counter, calls, pending, pc, bumps, mark>>

NoReader == [pc |-> "idle", v |-> 0, val |-> Nothing]

\* The types; nobody reads a version that was not there.
TypeOK ==
    /\ content \in 0..MaxCommits /\ counter \in Version
    /\ hot \in [Version -> Entries] /\ stale \in [Version -> Entries]
    /\ calls \in [Thread -> 0..MaxChanges]
    /\ pending \in [Thread -> BOOLEAN]
    /\ pc \in [Thread -> {"idle", "open", "commit", "missing"}]
    /\ bumps \in [Thread -> Nat]
    /\ reader \in [Reader -> [pc : {"idle", "keys", "load", "hot", "stale", "answer"},
                              v : Version, val : Entries]]
    /\ mark \in [Version -> 0..MaxCommits]
    /\ \A r \in Reader : reader[r].v <= counter

Init ==
    /\ content = 0 /\ counter = Missing
    /\ hot = [v \in Version |-> Nothing] /\ stale = [v \in Version |-> Nothing]
    /\ calls = [t \in Thread |-> 0]
    /\ pending = [t \in Thread |-> FALSE]
    /\ pc = [t \in Thread |-> "idle"]
    /\ bumps = [t \in Thread |-> 0]
    /\ reader = [r \in Reader |-> NoReader]
    /\ mark = [v \in Version |-> 0]

-----------------------------------------------------------------------------
(* Requests that change something *)

\* Mutant: two callbacks for a change.
Registered_Twice(t) == calls[t] + 2
\* Mutant: a callback only if none is pending.
Registered_Once(t) == IF pending[t] THEN calls[t] ELSE calls[t] + 1
\* "Every call registers its own callback, because a rolled back transaction drops its
\* callbacks."
Registered(t) == calls[t] + 1

\* Bound: as many transactions are open as may still be committed.
Busy == {t \in Thread : pc[t] = "open"}

\* A signal handler after a row was saved or deleted.
Change(t) ==
    /\ \/ pc[t] = "idle" /\ content + Cardinality(Busy) < MaxCommits
       \/ pc[t] = "open"
    /\ calls[t] < MaxChanges
    /\ calls' = [calls EXCEPT ![t] = Registered(t)]
    /\ pending' = [pending EXCEPT ![t] = TRUE]
    /\ pc' = [pc EXCEPT ![t] = "open"]
    /\ UNCHANGED <<content, counter, hot, stale, bumps, reader, mark>>

\* Django drops the callbacks with the transaction or the savepoint.
Rollback(t) ==
    /\ pc[t] = "open"
    /\ \/ calls' = [calls EXCEPT ![t] = 0] /\ pc' = [pc EXCEPT ![t] = "idle"]
       \/ calls[t] > 1 /\ calls' = [calls EXCEPT ![t] = @ - 1] /\ UNCHANGED pc
    /\ UNCHANGED <<content, counter, hot, stale, pending, bumps, reader, mark>>

Commit(t) ==
    /\ pc[t] = "open"
    /\ content' = content + 1
    /\ pc' = [pc EXCEPT ![t] = "commit"]
    /\ UNCHANGED <<counter, hot, stale, calls, pending, bumps, reader, mark>>

\* pending.discard
Flushed == FALSE

\* _flush_schedule_cache_bump finds the event no longer pending.
FlushAgain(t) ==
    /\ pc[t] = "commit" /\ calls[t] > 0 /\ ~pending[t]
    /\ calls' = [calls EXCEPT ![t] = @ - 1]
    /\ UNCHANGED <<content, counter, hot, stale, pending, pc, bumps, reader, mark>>

Raise(t, v) ==
    /\ counter' = v
    /\ mark' = [mark EXCEPT ![v] = content]
    /\ bumps' = [bumps EXCEPT ![t] = @ + 1]

\* cache.incr
Bump(t) ==
    /\ pc[t] = "commit" /\ calls[t] > 0 /\ pending[t]
    /\ counter # Missing /\ counter < MaxCommits
    /\ Raise(t, counter + 1)
    /\ calls' = [calls EXCEPT ![t] = @ - 1]
    /\ pending' = [pending EXCEPT ![t] = Flushed]
    /\ UNCHANGED <<content, hot, stale, pc, reader>>

\* ... which raises ValueError if there is no counter.  Bound: the first two changes of an
\* event are not committed by two requests at the very same moment.
BumpMissing(t) ==
    /\ pc[t] = "commit" /\ calls[t] > 0 /\ pending[t]
    /\ counter = Missing /\ \A u \in Thread : pc[u] # "missing"
    /\ pc' = [pc EXCEPT ![t] = "missing"]
    /\ pending' = [pending EXCEPT ![t] = Flushed]
    /\ UNCHANGED <<content, counter, hot, stale, calls, bumps, reader, mark>>

\* cache_set(key, 1, None)
BumpFirst(t) ==
    /\ pc[t] = "missing"
    /\ Raise(t, 1)
    /\ calls' = [calls EXCEPT ![t] = @ - 1]
    /\ pc' = [pc EXCEPT ![t] = "commit"]
    /\ UNCHANGED <<content, hot, stale, pending, reader>>

\* The cache does not answer: cache.incr raises, and the callbacks after it are not run;
\* cache_set does nothing.
BumpFails(t) ==
    /\ pc[t] = "missing" \/ (pc[t] = "commit" /\ pending[t])
    /\ calls[t] > 0
    /\ pc' = [pc EXCEPT ![t] = "idle"]
    /\ calls' = [calls EXCEPT ![t] = 0]
    /\ pending' = [pending EXCEPT ![t] = FALSE]
    /\ bumps' = [bumps EXCEPT ![t] = 0]
    /\ UNCHANGED <<content, counter, hot, stale, reader, mark>>

\* All callbacks have been run.
CommitDone(t) ==
    /\ pc[t] = "commit" /\ calls[t] = 0
    /\ pc' = [pc EXCEPT ![t] = "idle"]
    /\ bumps' = [bumps EXCEPT ![t] = 0]
    /\ UNCHANGED <<content, counter, hot, stale, calls, pending, reader, mark>>

-----------------------------------------------------------------------------
(* Requests that read *)

Step(r, next) == reader' = [reader EXCEPT ![r] = next]

\* The keys are made with the counter, or 0 if the cache does not answer.
ReadCounter(r) ==
    /\ reader[r].pc = "idle"
    /\ \E v \in {counter, Missing} : Step(r, [pc |-> "keys", v |-> v, val |-> Nothing])
    /\ UNCHANGED <<threads, hot, stale>>

LookHot(r) ==
    /\ reader[r].pc = "keys"
    /\ \/ hot[reader[r].v] # Nothing /\ Step(r, [reader[r] EXCEPT !.pc = "answer", !.val = hot[reader[r].v]])
       \/ Step(r, [reader[r] EXCEPT !.pc = "load"])
    /\ UNCHANGED <<threads, hot, stale>>

\* The loader reads what is committed.
Load(r) ==
    /\ reader[r].pc = "load"
    /\ Step(r, [reader[r] EXCEPT !.pc = "hot", !.val = content])
    /\ UNCHANGED <<threads, hot, stale>>

\* Mutant: if need be the copy of the version before.
Copy_Older(v) == IF stale[v] = Nothing /\ v > 0 THEN stale[v - 1] ELSE stale[v]
\* cache_get(stale_key)
Copy(v) == stale[v]

\* Mutant: a copy that is used is stored again.
CopyUsed_Stored == "hot"
CopyUsed == "answer"

\* The database does not answer: the copy, or the error.
LoadFails(r) ==
    LET copy == Copy(reader[r].v) IN
    /\ reader[r].pc = "load"
    /\ \/ copy # Nothing /\ Step(r, [reader[r] EXCEPT !.pc = CopyUsed, !.val = copy])
       \/ Step(r, NoReader)
    /\ UNCHANGED <<threads, hot, stale>>

\* store_hot_and_stale: each of the two may be lost if the cache does not answer.
StoreHot(r) ==
    /\ reader[r].pc = "hot"
    /\ hot' \in {hot, [hot EXCEPT ![reader[r].v] = reader[r].val]}
    /\ Step(r, [reader[r] EXCEPT !.pc = "stale"])
    /\ UNCHANGED <<threads, stale>>

StoreStale(r) ==
    /\ reader[r].pc = "stale"
    /\ stale' \in {stale, [stale EXCEPT ![reader[r].v] = reader[r].val]}
    /\ Step(r, [reader[r] EXCEPT !.pc = "answer"])
    /\ UNCHANGED <<threads, hot>>

Answer(r) ==
    /\ reader[r].pc = "answer"
    /\ Step(r, NoReader)
    /\ UNCHANGED <<threads, hot, stale>>

\* SCHEDULE_HOT_TTL, SCHEDULE_STALE_TTL
ExpireHot(v) ==
    /\ hot[v] # Nothing
    /\ hot' = [hot EXCEPT ![v] = Nothing]
    /\ UNCHANGED <<threads, stale, reader>>

ExpireStale(v) ==
    /\ stale[v] # Nothing
    /\ stale' = [stale EXCEPT ![v] = Nothing]
    /\ UNCHANGED <<threads, hot, reader>>

-----------------------------------------------------------------------------

Serve(r) ==
    LookHot(r) \/ Load(r) \/ LoadFails(r) \/ StoreHot(r) \/ StoreStale(r) \/ Answer(r)
Finish(t) ==
    \/ FlushAgain(t) \/ Bump(t) \/ BumpMissing(t) \/ BumpFirst(t) \/ BumpFails(t)
    \/ CommitDone(t)

Next ==
    \/ \E t \in Thread : Change(t) \/ Rollback(t) \/ Commit(t) \/ Finish(t)
    \/ \E r \in Reader : ReadCounter(r) \/ Serve(r)
    \/ \E v \in Version : ExpireHot(v) \/ ExpireStale(v)

Spec == Init /\ [][Next]_vars

\* Requests come to their end; entries run out.
FairSpec ==
    /\ Spec
    /\ \A r \in Reader : WF_vars(Serve(r))
    /\ \A v \in Version : WF_vars(ExpireHot(v)) /\ WF_vars(ExpireStale(v))

-----------------------------------------------------------------------------
(* Properties *)

\* Raised after the commit, read before the load: whoever finds the counter at a number is
\* served nothing older than what was committed when it got that number, from the cache, from the
\* database or, while that does not answer, from the copy.
Fresh == \A r \in Reader : reader[r].pc = "answer" => reader[r].val >= mark[reader[r].v]

\* "Bump at most once per event per database transaction", and not less, whatever was
\* rolled back before in the same thread.
BumpedOnce == [][\A t \in Thread : CommitDone(t) => bumps[t] = 1]_vars

\* Even if the counter could not be raised, what is outdated is not served for ever.
CaughtUp ==
    \A n \in 0..MaxCommits :
      <>[](content = n) => <>[](\A r \in Reader : reader[r].pc = "answer" => reader[r].val = n)
=============================================================================
