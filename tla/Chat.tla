--------------------------------- MODULE Chat ---------------------------------
(***************************************************************************)
(* The numbers of the events of a chat channel (base/services/chat.py) and *)
(* the people who come to read it (features/live/modules/chat.py).  An     *)
(* event gets its number from a counter in Redis, is stored in the         *)
(* database and is then sent to the group of the channel.  Who subscribes  *)
(* enters the group, is told the next number and fetches what lies before. *)
(* Redis may lose the counter; a number that is taken is not stored again, *)
(* and the counter is then set from the database.                          *)
(***************************************************************************)
EXTENDS Integers, FiniteSets

CONSTANTS
    Sender,   \* connections that send
    Reader,   \* connections that subscribe
    First,    \* 1..First are the events that were stored and sent before
    MaxSends, \* bound: events sent
    MaxLosses \* bound: how often Redis loses the counter

ASSUME FirstAssumption == First \in Nat \ {0} /\ MaxSends \in Nat /\ MaxLosses \in Nat

VARIABLES
    counter, \* Redis: chat.event_id, 0 if it has none
    stored,  \* the numbers of the ChatEvent rows
    sent,    \* the numbers that were sent to the group
    task,    \* what create_event is at for a sender
    reader,  \* what a reading connection is at
    sends,   \* how many events were begun
    losses   \* how often the counter was lost

vars == <<counter, stored, sent, task, reader, sends, losses>>

None == 0
NoTask == [pc |-> "idle", id |-> 0, max |-> 0, retry |-> FALSE, alone |-> FALSE]
Away == [pc |-> "away", last |-> 0, seen |-> {}]

\* The types; what is sent is stored.
TypeOK ==
    /\ counter \in Nat /\ stored \subseteq Nat \ {0} /\ sent \subseteq stored
    /\ task \in [Sender -> [pc : {"idle", "next", "reset", "raise", "store", "heal", "set", "send"},
                            id : Nat, max : Nat, retry : BOOLEAN, alone : BOOLEAN]]
    /\ reader \in [Reader -> [pc : {"away", "joined", "empty", "told", "reading"},
                              last : Nat, seen : SUBSET Nat]]
    /\ sends \in 0..MaxSends /\ losses \in 0..MaxLosses

Init ==
    /\ counter = First /\ stored = 1..First /\ sent = 1..First
    /\ task = [s \in Sender |-> NoTask]
    /\ reader = [r \in Reader |-> Away]
    /\ sends = 0 /\ losses = 0

\* _get_highest_id
Highest == IF stored = {} THEN 0 ELSE CHOOSE n \in stored : \A m \in stored : m <= n

-----------------------------------------------------------------------------
(* create_event *)

AllIdle == \A s \in Sender : task[s].pc = "idle"

Begin(s) ==
    /\ task[s].pc = "idle" /\ sends < MaxSends
    /\ sends' = sends + 1
    /\ task' = [u \in Sender |->
         IF u = s
         THEN [NoTask EXCEPT !.pc = "next", !.alone = AllIdle]
         ELSE [task[u] EXCEPT !.alone = FALSE]]
    /\ UNCHANGED <<counter, stored, sent, reader, losses>>

\* Mutant: from the rows.
NextId_Stored == Highest + 1
\* redis.incr
NextId == counter + 1

\* The number, and what is done with a suspiciously small one.
Incr(s) ==
    /\ task[s].pc = "next"
    /\ counter' = NextId
    /\ task' = [task EXCEPT ![s].pc = IF NextId < 2 THEN "reset" ELSE "store",
                            ![s].id = NextId]
    /\ UNCHANGED <<stored, sent, reader, sends, losses>>

\* _get_highest_id, after a small number or a taken one.
ReadHighest(s) ==
    /\ task[s].pc \in {"reset", "heal"}
    /\ task' = [task EXCEPT ![s].max = Highest,
                            ![s].pc = IF @ = "reset" THEN "raise" ELSE "set"]
    /\ UNCHANGED <<counter, stored, sent, reader, sends, losses>>

\* Mutant: the counter is left where it is.
Healed_Left(s) == counter
Healed(s) == task[s].max + 1

\* redis.set; the small number is used all the same, a taken one is replaced (_retry=True).
SetCounter(s) ==
    /\ task[s].pc \in {"raise", "set"}
    /\ counter' = Healed(s)
    /\ task' = [task EXCEPT ![s].pc = IF @ = "raise" THEN "store" ELSE "next",
                            ![s].retry = @ \/ task[s].pc = "set"]
    /\ UNCHANGED <<stored, sent, reader, sends, losses>>

Taken(s) == task[s].id \in stored

\* Mutant: sent before the row is committed.
Store_NotYet(s) ==
    /\ task[s].pc = "store" /\ ~Taken(s)
    /\ task' = [task EXCEPT ![s].pc = "send"]
    /\ UNCHANGED <<counter, stored, sent, reader, sends, losses>>

\* _store_event
Store(s) ==
    /\ task[s].pc = "store" /\ ~Taken(s)
    /\ stored' = stored \cup {task[s].id}
    /\ task' = [task EXCEPT ![s].pc = "send"]
    /\ UNCHANGED <<counter, sent, reader, sends, losses>>

\* ... returns None, once.
Conflict(s) ==
    /\ task[s].pc = "store" /\ Taken(s) /\ ~task[s].retry
    /\ task' = [task EXCEPT ![s].pc = "heal"]
    /\ UNCHANGED <<counter, stored, sent, reader, sends, losses>>

\* "unable to recover in store_event"
Refuse(s) ==
    /\ task[s].pc = "store" /\ Taken(s) /\ task[s].retry
    /\ task' = [task EXCEPT ![s] = NoTask]
    /\ UNCHANGED <<counter, stored, sent, reader, sends, losses>>

\* group_send
Send(s) ==
    /\ task[s].pc = "send"
    /\ sent' = sent \cup {task[s].id}
    /\ reader' = [r \in Reader |->
         IF reader[r].pc = "away" THEN reader[r]
         ELSE [reader[r] EXCEPT !.seen = @ \cup {task[s].id}]]
    /\ task' = [task EXCEPT ![s] = NoTask]
    /\ UNCHANGED <<counter, stored, sends, losses>>

\* The server that holds the connection stops.
Die(s) ==
    /\ task[s].pc # "idle"
    /\ task' = [task EXCEPT ![s] = NoTask]
    /\ UNCHANGED <<counter, stored, sent, reader, sends, losses>>

-----------------------------------------------------------------------------
(* _subscribe, and chat.fetch with the number it answers *)

Step(r, next) ==
    /\ reader' = [reader EXCEPT ![r] = next]
    /\ UNCHANGED <<counter, stored, sent, task, sends, losses>>

\* group_add
Join(r) ==
    /\ reader[r].pc = "away"
    /\ Step(r, [reader[r] EXCEPT !.pc = "joined"])

\* Mutant: what is fetched ends with the number before the last.
Last_Exclusive == counter - 1
\* int(rval)
Last == counter

\* get_last_id
GetLast(r) ==
    /\ reader[r].pc = "joined"
    /\ Step(r, IF counter = None THEN [reader[r] EXCEPT !.pc = "empty"]
               ELSE [reader[r] EXCEPT !.pc = "told", !.last = Last])

\* ... from the database if Redis has none.
GetLastStored(r) ==
    /\ reader[r].pc = "empty"
    /\ Step(r, [reader[r] EXCEPT !.pc = "told", !.last = Highest])

\* chat.fetch: what lies before next_event_id; the client asks on page by page.
Fetch(r) ==
    /\ reader[r].pc = "told"
    /\ Step(r, [reader[r] EXCEPT !.pc = "reading", !.seen = @ \cup {i \in stored : i <= reader[r].last}])

\* group_discard
Leave(r) ==
    /\ reader[r].pc # "away"
    /\ Step(r, Away)

-----------------------------------------------------------------------------

\* Redis is cleared or fails over.
Lose ==
    /\ losses < MaxLosses
    /\ losses' = losses + 1
    /\ counter' = None
    /\ task' = [s \in Sender |-> [task[s] EXCEPT !.alone = FALSE]]
    /\ UNCHANGED <<stored, sent, reader, sends>>

Go(s) ==
    \/ Incr(s) \/ ReadHighest(s) \/ SetCounter(s) \/ Store(s) \/ Conflict(s) \/ Refuse(s)
    \/ Send(s)

Next ==
    \/ \E s \in Sender : Begin(s) \/ Go(s) \/ Die(s)
    \/ \E r \in Reader : Join(r) \/ GetLast(r) \/ GetLastStored(r) \/ Fetch(r) \/ Leave(r)
    \/ Lose

Spec == Init /\ [][Next]_vars

-----------------------------------------------------------------------------
(* Properties *)

\* "If events happen while you join, you might see the same event twice, but you will not miss
\* any events": whoever has fetched has everything that was sent to the channel, as long as
\* the counter was not lost.
NotMissed ==
    losses = 0 => \A r \in Reader : reader[r].pc = "reading" => sent \subseteq reader[r].seen

\* As long as the counter was not lost, a number is given once: nobody finds it taken.
GivenOnce ==
    losses = 0 => \A s, u \in Sender :
      task[s].pc \in {"store", "send"} =>
        /\ task[s].pc = "store" => ~Taken(s)
        /\ task[u].pc \in {"store", "send"} /\ task[u].id = task[s].id => u = s

\* "Let's try to self-heal": whatever happened to the counter before, an event that is created
\* while nothing else happens is not refused.
Heals == [][\A s \in Sender : task[s].alone => ~Refuse(s)]_vars
=============================================================================
