------------------------------ MODULE ChatProofs ------------------------------
(***************************************************************************)
(* Proofs about the chat as long as Redis keeps the counter: then no stored *)
(* number is above it, and no two senders have the same.  Whether or not it *)
(* keeps it: who sends alone finds a number that is free.                   *)
(***************************************************************************)
EXTENDS Chat, TLAPS

Tasks(n) == [pc : {"idle", "next", "store", "send"}, id : 0..n, max : Nat,
             retry : BOOLEAN, alone : BOOLEAN]

\* No number is above the counter, and nobody is after a taken one.
Typed ==
    /\ counter \in Nat /\ counter >= 1
    /\ stored \subseteq 1..counter /\ sent \subseteq stored
    /\ task \in [Sender -> Tasks(counter)]

\* The numbers of the senders are their own, and stored before they are sent.
Given ==
    \A s \in Sender : task[s].pc \in {"store", "send"} =>
      /\ task[s].id # 0
      /\ task[s].pc = "store" => task[s].id \notin stored
      /\ task[s].pc = "send" => task[s].id \in stored
      /\ \A u \in Sender :
           task[u].pc \in {"store", "send"} /\ task[u].id = task[s].id => u = s

Numbered == Typed /\ Given

\* What a reader does not have lies before the number it was told.
Informed ==
    /\ reader \in [Reader -> [pc : {"away", "joined", "empty", "told", "reading"},
                              last : Nat, seen : SUBSET Nat]]
    /\ \A r \in Reader :
         /\ reader[r].pc = "told" => \A i \in sent : i \in reader[r].seen \/ i <= reader[r].last
         /\ reader[r].pc = "reading" => sent \subseteq reader[r].seen
         /\ reader[r].pc # "empty"

IInv == losses \in Nat /\ (losses = 0 => Numbered /\ Informed)

-----------------------------------------------------------------------------

LEMMA Initially == Init => IInv
<1> SUFFICES ASSUME Init PROVE IInv
  OBVIOUS
<1>1. Numbered
  BY FirstAssumption DEF Init, Numbered, Typed, Given, Tasks, NoTask
<1>2. Informed
  BY DEF Init, Informed, Away
<1> QED
  BY <1>1, <1>2 DEF Init, IInv

\* What changes neither the counter nor the readers' side.
LEMMA Sends ==
    ASSUME Numbered, Informed, NEW s \in Sender,
           Begin(s) \/ Incr(s) \/ Store(s) \/ Die(s)
    PROVE  Numbered' /\ Informed'
<1>1. Informed'
  BY DEF Informed, Begin, Incr, Store, Die
<1>2. Numbered'
  <2>1. CASE Begin(s)
    <3>1. \A u \in Sender : u # s => task'[u] = [task[u] EXCEPT !.alone = FALSE]
      BY <2>1 DEF Begin
    <3>2. task'[s] = [pc |-> "next", id |-> 0, max |-> 0, retry |-> FALSE, alone |-> AllIdle]
      BY <2>1 DEF Begin, NoTask
    <3>3. task'[s] \in Tasks(counter)
      <4>1. AllIdle \in BOOLEAN /\ 0 \in 0..counter
        BY DEF AllIdle, Numbered, Typed
      <4> QED
        BY <3>2, <4>1 DEF Tasks
    <3>4. \A u \in Sender : u # s =>
            task'[u] \in Tasks(counter) /\ task'[u].pc = task[u].pc /\ task'[u].id = task[u].id
      <4>1. \A t \in Tasks(counter) : [t EXCEPT !.alone = FALSE] \in Tasks(counter)
              /\ [t EXCEPT !.alone = FALSE].pc = t.pc /\ [t EXCEPT !.alone = FALSE].id = t.id
        BY DEF Tasks
      <4>2. \A u \in Sender : task[u] \in Tasks(counter)
        BY DEF Numbered, Typed
      <4> QED
        BY <3>1, <4>1, <4>2
    <3>5. task' = [u \in Sender |-> task'[u]]
      BY <2>1 DEF Begin
    <3>6. UNCHANGED <<counter, stored, sent>>
      BY <2>1 DEF Begin
    <3>7. Typed'
      BY <3>3, <3>4, <3>5, <3>6 DEF Numbered, Typed
    <3>8. Given'
      BY <3>2, <3>4, <3>6 DEF Numbered, Given
    <3> QED
      BY <3>7, <3>8 DEF Numbered
  <2>2. CASE Incr(s)
    <3>1. counter + 1 >= 2 /\ counter' = counter + 1 /\ stored' = stored /\ sent' = sent
      BY <2>2 DEF Numbered, Typed, Incr, NextId
    <3>2. task' = [task EXCEPT ![s] = [task[s] EXCEPT !.pc = "store", !.id = counter + 1]]
      <4>1. ~(counter + 1 < 2)
        BY DEF Numbered, Typed
      <4> QED
        BY <2>2, <4>1 DEF Incr, NextId
    <3>3. \A t \in Tasks(counter) : t \in Tasks(counter + 1) /\ t.id # counter + 1
      BY DEF Numbered, Typed, Tasks
    <3>4. \A u \in Sender : u # s => task'[u] = task[u]
      BY <3>2 DEF Numbered, Typed
    <3>5. [task[s] EXCEPT !.pc = "store", !.id = counter + 1] \in Tasks(counter + 1)
      <4>1. task[s] \in Tasks(counter + 1) /\ counter \in Nat
        BY <3>3 DEF Numbered, Typed
      <4>2. counter + 1 \in 0..(counter + 1)
        BY <4>1
      <4> QED
        BY <4>1, <4>2 DEF Tasks
    <3>6. task'[s] = [task[s] EXCEPT !.pc = "store", !.id = counter + 1]
          /\ task'[s].pc = "store" /\ task'[s].id = counter + 1
      BY <3>2 DEF Numbered, Typed, Tasks
    <3>7. task' \in [Sender -> Tasks(counter')]
      BY <3>1, <3>2, <3>3, <3>5 DEF Numbered, Typed
    <3>8. counter + 1 \notin stored
      BY DEF Numbered, Typed
    <3>9. Typed'
      BY <3>1, <3>7 DEF Numbered, Typed
    <3>10. \A u \in Sender : task[u].id # counter + 1
      BY <3>3 DEF Numbered, Typed
    <3>11. Given'
      <4>1. counter + 1 # 0
        BY <3>1
      <4>2. task'[s].pc = "store" /\ task'[s].id = counter + 1
        BY <3>6
      <4>3. \A a \in Sender : task'[a].pc \in {"store", "send"} =>
              \A u \in Sender :
                task'[u].pc \in {"store", "send"} /\ task'[u].id = task'[a].id => u = a
        BY <3>4, <3>10, <4>2 DEF Numbered, Given
      <4>4. \A a \in Sender : task'[a].pc \in {"store", "send"} =>
              /\ task'[a].id # 0
              /\ task'[a].pc = "store" => task'[a].id \notin stored
              /\ task'[a].pc = "send" => task'[a].id \in stored
        BY <3>4, <3>8, <4>1, <4>2 DEF Numbered, Given
      <4> QED
        BY <3>1, <4>3, <4>4 DEF Given
    <3> QED
      BY <3>9, <3>11 DEF Numbered
  <2>3. CASE Store(s)
    <3>1. task[s].id \notin stored /\ task[s].id \in 1..counter
      BY <2>3 DEF Numbered, Typed, Given, Tasks, Store, Taken
    <3>2. \A u \in Sender : u # s /\ task[u].pc \in {"store", "send"} => task[u].id # task[s].id
      BY <2>3 DEF Numbered, Given, Store
    <3>3. task' = [task EXCEPT ![s] = [task[s] EXCEPT !.pc = "send"]]
          /\ stored' = stored \cup {task[s].id} /\ counter' = counter /\ sent' = sent
      BY <2>3 DEF Store
    <3>4. \A u \in Sender : u # s => task'[u] = task[u]
      BY <3>3 DEF Numbered, Typed, Tasks
    <3>5. task'[s].pc = "send" /\ task'[s].id = task[s].id
      BY <3>3 DEF Numbered, Typed, Tasks
    <3>6. [task[s] EXCEPT !.pc = "send"] \in Tasks(counter)
      BY DEF Numbered, Typed, Tasks
    <3>7. Typed'
      BY <3>1, <3>3, <3>6 DEF Numbered, Typed
    <3>8. Given'
      BY <3>1, <3>2, <3>3, <3>4, <3>5 DEF Numbered, Given
    <3> QED
      BY <3>7, <3>8 DEF Numbered
  <2>4. CASE Die(s)
    BY <2>4 DEF Numbered, Typed, Given, Tasks, Die, NoTask
  <2> QED
    BY <2>1, <2>2, <2>3, <2>4
<1> QED
  BY <1>1, <1>2

\* What is sent reaches everybody in the group.
LEMMA Reaches ==
    ASSUME Numbered, Informed, NEW s \in Sender, Send(s)
    PROVE  Numbered' /\ Informed'
<1>1. task[s].id \in stored /\ task[s].id \in Nat /\ 0 \in 0..counter
  BY DEF Numbered, Typed, Given, Tasks, Send
<1>2. Numbered'
  BY <1>1 DEF Numbered, Typed, Given, Tasks, Send, NoTask
<1>3. reader' \in [Reader -> [pc : {"away", "joined", "empty", "told", "reading"},
                              last : Nat, seen : SUBSET Nat]]
  BY <1>1 DEF Informed, Send
<1>4. \A r \in Reader : reader[r].pc # "away" =>
        /\ reader'[r].pc = reader[r].pc /\ reader'[r].last = reader[r].last
        /\ reader'[r].seen = reader[r].seen \cup {task[s].id}
  BY DEF Informed, Send
<1>5. \A r \in Reader : reader[r].pc = "away" => reader'[r] = reader[r]
  BY DEF Informed, Send
<1>6. sent' = sent \cup {task[s].id}
  BY DEF Send
<1> QED
  BY <1>2, <1>3, <1>4, <1>5, <1>6 DEF Informed

\* A number that is taken is not found.
LEMMA NotTaken ==
    ASSUME Numbered, NEW s \in Sender
    PROVE  ~ReadHighest(s) /\ ~SetCounter(s) /\ ~Conflict(s) /\ ~Refuse(s)
BY DEF Numbered, Typed, Given, Tasks, ReadHighest, SetCounter, Conflict, Refuse, Taken

\* A reader who is told the number has joined before.
LEMMA Reads ==
    ASSUME Numbered, Informed, NEW r \in Reader,
           Join(r) \/ GetLast(r) \/ GetLastStored(r) \/ Fetch(r) \/ Leave(r)
    PROVE  Numbered' /\ Informed'
<1>1. Numbered'
  BY DEF Numbered, Typed, Given, Join, GetLast, GetLastStored, Fetch, Leave, Step
<1>2. sent' = sent /\ sent \subseteq stored /\ (\A i \in stored : i \in Nat /\ i <= counter)
  BY DEF Numbered, Typed, Given, Join, GetLast, GetLastStored, Fetch, Leave, Step
<1>3. CASE Join(r) \/ Leave(r)
  BY <1>1, <1>2, <1>3 DEF Informed, Join, Leave, Step, Away
<1>4. CASE GetLast(r)
  <2>1. counter # None /\ counter \in Nat
    BY DEF Numbered, Typed, None
  <2>2. reader' = [reader EXCEPT ![r] = [reader[r] EXCEPT !.pc = "told", !.last = counter]]
    BY <1>4, <2>1 DEF GetLast, Step, Last
  <2> QED
    BY <1>1, <1>2, <2>1, <2>2 DEF Informed
<1>5. CASE GetLastStored(r)
  BY <1>5 DEF Informed, GetLastStored
<1>6. CASE Fetch(r)
  <2>1. reader' = [reader EXCEPT ![r] = [reader[r] EXCEPT !.pc = "reading",
                     !.seen = @ \cup {i \in stored : i <= reader[r].last}]]
    BY <1>6 DEF Fetch, Step
  <2>2. {i \in stored : i <= reader[r].last} \subseteq Nat
    BY <1>2
  <2>3. sent \subseteq reader[r].seen \cup {i \in stored : i <= reader[r].last}
    BY <1>2, <1>6 DEF Informed, Fetch
  <2>4. reader' \in [Reader -> [pc : {"away", "joined", "empty", "told", "reading"},
                                last : Nat, seen : SUBSET Nat]]
    BY <2>1, <2>2 DEF Informed
  <2>5. reader'[r].pc = "reading" /\ sent \subseteq reader'[r].seen
    BY <2>1, <2>3 DEF Informed
  <2>6. \A q \in Reader : q # r => reader'[q] = reader[q]
    BY <2>1 DEF Informed
  <2> QED
    BY <1>1, <1>2, <2>4, <2>5, <2>6 DEF Informed
<1> QED
  BY <1>3, <1>4, <1>5, <1>6

LEMMA Steps == IInv /\ [Next]_vars => IInv'
<1> SUFFICES ASSUME IInv, [Next]_vars PROVE IInv'
  OBVIOUS
<1>1. losses' = losses \/ losses' = losses + 1
  <2>1. CASE \E s \in Sender : Begin(s) \/ Go(s) \/ Die(s)
    BY <2>1 DEF Begin, Go, Die, Incr, ReadHighest, SetCounter, Store, Conflict, Refuse, Send
  <2>2. CASE \E r \in Reader : Join(r) \/ GetLast(r) \/ GetLastStored(r) \/ Fetch(r) \/ Leave(r)
    BY <2>2 DEF Join, GetLast, GetLastStored, Fetch, Leave, Step
  <2>3. CASE Lose
    BY <2>3 DEF Lose
  <2>4. CASE UNCHANGED vars
    BY <2>4 DEF vars
  <2> QED
    BY <2>1, <2>2, <2>3, <2>4 DEF Next
<1>2. SUFFICES ASSUME losses' = 0 PROVE Numbered' /\ Informed'
  BY <1>1 DEF IInv
<1>3. losses = 0 /\ Numbered /\ Informed
  BY <1>1, <1>2 DEF IInv
<1>4. ~Lose
  BY <1>2, <1>3 DEF Lose
<1>5. CASE \E s \in Sender : Begin(s) \/ Go(s) \/ Die(s)
  BY <1>3, <1>5, Sends, Reaches, NotTaken DEF Go
<1>6. CASE \E r \in Reader : Join(r) \/ GetLast(r) \/ GetLastStored(r) \/ Fetch(r) \/ Leave(r)
  BY <1>3, <1>6, Reads
<1>7. CASE UNCHANGED vars
  BY <1>3, <1>7 DEF vars, Numbered, Typed, Given, Informed
<1> QED
  BY <1>4, <1>5, <1>6, <1>7 DEF Next

LEMMA Invariance == Spec => []IInv
BY Initially, Steps, PTL DEF Spec

-----------------------------------------------------------------------------

\* However many send and subscribe: who enters the group before asking for the number misses
\* nothing while the counter is kept.
THEOREM NothingMissed == Spec => []NotMissed
<1>1. IInv => NotMissed
  BY DEF IInv, Informed, NotMissed
<1> QED
  BY <1>1, Invariance, PTL

\* While the counter is kept, nobody's number is taken: no event is refused or renumbered.
THEOREM NumbersGivenOnce == Spec => []GivenOnce
<1>1. IInv => GivenOnce
  BY DEF IInv, Numbered, Given, GivenOnce, Taken
<1> QED
  BY <1>1, Invariance, PTL

-----------------------------------------------------------------------------
(* With or without the counter: what is stored has a highest number, and an event *)
(* created while nothing else happens gets one above it at its second try.        *)

\* A number is in use from the counter to the end; what is to be sent is stored.
Counted ==
    /\ \E n \in stored : \A m \in stored : m <= n
    /\ \A s \in Sender : task[s].pc \notin {"idle", "next"} =>
         task[s].id # 0 /\ (task[s].pc = "send" => task[s].id \in stored)

\* Who is alone: nobody else is at work, and what it read last is still so.
Undisturbed ==
    \A s \in Sender : task[s].alone =>
      /\ \A u \in Sender : u # s => task[u].pc = "idle"
      /\ task[s].pc = "set" => task[s].max = Highest
      /\ task[s].retry =>
           /\ task[s].pc \notin {"reset", "raise"}
           /\ task[s].pc = "next" => counter = Highest + 1
           /\ task[s].pc = "store" => ~Taken(s)

HInv == TypeOK /\ Counted /\ Undisturbed

\* The highest number is one that is stored, and none is above it.
LEMMA HighestIsStored ==
    ASSUME TypeOK, Counted
    PROVE  Highest \in stored /\ Highest \in Nat /\ \A m \in stored : m <= Highest
<1>1. PICK n \in stored : \A m \in stored : m <= n
  BY DEF Counted
<1>2. Highest \in stored /\ \A m \in stored : m <= Highest
  BY <1>1 DEF Highest
<1> QED
  BY <1>2 DEF TypeOK

\* One sender goes on, the others stay as they are.
OneTask(s) == \A u \in Sender : u # s => task'[u] = task[u]

SenderTask == [pc : {"idle", "next", "reset", "raise", "store", "heal", "set", "send"},
               id : Nat, max : Nat, retry : BOOLEAN, alone : BOOLEAN]

\* What a sender carries stays well formed whatever is filled in.
LEMMA Disturbed ==
    ASSUME NEW t \in SenderTask
    PROVE  /\ [t EXCEPT !.alone = FALSE] \in SenderTask
           /\ [t EXCEPT !.alone = FALSE].pc = t.pc /\ [t EXCEPT !.alone = FALSE].id = t.id
           /\ [t EXCEPT !.alone = FALSE].alone = FALSE
  BY DEF SenderTask

LEMMA FilledIn ==
    ASSUME NEW t \in SenderTask, NEW n \in Nat, NEW b \in BOOLEAN,
           NEW c \in {"idle", "next", "reset", "raise", "store", "heal", "set", "send"}
    PROVE  /\ [t EXCEPT !.pc = c, !.id = n] \in SenderTask
           /\ [t EXCEPT !.max = n, !.pc = c] \in SenderTask
           /\ [t EXCEPT !.pc = c, !.retry = b] \in SenderTask
           /\ [pc |-> c, id |-> n, max |-> n, retry |-> FALSE, alone |-> b] \in SenderTask
  BY DEF SenderTask

LEMMA TasksStay ==
    ASSUME task \in [Sender -> SenderTask], NEW s \in Sender, task' = [task EXCEPT ![s] = task'[s]],
           task'[s] \in SenderTask
    PROVE  task' \in [Sender -> SenderTask]
<1> DEFINE t == task'[s]
<1>1. task' = [task EXCEPT ![s] = t] /\ t \in SenderTask
  OBVIOUS
<1> HIDE DEF t
<1> QED
  BY <1>1

LEMMA HealInitially == Init => HInv
<1> SUFFICES ASSUME Init PROVE HInv
  OBVIOUS
<1>1. TypeOK
  BY FirstAssumption DEF Init, TypeOK, NoTask, Away
<1>2. First \in stored /\ \A m \in stored : m <= First
  BY FirstAssumption DEF Init
<1> QED
  BY <1>1, <1>2 DEF Init, HInv, Counted, Undisturbed, NoTask

LEMMA HealBegin ==
    ASSUME HInv, NEW s \in Sender, Begin(s)
    PROVE  HInv'
<1>1. \A u \in Sender : u # s => task'[u] = [task[u] EXCEPT !.alone = FALSE]
  BY DEF Begin
<1>2. task'[s] = [pc |-> "next", id |-> 0, max |-> 0, retry |-> FALSE, alone |-> AllIdle]
  BY DEF Begin, NoTask
<1>3. UNCHANGED <<counter, stored, sent, reader, losses>> /\ sends' = sends + 1 /\ sends < MaxSends
  BY DEF Begin
<1>4. \A u \in Sender : u # s =>
        /\ task'[u].pc = task[u].pc /\ task'[u].id = task[u].id /\ task'[u].alone = FALSE
        /\ task'[u] \in SenderTask
  <2>1. ASSUME NEW u \in Sender, u # s
        PROVE  /\ task'[u].pc = task[u].pc /\ task'[u].id = task[u].id /\ task'[u].alone = FALSE
               /\ task'[u] \in SenderTask
    <3>1. task[u] \in SenderTask
      BY DEF HInv, TypeOK, SenderTask
    <3>2. task'[u] = [task[u] EXCEPT !.alone = FALSE]
      BY <1>1, <2>1
    <3> QED
      BY <3>1, <3>2, Disturbed
  <2> QED
    BY <2>1
<1>5. TypeOK'
  <2>1. sends' \in 0..MaxSends
    BY <1>3, FirstAssumption DEF HInv, TypeOK
  <2>2. AllIdle \in BOOLEAN
    BY DEF AllIdle
  <2>3. task' \in [Sender -> [pc : {"idle", "next", "reset", "raise", "store", "heal", "set", "send"},
                              id : Nat, max : Nat, retry : BOOLEAN, alone : BOOLEAN]]
    <3>1. task' = [u \in Sender |-> task'[u]]
      BY DEF Begin
    <3>2. ASSUME NEW u \in Sender
          PROVE  task'[u] \in [pc : {"idle", "next", "reset", "raise", "store", "heal", "set", "send"},
                               id : Nat, max : Nat, retry : BOOLEAN, alone : BOOLEAN]
      <4>1. CASE u = s
        <5>1. [pc |-> "next", id |-> 0, max |-> 0, retry |-> FALSE, alone |-> AllIdle] \in SenderTask
          BY <2>2 DEF SenderTask
        <5> QED
          BY <1>2, <4>1, <5>1 DEF SenderTask
      <4>2. CASE u # s
        BY <1>4, <4>2 DEF SenderTask
      <4> QED
        BY <4>1, <4>2
    <3> QED
      BY <3>1, <3>2
  <2> QED
    BY <1>3, <2>1, <2>3 DEF HInv, TypeOK
<1>6. Counted'
  BY <1>2, <1>3, <1>4 DEF HInv, Counted
<1>7. Undisturbed'
  <2>1. task'[s].alone => \A u \in Sender : u # s => task'[u].pc = "idle"
    BY <1>2, <1>4 DEF AllIdle
  <2> QED
    BY <1>2, <1>4, <2>1 DEF Undisturbed
<1> QED
  BY <1>5, <1>6, <1>7 DEF HInv

\* What a sender does on its own: the number, the rows, the counter.
LEMMA HealGoesOn ==
    ASSUME HInv, NEW s \in Sender,
           Incr(s) \/ ReadHighest(s) \/ SetCounter(s) \/ Conflict(s)
    PROVE  HInv'
<1>1. UNCHANGED <<stored, sent, reader, sends, losses>> /\ Highest' = Highest
  <2>1. UNCHANGED <<stored, sent, reader, sends, losses>>
    BY DEF Incr, ReadHighest, SetCounter, Conflict
  <2> QED
    BY <2>1 DEF Highest
<1>2. OneTask(s)
  BY DEF OneTask, Incr, ReadHighest, SetCounter, Conflict, HInv, TypeOK
<1>4. task[s].alone => \A u \in Sender : u # s => task[u].pc = "idle"
  BY DEF HInv, Undisturbed
<1>5. ASSUME task' \in [Sender -> SenderTask], counter' \in Nat
      PROVE  TypeOK'
  <2>1. UNCHANGED <<stored, sent, reader, sends, losses>>
    BY <1>1
  <2> QED
    BY <1>5, <2>1 DEF HInv, TypeOK, SenderTask
<1>3. /\ Highest \in Nat /\ Highest >= 1 /\ (\A m \in stored : m <= Highest /\ m \in Nat)
      /\ counter \in Nat
  BY HighestIsStored DEF HInv, TypeOK
<1>6. CASE Incr(s)
  <2>1. /\ counter' = counter + 1
        /\ task'[s] = [task[s] EXCEPT !.pc = IF counter + 1 < 2 THEN "reset" ELSE "store",
                                      !.id = counter + 1]
        /\ task[s].pc = "next"
        /\ task' = [task EXCEPT ![s] = task'[s]]
    BY <1>6 DEF Incr, NextId, HInv, TypeOK
  <2>2. /\ task'[s].alone = task[s].alone /\ task'[s].retry = task[s].retry
        /\ task'[s].id = counter + 1 /\ task'[s].pc \in {"reset", "store"}
        /\ task'[s] \in SenderTask
    <3> DEFINE c == IF counter + 1 < 2 THEN "reset" ELSE "store"
    <3>1. task[s] \in SenderTask /\ counter + 1 \in Nat /\ c \in {"reset", "store"}
      BY <1>3 DEF HInv, TypeOK, SenderTask
    <3>2. [task[s] EXCEPT !.pc = c, !.id = counter + 1] \in SenderTask
      BY <3>1, FilledIn
    <3>3. task'[s] = [task[s] EXCEPT !.pc = c, !.id = counter + 1]
      BY <2>1
    <3> HIDE DEF c
    <3> QED
      BY <3>1, <3>2, <3>3 DEF SenderTask
  <2>3. TypeOK'
    <3>1. task' \in [Sender -> SenderTask]
      BY <2>1, <2>2, TasksStay DEF HInv, TypeOK, SenderTask
    <3>2. counter' \in Nat
      BY <1>3, <2>1
    <3> QED
      BY <1>5, <3>1, <3>2
  <2>4. Counted'
    BY <1>1, <1>2, <1>3, <2>2 DEF HInv, Counted, OneTask
  <2>5. task[s].alone /\ task[s].retry => counter = Highest + 1
    BY <2>1 DEF HInv, Undisturbed
  <2>6. task'[s].alone /\ task'[s].retry => counter + 1 \notin stored /\ task'[s].pc = "store"
    <3>1. ASSUME task'[s].alone, task'[s].retry PROVE counter = Highest + 1
      BY <2>2, <2>5, <3>1
    <3>2. ASSUME counter = Highest + 1
          PROVE  counter + 1 \notin stored /\ ~(counter + 1 < 2)
      BY <1>3, <3>2
    <3>3. ~(counter + 1 < 2) => task'[s].pc = "store"
      BY <2>1 DEF HInv, TypeOK
    <3> QED
      BY <3>1, <3>2, <3>3
  <2>7. ASSUME NEW u \in Sender, u # s
        PROVE  ~task'[u].alone
    BY <1>2, <2>1, <2>7 DEF OneTask, HInv, Undisturbed
  <2>8. Undisturbed'
    BY <1>1, <1>2, <1>4, <2>2, <2>6, <2>7 DEF Undisturbed, OneTask, Taken
  <2> QED
    BY <2>3, <2>4, <2>8 DEF HInv
<1>7. CASE ReadHighest(s)
  <2>1. /\ counter' = counter /\ task[s].pc \in {"reset", "heal"}
        /\ task'[s] = [task[s] EXCEPT !.max = Highest,
                                      !.pc = IF task[s].pc = "reset" THEN "raise" ELSE "set"]
        /\ task' = [task EXCEPT ![s] = task'[s]]
    BY <1>7 DEF ReadHighest, HInv, TypeOK
  <2>2. /\ task'[s].alone = task[s].alone /\ task'[s].id = task[s].id
        /\ task'[s].max = Highest /\ task'[s].retry = task[s].retry
        /\ task'[s].pc = IF task[s].pc = "reset" THEN "raise" ELSE "set"
        /\ task'[s] \in SenderTask
    <3> DEFINE c == IF task[s].pc = "reset" THEN "raise" ELSE "set"
    <3>1. task[s] \in SenderTask /\ c \in {"raise", "set"}
      BY DEF HInv, TypeOK, SenderTask
    <3>2. [task[s] EXCEPT !.max = Highest, !.pc = c] \in SenderTask
      BY <1>3, <3>1, FilledIn
    <3>3. task'[s] = [task[s] EXCEPT !.max = Highest, !.pc = c]
      BY <2>1
    <3>4. c = IF task[s].pc = "reset" THEN "raise" ELSE "set"
      OBVIOUS
    <3> HIDE DEF c
    <3> QED
      BY <3>1, <3>2, <3>3, <3>4 DEF SenderTask
  <2>3. TypeOK'
    <3>1. task' \in [Sender -> SenderTask]
      BY <2>1, <2>2, TasksStay DEF HInv, TypeOK, SenderTask
    <3>2. counter' \in Nat
      BY <1>3, <2>1, <2>2
    <3> QED
      BY <1>5, <3>1, <3>2
  <2>4. Counted'
    <3>1. task[s].id # 0 /\ task'[s].id # 0 /\ task'[s].pc # "send" /\ stored' = stored
      BY <1>1, <2>1, <2>2 DEF HInv, Counted
    <3> QED
      BY <1>2, <3>1 DEF HInv, Counted, OneTask
  <2>5. ASSUME NEW u \in Sender, u # s
        PROVE  ~task'[u].alone
    BY <1>2, <2>1, <2>5 DEF OneTask, HInv, Undisturbed
  <2>6. task[s].alone /\ task[s].retry => task[s].pc = "heal"
    BY <2>1 DEF HInv, Undisturbed
  <2>7. Undisturbed'
    BY <1>1, <1>2, <1>4, <2>2, <2>5, <2>6 DEF Undisturbed, OneTask
  <2> QED
    BY <2>3, <2>4, <2>7 DEF HInv
<1>8. CASE SetCounter(s)
  <2>1. /\ counter' = task[s].max + 1 /\ task[s].pc \in {"raise", "set"}
        /\ task'[s] = [task[s] EXCEPT !.pc = IF task[s].pc = "raise" THEN "store" ELSE "next",
                                      !.retry = task[s].retry \/ task[s].pc = "set"]
        /\ task' = [task EXCEPT ![s] = task'[s]]
    BY <1>8 DEF SetCounter, Healed, HInv, TypeOK
  <2>2. /\ task'[s].alone = task[s].alone /\ task'[s].id = task[s].id
        /\ task'[s].retry = (task[s].retry \/ task[s].pc = "set") /\ task[s].max \in Nat
        /\ task'[s].pc = IF task[s].pc = "raise" THEN "store" ELSE "next"
        /\ task'[s] \in SenderTask
    <3> DEFINE c == IF task[s].pc = "raise" THEN "store" ELSE "next"
               b == task[s].retry \/ task[s].pc = "set"
    <3>1. task[s] \in SenderTask /\ c \in {"store", "next"} /\ b \in BOOLEAN
      BY DEF HInv, TypeOK, SenderTask
    <3>2. [task[s] EXCEPT !.pc = c, !.retry = b] \in SenderTask
      BY <3>1, FilledIn
    <3>3. task'[s] = [task[s] EXCEPT !.pc = c, !.retry = b]
      BY <2>1
    <3>4. /\ c = IF task[s].pc = "raise" THEN "store" ELSE "next"
          /\ b = (task[s].retry \/ task[s].pc = "set")
      OBVIOUS
    <3> HIDE DEF c, b
    <3> QED
      BY <3>1, <3>2, <3>3, <3>4 DEF SenderTask
  <2>3. TypeOK'
    <3>1. task' \in [Sender -> SenderTask]
      BY <2>1, <2>2, TasksStay DEF HInv, TypeOK, SenderTask
    <3>2. counter' \in Nat
      BY <1>3, <2>1, <2>2
    <3> QED
      BY <1>5, <3>1, <3>2
  <2>4. Counted'
    <3>1. task[s].id # 0 /\ task'[s].id # 0 /\ task'[s].pc # "send" /\ stored' = stored
      BY <1>1, <2>1, <2>2 DEF HInv, Counted
    <3> QED
      BY <1>2, <3>1 DEF HInv, Counted, OneTask
  <2>5. ASSUME NEW u \in Sender, u # s
        PROVE  ~task'[u].alone
    BY <1>2, <2>1, <2>5 DEF OneTask, HInv, Undisturbed
  <2>6. task[s].alone =>
          /\ task[s].pc = "set" => counter' = Highest + 1
          /\ task[s].pc = "raise" => ~task[s].retry
    BY <2>1 DEF HInv, Undisturbed
  <2>7. Undisturbed'
    <3>1. CASE task[s].pc = "raise"
      <4>1. task'[s].pc = "store" /\ (task'[s].retry <=> task[s].retry)
        BY <2>2, <3>1
      <4> QED
        BY <1>1, <1>2, <1>4, <2>2, <2>5, <2>6, <3>1, <4>1 DEF Undisturbed, OneTask
    <3>2. CASE task[s].pc = "set"
      <4>1. task'[s].pc = "next"
        BY <2>2, <3>2
      <4> QED
        BY <1>1, <1>2, <1>4, <2>2, <2>5, <2>6, <3>2, <4>1 DEF Undisturbed, OneTask
    <3> QED
      BY <2>1, <3>1, <3>2
  <2> QED
    BY <2>3, <2>4, <2>7 DEF HInv
<1>9. CASE Conflict(s)
  <2>1. /\ counter' = counter /\ task[s].pc = "store" /\ ~task[s].retry
        /\ task'[s] = [task[s] EXCEPT !.pc = "heal"]
        /\ task' = [task EXCEPT ![s] = task'[s]]
    BY <1>9 DEF Conflict, HInv, TypeOK
  <2>2. /\ task'[s].alone = task[s].alone /\ task'[s].id = task[s].id
        /\ task'[s].retry = task[s].retry /\ task'[s].pc = "heal"
        /\ task'[s] \in [pc : {"idle", "next", "reset", "raise", "store", "heal", "set", "send"},
                         id : Nat, max : Nat, retry : BOOLEAN, alone : BOOLEAN]
    BY <2>1 DEF HInv, TypeOK
  <2>3. TypeOK'
    <3>1. task' \in [Sender -> SenderTask]
      BY <2>1, <2>2, TasksStay DEF HInv, TypeOK, SenderTask
    <3>2. counter' \in Nat
      BY <1>3, <2>1, <2>2
    <3> QED
      BY <1>5, <3>1, <3>2
  <2>4. Counted'
    BY <1>1, <1>2, <2>1, <2>2 DEF HInv, Counted, OneTask
  <2>5. ASSUME NEW u \in Sender, u # s
        PROVE  ~task'[u].alone
    BY <1>2, <2>1, <2>5 DEF OneTask, HInv, Undisturbed
  <2>6. Undisturbed'
    BY <1>1, <1>2, <1>4, <2>2, <2>5 DEF Undisturbed, OneTask
  <2> QED
    BY <2>3, <2>4, <2>6 DEF HInv
<1> QED
  BY <1>6, <1>7, <1>8, <1>9

\* An event is stored: its number may be the highest from then on.
LEMMA HealStore ==
    ASSUME HInv, NEW s \in Sender, Store(s)
    PROVE  HInv'
<1>1. /\ stored' = stored \cup {task[s].id} /\ task[s].pc = "store"
      /\ task'[s] = [task[s] EXCEPT !.pc = "send"] /\ task' = [task EXCEPT ![s] = task'[s]]
      /\ UNCHANGED <<counter, sent, reader, sends, losses>>
  BY DEF Store, HInv, TypeOK
<1>2. task[s].id \in Nat \ {0}
  BY <1>1 DEF HInv, TypeOK, Counted
<1>3. /\ task'[s].id = task[s].id /\ task'[s].alone = task[s].alone /\ task'[s].pc = "send"
      /\ task'[s] \in [pc : {"idle", "next", "reset", "raise", "store", "heal", "set", "send"},
                       id : Nat, max : Nat, retry : BOOLEAN, alone : BOOLEAN]
  BY <1>1 DEF HInv, TypeOK
<1>4. OneTask(s)
  BY <1>1 DEF OneTask, HInv, TypeOK
<1>5. TypeOK'
  BY <1>1, <1>2, <1>3 DEF HInv, TypeOK
<1>6. Counted'
  <2>1. \E n \in stored' : \A m \in stored' : m <= n
    <3>1. Highest \in stored /\ Highest \in Nat /\ \A m \in stored : m <= Highest /\ m \in Nat
      BY HighestIsStored DEF HInv, TypeOK
    <3>2. CASE task[s].id <= Highest
      BY <1>1, <3>1, <3>2
    <3>3. CASE ~(task[s].id <= Highest)
      <4>1. \A m \in stored' : m <= task[s].id
        BY <1>1, <1>2, <3>1, <3>3
      <4> QED
        BY <1>1, <4>1
    <3> QED
      BY <3>2, <3>3
  <2>2. \A u \in Sender : task'[u].pc \notin {"idle", "next"} =>
          task'[u].id # 0 /\ (task'[u].pc = "send" => task'[u].id \in stored')
    BY <1>1, <1>2, <1>3, <1>4 DEF HInv, Counted, OneTask
  <2> QED
    BY <2>1, <2>2 DEF Counted
<1>7. Undisturbed'
  <2>1. ASSUME NEW u \in Sender, u # s
        PROVE  ~task'[u].alone
    BY <1>1, <1>4, <2>1 DEF OneTask, HInv, Undisturbed
  <2>2. task[s].alone => \A u \in Sender : u # s => task[u].pc = "idle"
    BY DEF HInv, Undisturbed
  <2>3. task'[s].pc = "send" /\ task'[s].alone = task[s].alone
    BY <1>3
  <2> QED
    BY <1>4, <2>1, <2>2, <2>3 DEF Undisturbed, OneTask
<1> QED
  BY <1>5, <1>6, <1>7 DEF HInv

\* The event is sent or refused, or the server stops: the sender is free again.
LEMMA HealEnds ==
    ASSUME HInv, NEW s \in Sender, Send(s) \/ Refuse(s) \/ Die(s)
    PROVE  HInv'
<1>1. task' = [task EXCEPT ![s] = NoTask] /\ UNCHANGED <<counter, stored, sends, losses>>
  BY DEF Send, Refuse, Die
<1>2. task'[s] = NoTask /\ OneTask(s) /\ Highest' = Highest
  BY <1>1 DEF OneTask, HInv, TypeOK, Highest
<1>3. task' \in [Sender -> [pc : {"idle", "next", "reset", "raise", "store", "heal", "set", "send"},
                            id : Nat, max : Nat, retry : BOOLEAN, alone : BOOLEAN]]
  BY <1>1 DEF HInv, TypeOK, NoTask
<1>4. sent' \subseteq stored /\ reader' \in [Reader -> [pc : {"away", "joined", "empty", "told", "reading"},
                                             last : Nat, seen : SUBSET Nat]]
  <2>1. CASE Send(s)
    <3>1. task[s].id \in stored /\ task[s].id \in Nat
      BY <2>1 DEF Send, HInv, Counted, TypeOK
    <3> QED
      BY <2>1, <3>1 DEF Send, HInv, TypeOK
  <2>2. CASE Refuse(s) \/ Die(s)
    BY <2>2 DEF Refuse, Die, HInv, TypeOK
  <2> QED
    BY <2>1, <2>2
<1>5. TypeOK'
  BY <1>1, <1>3, <1>4 DEF HInv, TypeOK
<1>6. Counted'
  BY <1>1, <1>2 DEF HInv, Counted, OneTask, NoTask
<1>7. Undisturbed'
  <2>1. ~task'[s].alone /\ task'[s].pc = "idle"
    BY <1>2 DEF NoTask
  <2> QED
    BY <1>1, <1>2, <2>1 DEF HInv, Undisturbed, OneTask, Taken
<1> QED
  BY <1>5, <1>6, <1>7 DEF HInv

LEMMA HealReads ==
    ASSUME HInv, NEW r \in Reader,
           Join(r) \/ GetLast(r) \/ GetLastStored(r) \/ Fetch(r) \/ Leave(r)
    PROVE  HInv'
<1>1. UNCHANGED <<counter, stored, sent, task, sends, losses>>
  BY DEF Join, GetLast, GetLastStored, Fetch, Leave, Step
<1>2. Highest' = Highest /\ Highest \in Nat
  BY <1>1, HighestIsStored DEF Highest, HInv
<1>3. reader' \in [Reader -> [pc : {"away", "joined", "empty", "told", "reading"},
                              last : Nat, seen : SUBSET Nat]]
  <2>1. stored \subseteq Nat /\ counter \in Nat
    BY DEF HInv, TypeOK
  <2>2. \A next \in [pc : {"away", "joined", "empty", "told", "reading"}, last : Nat,
                     seen : SUBSET Nat] :
          Step(r, next) => reader' \in [Reader -> [pc : {"away", "joined", "empty", "told", "reading"},
                                                   last : Nat, seen : SUBSET Nat]]
    BY DEF Step, HInv, TypeOK
  <2>3. CASE Join(r) \/ Leave(r)
    BY <2>2, <2>3 DEF Join, Leave, Away, HInv, TypeOK
  <2>4. CASE GetLast(r)
    BY <2>1, <2>2, <2>4 DEF GetLast, Last, HInv, TypeOK
  <2>5. CASE GetLastStored(r)
    BY <1>2, <2>2, <2>5 DEF GetLastStored, HInv, TypeOK
  <2>6. CASE Fetch(r)
    <3>1. {i \in stored : i <= reader[r].last} \subseteq Nat
      BY <2>1
    <3> QED
      BY <2>2, <2>6, <3>1 DEF Fetch, HInv, TypeOK
  <2> QED
    BY <2>3, <2>4, <2>5, <2>6
<1> QED
  BY <1>1, <1>2, <1>3 DEF HInv, TypeOK, Counted, Undisturbed, Taken

LEMMA HealLose ==
    ASSUME HInv, Lose
    PROVE  HInv'
<1>1. /\ losses' = losses + 1 /\ losses < MaxLosses /\ counter' = 0
      /\ UNCHANGED <<stored, sent, reader, sends>>
      /\ task' = [s \in Sender |-> [task[s] EXCEPT !.alone = FALSE]]
  BY DEF Lose, None
<1>2. \A s \in Sender : /\ task'[s].pc = task[s].pc /\ task'[s].id = task[s].id
                        /\ task'[s].alone = FALSE
  BY <1>1 DEF HInv, TypeOK
<1>3. task' \in [Sender -> [pc : {"idle", "next", "reset", "raise", "store", "heal", "set", "send"},
                            id : Nat, max : Nat, retry : BOOLEAN, alone : BOOLEAN]]
  BY <1>1 DEF HInv, TypeOK
<1>4. losses' \in 0..MaxLosses
  BY <1>1, FirstAssumption DEF HInv, TypeOK
<1> QED
  BY <1>1, <1>2, <1>3, <1>4 DEF HInv, TypeOK, Counted, Undisturbed

LEMMA HealSteps == HInv /\ [Next]_vars => HInv'
<1> SUFFICES ASSUME HInv, [Next]_vars PROVE HInv'
  OBVIOUS
<1>1. CASE UNCHANGED vars
  BY <1>1 DEF vars, HInv, TypeOK, Counted, Undisturbed, Taken, Highest
<1>2. CASE Next
  BY <1>2, HealBegin, HealGoesOn, HealStore, HealEnds, HealReads, HealLose DEF Next, Go
<1> QED
  BY <1>1, <1>2

LEMMA HealInvariance == Spec => []HInv
  BY HealInitially, HealSteps, PTL DEF Spec

\* Whatever is lost, and however many send: the counter, the rows and what connections carry
\* are well formed, and nothing is sent that is not stored.
THEOREM ChatTyped == Spec => []TypeOK
<1>1. HInv => TypeOK
  BY DEF HInv
<1> QED
  BY <1>1, HealInvariance, PTL

\* An event that is created while nothing else happens is never refused, however far the
\* counter had fallen behind before: the second number it gets is above every stored one.
THEOREM ChatHeals == Spec => Heals
<1>1. HInv /\ [Next]_vars => [\A s \in Sender : task[s].alone => ~Refuse(s)]_vars
  BY DEF HInv, Undisturbed, Refuse
<1> QED
  BY <1>1, HealInvariance, PTL DEF Spec, Heals
=============================================================================
