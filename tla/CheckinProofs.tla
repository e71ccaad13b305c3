---------------------------- MODULE CheckinProofs ----------------------------
(***************************************************************************)
(* Proofs about Checkin, for any number of workers, nonces and gates, any  *)
(* settings and no bound on time or rows that matters.  The invariant says *)
(* that what a worker has judged under the lock on the position is still   *)
(* so when it records: nobody else is past the lock, and rows only come    *)
(* from there, from process_exit_all (which waits) or go by a revert.      *)
(***************************************************************************)
EXTENDS Checkin, SequenceTheorems, TLAPS

\* What was judged still holds.
Judged(w) ==
    /\ job[w].allowed \/ job[w].force
    /\ job[w].type = "entry" /\ job[w].allowed /\ ~clist.multiple /\ ~clist.reentry => rows = <<>>
    /\ job[w].n # NoNonce =>
         \A i \in DOMAIN rows : ~(rows[i].type = job[w].type /\ rows[i].nonce = job[w].n)
    /\ job[w].type = "entry" /\ ~job[w].force => ~LimitViolated(job[w].n, job[w].at)

Alone == \A v, w \in Worker : pc[v] = "judged" /\ pc[w] = "judged" => v = w

IInv ==
    /\ TypeOK
    /\ Alone
    /\ \A w \in Worker : pc[w] = "judged" => Judged(w)
    /\ OneEntry
    /\ OncePerLimit
    /\ NonceOnce

\* Midnight is not after the time it is the midnight of.
LEMMA MidnightBefore == ASSUME NEW t \in Int PROVE Midnight(t) \in Int /\ Midnight(t) <= t
  BY BoundAssumption DEF Midnight

LEMMA InitInv == Init => IInv
<1> SUFFICES ASSUME Init PROVE IInv
  OBVIOUS
<1>a. AutoRow \in Row
  BY DEF AutoRow, Row, Type, Caller
<1>b. <<AutoRow>> \in Seq(Row) /\ <<>> \in Seq(Row)
  BY <1>a
<1>1. rows \in Seq(Row)
  BY <1>b DEF Init
<1>2. TypeOK
  <2>1. clist \in Setting /\ exitAt \in Int /\ now \in Time
    BY ScanAssumption, BoundAssumption DEF Init, Time
  <2>2. job \in [Worker -> [n : Caller, type : Type, force : BOOLEAN, ignore : BOOLEAN,
                             at : Time, allowed : BOOLEAN]]
    BY BoundAssumption DEF Init, NoJob, Type, Time, Caller
  <2>3. \A n \in Nonce :
           (\A w \in Worker : job[w].n # n) /\ (\A i \in DOMAIN rows : rows[i].nonce # n)
    BY ScanAssumption DEF Init, NoJob, AutoRow
  <2>4. sent \in [Nonce -> Request \cup {NoScan}]
    BY DEF Init
  <2>5. /\ order \in {"n", "p", "c"} /\ canceled \in BOOLEAN /\ told \in SUBSET Nonce
        /\ leaving \in {"idle", "inside", "outside"}
        /\ pc \in [Worker -> {"idle", "loaded", "judged"}]
    BY DEF Init
  <2> QED
    BY <1>1, <2>1, <2>2, <2>3, <2>4, <2>5 DEF TypeOK
<1>3. \A i, k \in DOMAIN rows : i = k
  BY DEF Init
<1>4. Alone /\ \A w \in Worker : pc[w] # "judged"
  BY DEF Init, Alone
<1> QED
  BY <1>2, <1>3, <1>4 DEF IInv, OneEntry, OncePerLimit, NonceOnce

\* Steps that touch neither rows nor workers.
LEMMA Aside ==
  ASSUME IInv, TypeOK', UNCHANGED <<clist, rows, pc, job>>
  PROVE  IInv'
  BY DEF IInv, Alone, Judged, LimitViolated, Midnight, OneEntry, OncePerLimit, NonceOnce

\* Steps after which nobody new is past the lock.
LEMMA Leave ==
  ASSUME IInv, TypeOK', NEW w \in Worker, pc' = [pc EXCEPT ![w] = "idle"] \/ pc' = [pc EXCEPT ![w] = "loaded"],
         \A v \in Worker \ {w} : job'[v] = job[v], UNCHANGED <<clist, rows>>
  PROVE  IInv'
<1>1. \A v \in Worker : pc'[v] = "judged" => v # w /\ pc[v] = "judged"
  BY DEF IInv, TypeOK
<1>2. Alone'
  BY <1>1 DEF IInv, Alone
<1>3. ASSUME NEW v \in Worker, pc'[v] = "judged" PROVE Judged(v)'
  BY <1>1, <1>3 DEF IInv, Judged, LimitViolated, Midnight
<1>4. (OneEntry /\ OncePerLimit /\ NonceOnce)'
  BY DEF IInv, OneEntry, OncePerLimit, NonceOnce, Midnight
<1> QED
  BY <1>2, <1>3, <1>4 DEF IInv

LEMMA AnswerType ==
  ASSUME TypeOK, NEW w \in Worker, NEW a, Answer(w, a)
  PROVE  /\ told' \in SUBSET Nonce
         /\ pc' \in [Worker -> {"idle", "loaded", "judged"}]
         /\ job' \in [Worker -> [n : Caller, type : Type, force : BOOLEAN, ignore : BOOLEAN,
                                 at : Time, allowed : BOOLEAN]]
         /\ \A v \in Worker : job'[v].n \in {job[v].n, NoNonce}
         /\ \A v \in Worker \ {w} : job'[v] = job[v]
  BY BoundAssumption DEF TypeOK, Answer, NoJob, Caller, Type, Time

LEMMA JudgeStep == ASSUME IInv, NEW w \in Worker, Judge(w) PROVE IInv'
<1> DEFINE j == job[w]
           unchanged == UNCHANGED <<clist, now, orderVars, sent, rows, exitAt, leaving>>
<1>0. j.n \in Caller /\ j.type \in Type /\ j.at \in Int /\ unchanged /\ TypeOK
  BY BoundAssumption DEF IInv, TypeOK, Judge, Time
<1>1. ASSUME NEW a, Answer(w, a) PROVE IInv'
  <2>1. TypeOK'
    BY <1>0, <1>1, AnswerType, ScanAssumption DEF TypeOK, orderVars
  <2> QED
    BY <1>0, <1>1, <2>1, AnswerType, Leave DEF Answer
<1>2. ASSUME NEW last, last \in (IF rows = <<>> THEN {{}} ELSE {{rows[i]} : i \in Latest}),
             Verdict(j, last) = "record",
             pc[w] = "loaded", PositionFree,
             pc' = [pc EXCEPT ![w] = "judged"],
             job' = [job EXCEPT ![w].allowed = Allowed(j, last)],
             UNCHANGED told
      PROVE  IInv'
  <2>0. Allowed(j, last) \in BOOLEAN
    BY DEF Allowed
  <2>1. TypeOK'
    BY <1>0, <1>2, <2>0 DEF TypeOK, orderVars
  <2>2. Alone'
    BY <1>0, <1>2 DEF TypeOK, Alone, PositionFree
  <2>3. /\ job'[w].n = j.n /\ job'[w].type = j.type /\ job'[w].at = j.at
        /\ job'[w].force = j.force /\ job'[w].allowed = Allowed(j, last)
    BY <1>0, <1>2 DEF TypeOK
  <2>4. ~Repeated(j, last) /\ (Allowed(j, last) \/ j.force)
    BY <1>2 DEF Verdict
  <2>5. j.type = "entry" /\ Allowed(j, last) /\ ~clist.multiple /\ ~clist.reentry => rows = <<>>
    BY <1>2 DEF Allowed, EntryAllowed
  <2>6. j.type = "entry" /\ ~j.force => ~LimitViolated(j.n, j.at)
    BY <1>2, <2>4 DEF Allowed
  <2>7. Judged(w)'
    BY <1>0, <2>3, <2>4, <2>5, <2>6 DEF Judged, Repeated, LimitViolated, Midnight
  <2>8. \A v \in Worker : pc'[v] = "judged" => v = w
    BY <1>0, <1>2 DEF TypeOK, PositionFree
  <2>9. (OneEntry /\ OncePerLimit /\ NonceOnce)'
    BY <1>0 DEF IInv, OneEntry, OncePerLimit, NonceOnce, Midnight
  <2> QED
    BY <2>1, <2>2, <2>7, <2>8, <2>9 DEF IInv
<1>3. CASE ~Paid(j)
  BY <1>1, <1>3 DEF Judge
<1>4. CASE Paid(j)
  <2> PICK last \in (IF rows = <<>> THEN {{}} ELSE {{rows[i]} : i \in Latest}) :
         \/ Verdict(j, last) = "repeated" /\ Answer(w, "ok")
         \/ Verdict(j, last) = "redeemed" /\ Answer(w, "redeemed")
         \/ /\ Verdict(j, last) = "record"
            /\ pc' = [pc EXCEPT ![w] = "judged"]
            /\ job' = [job EXCEPT ![w].allowed = Allowed(j, last)]
            /\ UNCHANGED told
    BY <1>4 DEF Judge
  <2>1. pc[w] = "loaded" /\ PositionFree
    BY DEF Judge
  <2> QED
    BY <1>1, <1>2, <2>1
<1> QED
  BY <1>3, <1>4

LEMMA RecordStep == ASSUME IInv, NEW w \in Worker, Record(w) PROVE IInv'
<1> DEFINE j == job[w]
           r == [type |-> j.type, at |-> j.at, nonce |-> j.n,
                 forced |-> j.force /\ ~j.allowed, override |-> j.force]
<1>1. /\ TypeOK /\ Judged(w) /\ pc[w] = "judged" /\ rows' = Append(rows, r)
      /\ Answer(w, "ok")
      /\ UNCHANGED <<clist, now, orderVars, sent, exitAt, leaving>>
  BY DEF IInv, Record
<1>2. r \in Row /\ r.type = j.type /\ r.at = j.at /\ r.nonce = j.n /\ r.override = j.force
      /\ (r.forced <=> j.force /\ ~j.allowed) /\ r.at \in Int /\ r.nonce \in Caller
  <2>1. j.type \in Type /\ j.at \in Int /\ j.n \in Caller /\ j.force \in BOOLEAN /\ j.allowed \in BOOLEAN
    BY <1>1, BoundAssumption DEF TypeOK, Time
  <2> QED
    BY <2>1 DEF Row
<1> HIDE DEF r
<1>3. /\ rows \in Seq(Row) /\ rows' \in Seq(Row)
      /\ DOMAIN rows' = DOMAIN rows \cup {Len(rows) + 1}
      /\ Len(rows) + 1 \notin DOMAIN rows
      /\ \A i \in DOMAIN rows : rows'[i] = rows[i] /\ rows[i] \in Row
      /\ rows'[Len(rows) + 1] = r
  BY <1>1, <1>2 DEF TypeOK
<1>4. TypeOK'
  <2>1. \A n \in Nonce : sent'[n] = NoScan => \A i \in DOMAIN rows' : rows'[i].nonce # n
    BY <1>1, <1>2, <1>3 DEF TypeOK
  <2>2. \A n \in Nonce : sent'[n] = NoScan => \A v \in Worker : job'[v].n # n
    BY <1>1, AnswerType, ScanAssumption DEF TypeOK
  <2> QED
    BY <1>1, <1>3, <2>1, <2>2, AnswerType DEF TypeOK, orderVars
<1>5. \A v \in Worker : pc'[v] # "judged"
  BY <1>1 DEF IInv, Alone, Answer, TypeOK
<1>6. Alone'
  BY <1>5 DEF Alone
<1>7. OneEntry'
  BY <1>1, <1>2, <1>3 DEF IInv, OneEntry, Judged
<1>8. NonceOnce'
  BY <1>1, <1>2, <1>3 DEF IInv, NonceOnce, Judged
<1>9. OncePerLimit'
  <2>1. ASSUME NEW i \in DOMAIN rows, clist.daily \/ clist.gated,
               rows[i].type = "entry", r.type = "entry", ~r.override,
               clist.daily => Midnight(rows[i].at) = Midnight(r.at),
               clist.gated => GateOf[rows[i].nonce] = GateOf[r.nonce]
        PROVE  FALSE
    <3>1. rows[i].at \in Int
      BY <1>3 DEF Row
    <3>2. clist.daily => rows[i].at >= Midnight(r.at)
      BY <2>1, <3>1, <1>2, MidnightBefore
    <3> QED
      BY <2>1, <3>2, <1>1, <1>2 DEF Judged, LimitViolated
  <2> QED
    BY <1>1, <1>3, <2>1 DEF IInv, OncePerLimit, Midnight
<1> QED
  BY <1>4, <1>5, <1>6, <1>7, <1>8, <1>9 DEF IInv

LEMMA LoadStep ==
  ASSUME IInv, NEW w \in Worker, (\E n \in Nonce : LoadScan(w, n)) \/ LoadClerk(w)
  PROVE  IInv'
<1>1. TypeOK'
  <2>1. CASE \E n \in Nonce : LoadScan(w, n)
    <3> PICK n \in Nonce : LoadScan(w, n)
      BY <2>1
    <3>1. sent[n] \in Request
      BY DEF IInv, TypeOK, LoadScan, Made
    <3>2. job'[w] \in [n : Caller, type : Type, force : BOOLEAN, ignore : BOOLEAN,
                        at : Time, allowed : BOOLEAN] /\ job'[w].n = n
      BY <3>1 DEF IInv, TypeOK, LoadScan, Caller, Request
    <3> QED
      BY <3>1, <3>2, ScanAssumption DEF IInv, TypeOK, LoadScan, Made, orderVars
  <2>2. CASE LoadClerk(w)
    <3> PICK type \in Type :
          job' = [job EXCEPT ![w] = [n |-> NoNonce, type |-> type, force |-> FALSE,
                                     ignore |-> clist.pending, at |-> now, allowed |-> FALSE]]
      BY <2>2 DEF LoadClerk
    <3>1. clist.pending \in BOOLEAN /\ now \in Time
      BY DEF IInv, TypeOK, Setting
    <3>2. job'[w] \in [n : Caller, type : Type, force : BOOLEAN, ignore : BOOLEAN,
                        at : Time, allowed : BOOLEAN] /\ job'[w].n = NoNonce
      BY <3>1 DEF IInv, TypeOK, Caller
    <3> QED
      BY <2>2, <3>2, ScanAssumption DEF IInv, TypeOK, LoadClerk, orderVars
  <2> QED
    BY <2>1, <2>2
<1>2. pc' = [pc EXCEPT ![w] = "loaded"] /\ (\A v \in Worker \ {w} : job'[v] = job[v])
      /\ UNCHANGED <<clist, rows>>
  BY DEF IInv, TypeOK, LoadScan, LoadClerk
<1> QED
  BY <1>1, <1>2, Leave

LEMMA DieStep == ASSUME IInv, NEW w \in Worker, Die(w) PROVE IInv'
<1>1. NoJob \in [n : Caller, type : Type, force : BOOLEAN, ignore : BOOLEAN,
                 at : Time, allowed : BOOLEAN] /\ NoJob.n = NoNonce
  BY BoundAssumption DEF NoJob, Caller, Type, Time
<1>2. TypeOK'
  BY <1>1, ScanAssumption DEF IInv, TypeOK, Die, orderVars
<1> QED
  BY <1>2, Leave DEF Die, IInv, TypeOK

LEMMA RevertStep == ASSUME IInv, Revert PROVE IInv'
<1>1. TypeOK'
  BY DEF IInv, TypeOK, Revert, orderVars
<1>2. Alone' /\ (OneEntry /\ OncePerLimit /\ NonceOnce)'
  BY DEF IInv, Revert, Alone, OneEntry, OncePerLimit, NonceOnce
<1>3. ASSUME NEW w \in Worker, pc'[w] = "judged" PROVE Judged(w)'
  BY <1>3 DEF IInv, Revert, Judged, LimitViolated
<1> QED
  BY <1>1, <1>2, <1>3 DEF IInv

LEMMA ExitAllWriteStep == ASSUME IInv, ExitAllWrite PROVE IInv'
<1> DEFINE r == [type |-> "exit", at |-> exitAt, nonce |-> NoNonce,
                 forced |-> FALSE, override |-> FALSE]
<1>1. r \in Row /\ r.type = "exit" /\ r.nonce = NoNonce
  BY DEF IInv, TypeOK, Row, Type, Caller
<1> HIDE DEF r
<1>2. rows \in Seq(Row) /\ rows' = Append(rows, r)
  BY DEF IInv, TypeOK, ExitAllWrite, r
<1>3. /\ rows' \in Seq(Row)
      /\ DOMAIN rows' = DOMAIN rows \cup {Len(rows) + 1}
      /\ \A i \in DOMAIN rows : rows'[i] = rows[i]
      /\ rows'[Len(rows) + 1] = r
  BY <1>1, <1>2
<1>4. TypeOK'
  BY <1>1, <1>3, ScanAssumption DEF IInv, TypeOK, ExitAllWrite, orderVars
<1>5. \A w \in Worker : pc'[w] # "judged"
  BY DEF ExitAllWrite, PositionFree
<1>6. (OneEntry /\ OncePerLimit /\ NonceOnce)'
  BY <1>1, <1>3 DEF IInv, ExitAllWrite, OneEntry, OncePerLimit, NonceOnce, Midnight
<1> QED
  BY <1>4, <1>5, <1>6 DEF IInv, Alone

LEMMA AsideStep ==
  ASSUME IInv, \/ Tick \/ OrderChanges \/ ExitAllRead \/ ExitAllDone \/ ExitAllDie
               \/ \E n \in Nonce : Scan(n)
  PROVE  IInv'
<1>1. UNCHANGED <<clist, rows, pc, job>>
  BY DEF Tick, OrderChanges, ExitAllRead, ExitAllDone, ExitAllDie, Scan
<1>2. TypeOK'
  <2>1. CASE Tick
    BY <2>1, BoundAssumption DEF IInv, TypeOK, Tick, Time, orderVars
  <2>2. CASE OrderChanges
    BY <2>2 DEF IInv, TypeOK, OrderChanges, Pay, Unpay, CancelOrder, CancelPosition, Reactivate
  <2>3. CASE ExitAllRead \/ ExitAllDone \/ ExitAllDie
    BY <2>3, BoundAssumption DEF IInv, TypeOK, ExitAllRead, ExitAllDone, ExitAllDie, orderVars
  <2>4. ASSUME NEW n \in Nonce, Scan(n) PROVE TypeOK'
    <3>1. clist.pending \in BOOLEAN /\ now \in Time /\ 0 \in Time
      BY BoundAssumption DEF IInv, TypeOK, Setting, Time
    <3>2. PICK q \in Request : sent' = [sent EXCEPT ![n] = q]
      <4> PICK type \in Type, force \in Choice("force" \in Ops), ignore \in Choice(clist.pending) :
             \E at \in {0} \cup (IF "late" \in Ops THEN {now} ELSE {}) :
               sent' = [sent EXCEPT ![n] = [type |-> type, force |-> force, ignore |-> ignore, at |-> at]]
        BY <2>4 DEF Scan
      <4> PICK at \in {0} \cup (IF "late" \in Ops THEN {now} ELSE {}) :
            sent' = [sent EXCEPT ![n] = [type |-> type, force |-> force, ignore |-> ignore, at |-> at]]
        OBVIOUS
      <4>1. force \in BOOLEAN /\ ignore \in BOOLEAN
        BY DEF Choice
      <4>2. at \in Time
        BY <3>1
      <4> QED
        BY <4>1, <4>2 DEF Request
    <3>3. q # NoScan
      BY DEF Request, NoScan, Type
    <3>4. sent' \in [Nonce -> Request \cup {NoScan}] /\ \A k \in Nonce : sent'[k] = NoScan => sent[k] = NoScan
      BY <3>2, <3>3 DEF IInv, TypeOK
    <3> QED
      BY <2>4, <3>4 DEF IInv, TypeOK, Scan, orderVars
  <2> QED
    BY <2>1, <2>2, <2>3, <2>4
<1> QED
  BY <1>1, <1>2, Aside

LEMMA StepInv == IInv /\ [Next]_vars => IInv'
<1> SUFFICES ASSUME IInv, [Next]_vars PROVE IInv'
  OBVIOUS
<1>1. CASE UNCHANGED vars
  <2>1. TypeOK'
    BY <1>1 DEF IInv, TypeOK, vars, orderVars
  <2> QED
    BY <1>1, <2>1, Aside DEF vars
<1>2. CASE Next
  BY <1>2, AsideStep, RevertStep, ExitAllWriteStep, LoadStep, JudgeStep, RecordStep, DieStep DEF Next
<1> QED
  BY <1>1, <1>2

\* Rows, requests and answers are well formed; what is handled or recorded for a nonce is
\* a scan that was made with it.
THEOREM TypeCorrect == Spec => []TypeOK
  BY InitInv, StepInv, PTL DEF Spec, IInv

\* A list that allows neither several entries nor coming back admits a ticket once.
THEOREM AdmittedOnce == Spec => []OneEntry
  BY InitInv, StepInv, PTL DEF Spec, IInv

\* The limits per day and per gate hold in whatever order scans are reported.
THEOREM LimitsKept == Spec => []OncePerLimit
  BY InitInv, StepInv, PTL DEF Spec, IInv

\* A repeated request is recorded once, whatever was scanned in between.
THEOREM RecordedOnce == Spec => []NonceOnce
  BY InitInv, StepInv, PTL DEF Spec, IInv

-----------------------------------------------------------------------------
(* A repetition asks for the same as the scan it repeats.                    *)

Same ==
    /\ \A w \in Worker : job[w].n \in Nonce => job[w].type = sent[job[w].n].type
    /\ \A i \in DOMAIN rows : rows[i].nonce \in Nonce => rows[i].type = sent[rows[i].nonce].type

\* What was sent once is not sent otherwise.
LEMMA SentStays ==
    ASSUME TypeOK, Next, NEW n \in Nonce, sent[n] # NoScan
    PROVE  sent'[n] = sent[n]
<1>1. CASE \E m \in Nonce : Scan(m)
  BY <1>1 DEF Scan, Made, TypeOK
<1>2. CASE ~\E m \in Nonce : Scan(m)
  BY <1>2 DEF Next, Tick, Revert, OrderChanges, ExitAllRead, ExitAllWrite, ExitAllDone, ExitAllDie,
              LoadScan, LoadClerk, Judge, Record, Die
<1> QED
  BY <1>1, <1>2

\* Those who are handled ask what they were sent for.
LEMMA JobsSame ==
    ASSUME TypeOK, Same, Next, NEW w \in Worker, job'[w].n \in Nonce
    PROVE  job'[w].type = sent[job'[w].n].type /\ sent[job'[w].n] # NoScan
<1>1. CASE job'[w].n = job[w].n /\ job'[w].type = job[w].type
  BY <1>1 DEF TypeOK, Same
<1>2. CASE job' = job
  BY <1>2 DEF TypeOK, Same
<1>3. ASSUME NEW v \in Worker, NEW n \in Nonce, LoadScan(v, n)
      PROVE  job'[w].type = sent[job'[w].n].type /\ sent[job'[w].n] # NoScan
  <2>1. CASE v = w
    BY <1>3, <2>1 DEF LoadScan, Made, TypeOK
  <2>2. CASE v # w
    BY <1>1, <1>3, <2>2 DEF LoadScan, TypeOK
  <2> QED
    BY <2>1, <2>2
<1>4. ASSUME NEW v \in Worker, LoadClerk(v)
      PROVE  job'[w].type = sent[job'[w].n].type /\ sent[job'[w].n] # NoScan
  <2>1. CASE v = w
    <3>1. job'[w].n = NoNonce
      BY <1>4, <2>1 DEF LoadClerk, TypeOK
    <3> QED
      BY <3>1, ScanAssumption
  <2>2. CASE v # w
    BY <1>1, <1>4, <2>2 DEF LoadClerk, TypeOK
  <2> QED
    BY <2>1, <2>2
<1>5. ASSUME NEW v \in Worker, job' = [job EXCEPT ![v] = NoJob]
      PROVE  job'[w].type = sent[job'[w].n].type /\ sent[job'[w].n] # NoScan
  <2>1. CASE v = w
    <3>1. job'[w].n = NoNonce
      BY <1>5, <2>1 DEF NoJob, TypeOK
    <3> QED
      BY <3>1, ScanAssumption
  <2>2. CASE v # w
    BY <1>1, <1>5, <2>2 DEF TypeOK
  <2> QED
    BY <2>1, <2>2
<1>6. ASSUME NEW v \in Worker, Judge(v)
      PROVE  job'[w].type = sent[job'[w].n].type /\ sent[job'[w].n] # NoScan
  <2>1. CASE \E a \in {"unpaid", "ok", "redeemed"} : Answer(v, a)
    BY <1>5, <2>1 DEF Answer
  <2>2. CASE \E b : job' = [job EXCEPT ![v].allowed = b]
    BY <1>1, <2>2 DEF TypeOK
  <2> QED
    BY <1>6, <2>1, <2>2 DEF Judge
<1> QED
  BY <1>2, <1>3, <1>4, <1>5, <1>6 DEF Next, Tick, Revert, OrderChanges, ExitAllRead, ExitAllWrite,
     ExitAllDone, ExitAllDie, Scan, Record, Answer, Die

LEMMA SameStep == ASSUME TypeOK, Same, Next PROVE Same'
<1>1. \A w \in Worker : job'[w].n \in Nonce => job'[w].type = sent'[job'[w].n].type
  BY JobsSame, SentStays
<1>2. ASSUME NEW i \in DOMAIN rows', rows'[i].nonce \in Nonce
      PROVE  rows'[i].type = sent'[rows'[i].nonce].type
  <2>1. CASE i \in DOMAIN rows /\ rows'[i] = rows[i]
    BY <1>2, <2>1, SentStays DEF TypeOK, Same
  <2>2. ASSUME NEW w \in Worker, Record(w)
        PROVE  rows'[i].type = sent'[rows'[i].nonce].type
    <3> DEFINE r == [type |-> job[w].type, at |-> job[w].at, nonce |-> job[w].n,
                     forced |-> job[w].force /\ ~job[w].allowed, override |-> job[w].force]
    <3>1. rows' = Append(rows, r) /\ rows \in Seq(Row) /\ r.type = job[w].type /\ r.nonce = job[w].n
      BY <2>2 DEF Record, TypeOK
    <3> HIDE DEF r
    <3>2. CASE i \in DOMAIN rows
      BY <2>1, <3>1, <3>2
    <3>3. CASE i \notin DOMAIN rows
      <4>1. rows'[i] = r
        BY <3>1, <3>3
      <4>2. job[w].n \in Nonce /\ sent[job[w].n] # NoScan
        BY <1>2, <3>1, <4>1 DEF TypeOK
      <4> QED
        BY <3>1, <4>1, <4>2, SentStays DEF Same
    <3> QED
      BY <3>2, <3>3
  <2>3. CASE ExitAllWrite
    <3> DEFINE r == [type |-> "exit", at |-> exitAt, nonce |-> NoNonce,
                     forced |-> FALSE, override |-> FALSE]
    <3>1. rows' = Append(rows, r) /\ rows \in Seq(Row) /\ r.nonce = NoNonce
      BY <2>3 DEF ExitAllWrite, TypeOK
    <3> HIDE DEF r
    <3>2. i \in DOMAIN rows /\ rows'[i] = rows[i]
      BY <1>2, <3>1, ScanAssumption
    <3> QED
      BY <2>1, <3>2
  <2>4. CASE Revert
    <3>1. rows' = <<>>
      BY <2>4 DEF Revert
    <3> QED
      BY <3>1
  <2>5. CASE rows' = rows
    BY <2>1, <2>5
  <2> QED
    BY <2>2, <2>3, <2>4, <2>5 DEF Next, Tick, OrderChanges, ExitAllRead, ExitAllDone, ExitAllDie,
       Scan, LoadScan, LoadClerk, Judge, Die
<1> QED
  BY <1>1, <1>2 DEF Same

\* Whoever is told that the ticket was redeemed has not been recorded before.
LEMMA ToldStep ==
    ASSUME TypeOK, Same, Next, NEW n \in Nonce, n \in told', n \notin told
    PROVE  \A i \in DOMAIN rows : rows[i].nonce # n
<1>1. PICK w \in Worker : Judge(w) /\ Answer(w, "redeemed") /\ job[w].n = n
           /\ \E last : Verdict(job[w], last) = "redeemed"
  BY DEF Next, Tick, Revert, OrderChanges, ExitAllRead, ExitAllWrite, ExitAllDone, ExitAllDie,
     Scan, LoadScan, LoadClerk, Judge, Record, Answer, Die
<1>2. PICK last : Verdict(job[w], last) = "redeemed"
  BY <1>1
<1>3. ~Repeated(job[w], last) /\ n # NoNonce
  BY <1>2, ScanAssumption DEF Verdict
<1> QED
  BY <1>1, <1>3 DEF Repeated, Same

\* A device that repeats a scan which was recorded is never told that the ticket has been
\* redeemed, whatever was scanned, recorded and answered in between.
THEOREM RepetitionAnswered == Spec => RetryAnswered
<1>1. Init => Same
  BY ScanAssumption DEF Init, Same, NoJob, AutoRow
<1>2. TypeOK /\ Same /\ [Next]_vars => Same'
  <2>1. Same /\ UNCHANGED vars => Same'
    BY DEF Same, vars
  <2> QED
    BY <2>1, SameStep
<1>3. TypeOK /\ Same /\ [Next]_vars =>
        [\A n \in Nonce : (\E i \in DOMAIN rows : rows[i].nonce = n) => (n \in told' => n \in told)]_vars
  BY ToldStep
<1> QED
  BY <1>1, <1>2, <1>3, TypeCorrect, PTL DEF Spec, RetryAnswered
=============================================================================
