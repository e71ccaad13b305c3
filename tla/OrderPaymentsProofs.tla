------------------------- MODULE OrderPaymentsProofs -------------------------
(***************************************************************************)
(* Proofs about OrderPayments, for any number of payments, processes and   *)
(* requests: the types, the gift card, and, where a card payment, a        *)
(* cancellation or a refund has its payment to itself (Overlap = FALSE),   *)
(* refunds, confirmed payments, the account of the card, and that a fully  *)
(* paid order is paid.                                                     *)
(***************************************************************************)
EXTENDS OrderPayments, FiniteSetTheorems, TLAPS

-----------------------------------------------------------------------------
(* Types *)

PayRec == [state : State, amount : 0..Total, by : {"card", "other"}]
JobRec == [kind : Kinds \cup {"none"}, p : Payment \cup {0}, was : State,
           seen : {"n", "p", "e", "c", "none"}, full : BOOLEAN, back : 0..Total]
Label == {"idle", "loaded", "taken", "marking", "enclosed", "created", "done"}

Rows ==
    /\ order \in {"n", "p", "e", "c"}
    /\ room \in BOOLEAN
    /\ pay \in [Payment -> PayRec]
    /\ card \in Int
    /\ back \in [Payment -> Nat]
    /\ credited \in [Payment -> Nat]

\* A request under way is for a payment that exists, and what a confirmation will give
\* back is a state that a payment can have.
Work ==
    /\ pc \in [Worker -> Label]
    /\ job \in [Worker -> JobRec]
    /\ \A w \in Worker : pc[w] # "idle" => job[w].p \in Payment /\ pay[job[w].p].state # "none"
    /\ \A w \in Worker : pc[w] \in {"taken", "marking"} => job[w].was # "none"

TInv == Rows /\ Work

\* Payments stay.
Existing == \A p \in Payment : pay[p].state # "none" => pay'[p].state # "none"

LEMMA StayKeeps == Work /\ Existing /\ UNCHANGED <<pc, job>> => Work'
  BY DEF Work, Existing

LEMMA MoveKeeps ==
    ASSUME Work, Existing, NEW w \in Worker, NEW l \in Label, NEW j \in JobRec,
           pc' = [pc EXCEPT ![w] = l], job' = [job EXCEPT ![w] = j],
           l # "idle" => j.p \in Payment /\ pay'[j.p].state # "none",
           l \in {"taken", "marking"} => j.was # "none"
    PROVE Work'
<1>1. pc' \in [Worker -> Label] /\ job' \in [Worker -> JobRec]
  BY DEF Work
<1>2. ASSUME NEW x \in Worker, x # w PROVE pc'[x] = pc[x] /\ job'[x] = job[x]
  BY <1>2 DEF Work
<1>3. pc'[w] = l /\ job'[w] = j
  BY DEF Work
<1>4. ASSUME NEW x \in Worker, pc'[x] # "idle"
      PROVE job'[x].p \in Payment /\ pay'[job'[x].p].state # "none"
  BY <1>2, <1>3, <1>4 DEF Work, Existing
<1>5. ASSUME NEW x \in Worker, pc'[x] \in {"taken", "marking"} PROVE job'[x].was # "none"
  BY <1>2, <1>3, <1>5 DEF Work
<1> QED
  BY <1>1, <1>4, <1>5 DEF Work

LEMMA NoJobTyped == NoJob \in JobRec
  BY MoneyAssumption DEF NoJob, JobRec, State

LEMMA FinishKeeps ==
    ASSUME Work, Existing, NEW w \in Worker, Finish(w)
    PROVE Work'
<1>1. "idle" \in Label
  BY DEF Label
<1> QED
  BY <1>1, MoveKeeps, NoJobTyped DEF Finish, Goto

\* A request that is loaded is for a payment that exists.
LEMMA LoadKeeps ==
    ASSUME Work, NEW w \in Worker, NEW j \in JobRec, Load(w, j),
           j.p \in Payment, pay[j.p].state # "none"
    PROVE Work'
<1>1. Existing
  BY DEF Load, Existing
<1>2. "loaded" \in Label /\ pay' = pay
  BY DEF Label, Load
<1> QED
  BY <1>1, <1>2, MoveKeeps DEF Load

\* A request that goes on is still for the same payment.
LEMMA GoKeeps ==
    ASSUME Work, Existing, NEW w \in Worker, pc[w] # "idle", NEW l \in Label, Goto(w, l),
           NEW j \in JobRec, job' = [job EXCEPT ![w] = j], j.p = job[w].p,
           l \in {"taken", "marking"} => j.was # "none"
    PROVE Work'
<1>1. j.p \in Payment /\ pay'[j.p].state # "none"
  BY DEF Work, Existing
<1> QED
  BY <1>1, MoveKeeps DEF Goto

LEMMA SetStateKeeps ==
    ASSUME Rows, NEW p \in Payment, NEW st \in State, st # "none", SetState(p, st)
    PROVE pay' \in [Payment -> PayRec] /\ Existing
  BY DEF Rows, SetState, PayRec, Existing

LEMMA StateNames ==
    /\ Open \subseteq State /\ Counted \subseteq State
    /\ "none" \notin Open /\ "none" \notin Counted
    /\ {"confirmed", "refunded", "canceled", "failed", "created", "none"} \subseteq State
    /\ "created" \in Open
  BY DEF State, Open, Counted

LEMMA TypeInit == Init => TInv
<1> SUFFICES ASSUME Init PROVE TInv
  OBVIOUS
<1>1. Rows
  BY MoneyAssumption, StateNames DEF Init, Rows, PayRec, NoPayment
<1>2. Work
  BY NoJobTyped DEF Init, Work, Label
<1> QED
  BY <1>1, <1>2 DEF TInv

\* Each request keeps the types.
LEMMA NewKeeps ==
    ASSUME TInv, NEW p \in Payment, CreatePayment(p) \/ ChangeMethod(p) \/ Fail(p)
    PROVE TInv'
<1> USE DEF TInv
<1>1. CASE CreatePayment(p)
  <2>1. pay' \in [Payment -> PayRec] /\ Existing
    BY <1>1, StateNames DEF CreatePayment, Rows, PayRec, Existing
  <2> QED
    BY <1>1, <2>1, StayKeeps DEF CreatePayment, Rows
<1>2. CASE ChangeMethod(p)
  <2>1. PICK by \in {"card", "other"}, due \in 1..Total :
          pay' = [q \in Payment |->
                    IF q = p THEN [state |-> "created", amount |-> due, by |-> by]
                    ELSE IF q = p - 1 /\ pay[q].state \in Open THEN [pay[q] EXCEPT !.state = "canceled"]
                    ELSE pay[q]]
    BY <1>2 DEF ChangeMethod
  <2>2. due \in 0..Total
    BY MoneyAssumption
  <2>3. pay' \in [Payment -> PayRec] /\ Existing
    BY <2>1, <2>2, StateNames DEF Rows, PayRec, Existing
  <2> QED
    BY <1>2, <2>3, StayKeeps DEF ChangeMethod, Rows
<1>3. CASE Fail(p)
  <2>1. pay' \in [Payment -> PayRec] /\ Existing
    BY <1>3, SetStateKeeps, StateNames DEF Fail
  <2> QED
    BY <1>3, <2>1, StayKeeps DEF Fail, Rows
<1> QED
  BY <1>1, <1>2, <1>3

LEMMA RequestKeeps ==
    ASSUME TInv, NEW w \in Worker, NEW p \in Payment,
           ConfirmLoad(w, p) \/ CancelLoad(w, p) \/ CardLoad(w, p) \/ RefundLoad(w, p)
    PROVE TInv'
<1>1. \E j \in JobRec : Load(w, j) /\ j.p = p
  <2>1. ASSUME NEW kind \in Kinds
        PROVE [NoJob EXCEPT !.kind = kind, !.p = p] \in JobRec /\ [NoJob EXCEPT !.kind = kind, !.p = p].p = p
    BY NoJobTyped DEF JobRec
  <2>2. {"confirm", "cancel", "card", "refund"} \subseteq Kinds
    BY DEF Kinds, Single
  <2>3. CASE ConfirmLoad(w, p)
    BY <2>1, <2>2, <2>3 DEF ConfirmLoad
  <2>4. CASE CancelLoad(w, p)
    BY <2>1, <2>2, <2>4 DEF CancelLoad
  <2>5. CASE CardLoad(w, p)
    BY <2>1, <2>2, <2>5 DEF CardLoad
  <2>6. CASE RefundLoad(w, p)
    <3>1. PICK a \in 1..Total :
            Load(w, [NoJob EXCEPT !.kind = "refund", !.p = p, !.back = a, !.seen = order])
      BY <2>6 DEF RefundLoad
    <3>2. a \in 0..Total /\ order \in {"n", "p", "e", "c", "none"}
      BY MoneyAssumption DEF TInv, Rows
    <3> DEFINE j == [NoJob EXCEPT !.kind = "refund", !.p = p, !.back = a, !.seen = order]
    <3>3. j \in JobRec /\ j.p = p
      BY <2>2, <3>2, NoJobTyped DEF JobRec
    <3> QED
      BY <3>1, <3>3
  <2> QED
    BY <2>3, <2>4, <2>5, <2>6
<1>2. pay[p].state # "none"
  BY StateNames DEF ConfirmLoad, CancelLoad, CardLoad, RefundLoad
<1>3. Work'
  BY <1>1, <1>2, LoadKeeps DEF TInv
<1>4. Rows'
  BY <1>1 DEF Load, TInv, Rows
<1> QED
  BY <1>3, <1>4 DEF TInv

LEMMA ConfirmKeeps ==
    ASSUME TInv, NEW w \in Worker, ConfirmTake(w) \/ ConfirmLook(w) \/ ConfirmMark(w)
    PROVE TInv'
<1> USE DEF TInv
<1> DEFINE p == job[w].p
<1>1. pc[w] # "idle" /\ p \in Payment /\ pay[p].state # "none" /\ job[w] \in JobRec
  BY DEF ConfirmTake, ConfirmLook, ConfirmMark, Loaded, Work
<1>2. CASE ConfirmTake(w)
  <2>1. CASE pay[p].state = "confirmed"
    BY <1>2, <2>1, FinishKeeps DEF ConfirmTake, Rows, Existing
  <2>2. CASE pay[p].state # "confirmed"
    <3>1. pay' \in [Payment -> PayRec] /\ Existing
      BY <1>1, <1>2, <2>2, SetStateKeeps, StateNames DEF ConfirmTake
    <3> DEFINE j == [job[w] EXCEPT !.was = pay[p].state]
    <3>2. j \in JobRec /\ j.p = p /\ j.was # "none"
      BY <1>1 DEF JobRec, Rows, PayRec
    <3>3. job' = [job EXCEPT ![w] = j] /\ Goto(w, "taken") /\ "taken" \in Label
      BY <1>2, <2>2 DEF ConfirmTake, Label
    <3>4. Work'
      <4> HIDE DEF j
      <4> QED
        BY <1>1, <3>1, <3>2, <3>3, GoKeeps
    <3> QED
      BY <1>2, <3>1, <3>4 DEF ConfirmTake, Rows
  <2> QED
    BY <2>1, <2>2
<1>3. CASE ConfirmLook(w)
  <2>1. Existing /\ Rows'
    BY <1>3 DEF ConfirmLook, Existing, Rows
  <2>2. CASE Finish(w)
    BY <2>1, <2>2, FinishKeeps
  <2>3. CASE ~Finish(w)
    <3> DEFINE j == [job[w] EXCEPT !.seen = order]
    <3>1. j \in JobRec /\ j.p = p /\ j.was # "none"
      BY <1>1, <1>3 DEF JobRec, Rows, ConfirmLook, Work
    <3>2. job' = [job EXCEPT ![w] = j] /\ Goto(w, "marking") /\ "marking" \in Label
      BY <1>3, <2>3 DEF ConfirmLook, Label
    <3>3. Work'
      <4> HIDE DEF j
      <4> QED
        BY <1>1, <2>1, <3>1, <3>2, GoKeeps
    <3> QED
      BY <2>1, <3>3
  <2> QED
    BY <2>2, <2>3
<1>4. CASE ConfirmMark(w)
  <2>1. pay' \in [Payment -> PayRec] /\ Existing
    <3>1. CASE CanBePaid(job[w].seen)
      BY <1>4, <3>1 DEF ConfirmMark, Rows, Existing
    <3>2. CASE ~CanBePaid(job[w].seen)
      <4>1. SetState(p, job[w].was)
        BY <1>4, <3>2 DEF ConfirmMark, Restored
      <4>2. job[w].was \in State /\ job[w].was # "none"
        BY <1>1, <1>4 DEF ConfirmMark, JobRec, Work
      <4> QED
        BY <1>1, <4>1, <4>2, SetStateKeeps
    <3> QED
      BY <3>1, <3>2
  <2>2. Finish(w)
    BY <1>4 DEF ConfirmMark
  <2> QED
    BY <1>4, <2>1, <2>2, FinishKeeps DEF ConfirmMark, Rows
<1> QED
  BY <1>2, <1>3, <1>4

LEMMA CancelKeeps ==
    ASSUME TInv, NEW w \in Worker, CancelWrite(w) \/ Abandon(w)
    PROVE TInv'
<1> USE DEF TInv
<1>1. CASE CancelWrite(w)
  <2>1. job[w].p \in Payment
    BY <1>1 DEF CancelWrite, Loaded, Work
  <2>2. pay' \in [Payment -> PayRec] /\ Existing
    BY <1>1, <2>1, SetStateKeeps, StateNames DEF CancelWrite
  <2> QED
    BY <1>1, <2>2, FinishKeeps DEF CancelWrite, Rows
<1>2. CASE Abandon(w)
  BY <1>2, FinishKeeps DEF Abandon, Rows, Existing
<1> QED
  BY <1>1, <1>2

LEMMA CardKeeps ==
    ASSUME TInv, NEW w \in Worker, CardTake(w) \/ CardCommit(w)
    PROVE TInv'
<1> USE DEF TInv
<1> DEFINE p == job[w].p
<1>1. pc[w] # "idle" /\ p \in Payment /\ job[w] \in JobRec
  BY DEF CardTake, CardCommit, Loaded, Work
<1>2. CASE CardTake(w)
  <2>1. Existing /\ Rows'
    BY <1>2 DEF CardTake, Existing, Rows
  <2>2. CASE pay[p].amount > card
    BY <1>2, <2>1, <2>2, FinishKeeps DEF CardTake
  <2>3. CASE ~(pay[p].amount > card)
    <3> DEFINE full == order \in {"n", "e"} /\ Due("n") <= pay[p].amount
               j == [job[w] EXCEPT !.was = pay[p].state, !.seen = order, !.full = full]
    <3>1. full \in BOOLEAN
      OBVIOUS
    <3>2. j \in JobRec /\ j.p = p
      <4> HIDE DEF full
      <4> QED
        BY <1>1, <3>1 DEF JobRec, Rows, PayRec
    <3>3. job' = [job EXCEPT ![w] = j] /\ Goto(w, "enclosed") /\ "enclosed" \in Label
      <4>1. job' = [job EXCEPT ![w].was = pay[p].state, ![w].seen = order, ![w].full = full]
        BY <1>2, <2>3 DEF CardTake
      <4>2. Goto(w, "enclosed") /\ "enclosed" \in Label
        BY <1>2, <2>3 DEF CardTake, Label
      <4> HIDE DEF full
      <4> QED
        BY <4>1, <4>2
    <3>4. Work'
      <4> HIDE DEF j
      <4> QED
        BY <1>1, <2>1, <3>2, <3>3, GoKeeps
    <3> QED
      BY <2>1, <3>4
  <2> QED
    BY <2>2, <2>3
<1>3. CASE CardCommit(w)
  <2>1. pay[p].amount \in Int
    BY <1>1 DEF Rows, PayRec
  <2>2. pay' \in [Payment -> PayRec] /\ Existing
    <3>1. pay' = pay \/ SetState(p, "confirmed")
      BY <1>3 DEF CardCommit
    <3>2. CASE pay' = pay
      BY <3>2 DEF Rows, Existing
    <3>3. CASE SetState(p, "confirmed")
      BY <1>1, <3>3, SetStateKeeps, StateNames
    <3> QED
      BY <3>1, <3>2, <3>3
  <2>3. order' \in {"n", "p", "e", "c"} /\ card' \in Int
    BY <1>3, <2>1 DEF CardCommit, Rows, Refused
  <2>4. Finish(w) /\ UNCHANGED <<room, back, credited>>
    BY <1>3 DEF CardCommit
  <2> QED
    BY <2>2, <2>3, <2>4, FinishKeeps DEF Rows
<1> QED
  BY <1>2, <1>3

LEMMA RefundKeeps ==
    ASSUME TInv, NEW w \in Worker, RefundCreate(w) \/ RefundExecute(w) \/ RefundSettle(w)
    PROVE TInv'
<1> USE DEF TInv
<1> DEFINE p == job[w].p
<1>1. pc[w] # "idle" /\ p \in Payment /\ job[w] \in JobRec /\ job[w].back \in Nat
  BY MoneyAssumption DEF RefundCreate, RefundExecute, RefundSettle, Loaded, Work, JobRec
<1>2. job = [job EXCEPT ![w] = job[w]]
  BY DEF Work
<1>3. CASE RefundCreate(w)
  <2>1. Existing /\ Rows'
    BY <1>1, <1>3 DEF RefundCreate, Existing, Rows
  <2>2. Goto(w, "created") /\ job' = job /\ "created" \in Label
    BY <1>3 DEF RefundCreate, Label
  <2> QED
    BY <1>1, <1>2, <2>1, <2>2, GoKeeps
<1>4. CASE RefundExecute(w)
  <2>1. pay' \in [Payment -> PayRec] /\ Existing
    <3>1. pay' = pay \/ SetState(p, "refunded")
      BY <1>4 DEF RefundExecute
    <3>2. CASE pay' = pay
      BY <3>2 DEF Rows, Existing
    <3>3. CASE SetState(p, "refunded")
      BY <1>1, <3>3, SetStateKeeps, StateNames
    <3> QED
      BY <3>1, <3>2, <3>3
  <2>2. Rows'
    <3>1. credited' = [credited EXCEPT ![p] = credited[p] + job[w].back]
      BY <1>4 DEF RefundExecute
    <3>2. credited[p] + job[w].back \in Nat /\ card + job[w].back \in Int
      BY <1>1 DEF Rows
    <3>3. credited' \in [Payment -> Nat]
      BY <3>1, <3>2 DEF Rows
    <3>4. card' \in Int /\ UNCHANGED <<order, room, back>>
      BY <1>4, <3>2 DEF RefundExecute
    <3> QED
      BY <2>1, <3>3, <3>4 DEF Rows
  <2>3. Goto(w, "done") /\ job' = job /\ "done" \in Label
    BY <1>4 DEF RefundExecute, Label
  <2> QED
    BY <1>1, <1>2, <2>1, <2>2, <2>3, GoKeeps
<1>5. CASE RefundSettle(w)
  <2>1. pay' \in [Payment -> PayRec] /\ Existing
    <3>1. \/ pay' = pay
          \/ pay' = [q \in Payment |-> IF q \in In(Open) THEN [pay[q] EXCEPT !.state = "canceled"]
                                        ELSE pay[q]]
      BY <1>5 DEF RefundSettle
    <3> QED
      BY <3>1, StateNames DEF Rows, PayRec, Existing
  <2>2. order' \in {"n", "p", "e", "c"}
    BY <1>5 DEF RefundSettle, Rows
  <2>3. Finish(w) /\ UNCHANGED <<room, card, back, credited>>
    BY <1>5 DEF RefundSettle
  <2> QED
    BY <2>1, <2>2, <2>3, FinishKeeps DEF Rows
<1> QED
  BY <1>3, <1>4, <1>5

LEMMA TypeStep == TInv /\ [Next]_vars => TInv'
<1> SUFFICES ASSUME TInv, [Next]_vars PROVE TInv'
  OBVIOUS
<1>1. CASE Expire
  BY <1>1, StayKeeps DEF Expire, TInv, Rows, Existing
<1>2. CASE RoomChanges
  BY <1>2, StayKeeps DEF RoomChanges, TInv, Rows, Existing
<1>3. CASE UNCHANGED vars
  BY <1>3, StayKeeps DEF vars, TInv, Rows, Existing
<1> QED
  BY <1>1, <1>2, <1>3, NewKeeps, RequestKeeps, ConfirmKeeps, CancelKeeps, CardKeeps, RefundKeeps
     DEF Next

LEMMA TypeInvariant == Spec => []TInv
  BY TypeInit, TypeStep, PTL DEF Spec

\* The order, its payments, the card, the refunds and what every request carries are
\* well formed in every reachable state, and no request is for a payment that does not
\* exist.
THEOREM TypeCorrect == Spec => []TypeOK
<1>1. TInv => TypeOK
  BY DEF TInv, TypeOK, Rows, Work, PayRec, JobRec, Label
<1> QED
  BY <1>1, TypeInvariant, PTL

-----------------------------------------------------------------------------
(* The gift card *)

\* One transaction at a time has the card locked, and there is enough on it.
CardInv ==
    /\ card >= 0
    /\ \A w \in Worker : pc[w] = "enclosed" => pay[job[w].p].amount <= card
    /\ \A w, x \in Worker : pc[w] = "enclosed" /\ pc[x] = "enclosed" => w = x

\* What a payment is worth does not change.
SameAmounts == \A p \in Payment : pay[p].state # "none" => pay'[p].amount = pay[p].amount

LEMMA AmountsStay == TInv /\ [Next]_vars => SameAmounts
<1> SUFFICES ASSUME TInv, [Next]_vars, NEW p \in Payment, pay[p].state # "none"
             PROVE pay'[p].amount = pay[p].amount
  BY DEF SameAmounts
<1> USE DEF TInv, Rows, PayRec
<1>1. CASE UNCHANGED vars \/ Expire \/ RoomChanges
  BY <1>1 DEF vars, Expire, RoomChanges
<1>2. ASSUME NEW q \in Payment, CreatePayment(q) \/ ChangeMethod(q) \/ Fail(q)
      PROVE pay'[p].amount = pay[p].amount
  BY <1>2 DEF CreatePayment, ChangeMethod, Fail, SetState, IsNext
<1>3. ASSUME NEW w \in Worker, NEW q \in Payment,
             ConfirmLoad(w, q) \/ CancelLoad(w, q) \/ CardLoad(w, q) \/ RefundLoad(w, q)
      PROVE pay'[p].amount = pay[p].amount
  BY <1>3 DEF ConfirmLoad, CancelLoad, CardLoad, RefundLoad, Load
<1>4. ASSUME NEW w \in Worker, \/ ConfirmTake(w) \/ ConfirmLook(w) \/ ConfirmMark(w)
                              \/ CancelWrite(w) \/ CardTake(w) \/ CardCommit(w) \/ Abandon(w)
                              \/ RefundCreate(w) \/ RefundExecute(w)
      PROVE pay'[p].amount = pay[p].amount
  <2>1. pay' = pay \/ \E st : SetState(job[w].p, st)
    BY <1>4 DEF ConfirmTake, ConfirmLook, ConfirmMark, CancelWrite, CardTake, CardCommit, Abandon,
                RefundCreate, RefundExecute
  <2>2. ASSUME NEW st, SetState(job[w].p, st) PROVE pay'[p].amount = pay[p].amount
    <3>1. pay[p] \in PayRec /\ pay' = [pay EXCEPT ![job[w].p].state = st]
      BY <2>2 DEF SetState
    <3>2. CASE p = job[w].p
      <4>1. pay'[p] = [pay[p] EXCEPT !.state = st]
        BY <3>1, <3>2
      <4> QED
        BY <3>1, <4>1
    <3>3. CASE p # job[w].p
      BY <3>1, <3>3
    <3> QED
      BY <3>2, <3>3
  <2> QED
    BY <2>1, <2>2
<1>5. ASSUME NEW w \in Worker, RefundSettle(w) PROVE pay'[p].amount = pay[p].amount
  BY <1>5 DEF RefundSettle
<1> QED
  BY <1>1, <1>2, <1>3, <1>4, <1>5 DEF Next

\* A step that leaves the card alone and takes no lock on it.
CardAlone ==
    /\ card' = card
    /\ \A x \in Worker : pc'[x] = "enclosed" => pc[x] = "enclosed" /\ job'[x] = job[x]

LEMMA CardAloneKeeps ==
    ASSUME TInv, CardInv, SameAmounts, CardAlone
    PROVE CardInv'
  BY DEF TInv, Work, CardInv, SameAmounts, CardAlone

LEMMA CardStep == TInv /\ CardInv /\ [Next]_vars => CardInv'
<1> SUFFICES ASSUME TInv, CardInv, [Next]_vars PROVE CardInv'
  OBVIOUS
<1>0. SameAmounts /\ pc \in [Worker -> Label] /\ job \in [Worker -> JobRec]
  BY AmountsStay DEF TInv, Work
<1>1. CASE UNCHANGED vars \/ Expire \/ RoomChanges
  BY <1>0, <1>1, CardAloneKeeps DEF vars, Expire, RoomChanges, CardAlone
<1>2. ASSUME NEW q \in Payment, CreatePayment(q) \/ ChangeMethod(q) \/ Fail(q)
      PROVE CardInv'
  BY <1>0, <1>2, CardAloneKeeps DEF CreatePayment, ChangeMethod, Fail, CardAlone
<1>3. ASSUME NEW w \in Worker, NEW q \in Payment,
             ConfirmLoad(w, q) \/ CancelLoad(w, q) \/ CardLoad(w, q) \/ RefundLoad(w, q)
      PROVE CardInv'
  <2>1. CardAlone
    BY <1>0, <1>3 DEF ConfirmLoad, CancelLoad, CardLoad, RefundLoad, Load, CardAlone
  <2> QED
    BY <1>0, <2>1, CardAloneKeeps
<1>4. ASSUME NEW w \in Worker, \/ ConfirmTake(w) \/ ConfirmLook(w) \/ ConfirmMark(w)
                              \/ CancelWrite(w) \/ Abandon(w) \/ RefundCreate(w) \/ RefundSettle(w)
      PROVE CardInv'
  <2>1. card' = card
    BY <1>4 DEF ConfirmTake, ConfirmLook, ConfirmMark, CancelWrite, Abandon, RefundCreate, RefundSettle
  <2>2. \E l \in Label \ {"enclosed"} : \E j : pc' = [pc EXCEPT ![w] = l] /\ job' = [job EXCEPT ![w] = j]
    <3>1. CASE Finish(w)
      BY <3>1 DEF Finish, Goto, Label
    <3>2. CASE ConfirmTake(w) /\ ~Finish(w)
      BY <3>2 DEF ConfirmTake, Goto, Label
    <3>3. CASE ConfirmLook(w) /\ ~Finish(w)
      BY <3>3 DEF ConfirmLook, Goto, Label
    <3>4. CASE RefundCreate(w)
      <4>1. job' = [job EXCEPT ![w] = job[w]]
        BY <1>0, <3>4 DEF RefundCreate
      <4> QED
        BY <3>4, <4>1 DEF RefundCreate, Goto, Label
    <3> QED
      BY <1>4, <3>1, <3>2, <3>3, <3>4 DEF ConfirmMark, CancelWrite, Abandon, RefundSettle
  <2>3. CardAlone
    <3>0. PICK l \in Label \ {"enclosed"} : \E j : pc' = [pc EXCEPT ![w] = l] /\ job' = [job EXCEPT ![w] = j]
      BY <2>2
    <3>1. PICK j : pc' = [pc EXCEPT ![w] = l] /\ job' = [job EXCEPT ![w] = j]
      BY <3>0
    <3>2. ASSUME NEW x \in Worker, pc'[x] = "enclosed" PROVE pc[x] = "enclosed" /\ job'[x] = job[x]
      <4>1. x # w
        BY <1>0, <3>1, <3>2
      <4> QED
        BY <1>0, <3>1, <3>2, <4>1
    <3> QED
      BY <2>1, <3>2 DEF CardAlone
  <2> QED
    BY <1>0, <2>3, CardAloneKeeps
<1>5. ASSUME NEW w \in Worker, CardTake(w) PROVE CardInv'
  <2>1. CASE Finish(w)
    BY <1>0, <1>5, <2>1, CardAloneKeeps DEF CardTake, Finish, Goto, CardAlone
  <2>2. CASE ~Finish(w)
    <3>1. /\ Goto(w, "enclosed") /\ card' = card /\ pay' = pay /\ CardFree
          /\ ~(pay[job[w].p].amount > card)
      BY <1>5, <2>2 DEF CardTake
    <3>2. job'[w].p = job[w].p
      BY <1>0, <1>5, <2>2 DEF CardTake, JobRec
    <3>3. job[w].p \in Payment
      BY <1>5 DEF CardTake, Loaded, TInv, Work
    <3>4. pay'[job'[w].p].amount <= card'
      BY <3>1, <3>2, <3>3 DEF TInv, Rows, PayRec
    <3>5. \A x \in Worker : pc'[x] = "enclosed" => x = w
      BY <1>0, <3>1 DEF Goto, CardFree
    <3> QED
      BY <3>1, <3>4, <3>5 DEF CardInv
  <2> QED
    BY <2>1, <2>2
<1>6. ASSUME NEW w \in Worker, CardCommit(w) PROVE CardInv'
  <2>1. pc[w] = "enclosed" /\ Finish(w) /\ pay[job[w].p].amount <= card
    BY <1>6 DEF CardCommit, CardInv
  <2>2. \A x \in Worker : pc'[x] # "enclosed"
    BY <1>0, <2>1 DEF Finish, Goto, CardInv
  <2>3. job[w].p \in Payment /\ pay[job[w].p].amount \in Int /\ card \in Int
    BY <2>1 DEF TInv, Work, Rows, PayRec
  <2>4. card' = card - 0 \/ card' = card - pay[job[w].p].amount
    BY <1>6 DEF CardCommit, Refused
  <2>5. card' >= 0
    BY <2>1, <2>3, <2>4 DEF CardInv
  <2> QED
    BY <2>2, <2>5 DEF CardInv
<1>7. ASSUME NEW w \in Worker, RefundExecute(w) PROVE CardInv'
  <2>1. job[w].back \in Nat /\ card \in Int /\ card' = card + job[w].back
    BY <1>0, <1>7, MoneyAssumption DEF RefundExecute, JobRec, TInv, Rows
  <2>2. \A x \in Worker : pc'[x] = "enclosed" => pc[x] = "enclosed" /\ job'[x] = job[x]
    BY <1>0, <1>7 DEF RefundExecute, Goto
  <2>3. ASSUME NEW x \in Worker, pc[x] = "enclosed" PROVE pay'[job[x].p].amount <= card'
    <3>1. job[x].p \in Payment /\ pay'[job[x].p].amount = pay[job[x].p].amount
      BY <1>0, <2>3 DEF TInv, Work, SameAmounts
    <3>2. pay[job[x].p].amount \in Int /\ pay[job[x].p].amount <= card
      BY <2>3, <3>1 DEF TInv, Rows, PayRec, CardInv
    <3> QED
      BY <2>1, <3>1, <3>2
  <2> QED
    BY <2>1, <2>2, <2>3 DEF CardInv
<1> QED
  BY <1>1, <1>2, <1>3, <1>4, <1>5, <1>6, <1>7 DEF Next

\* However many requests pay with one gift card at the same time, it is never overdrawn.
THEOREM CardSafe == Spec => []CardNotNegative
<1>1. Init => CardInv
  BY MoneyAssumption DEF Init, CardInv
<1>2. CardInv => CardNotNegative
  BY DEF CardInv, CardNotNegative
<1> QED
  BY <1>1, <1>2, TypeInvariant, CardStep, PTL DEF Spec

-----------------------------------------------------------------------------
(* Requests for the same payment *)

\* Two requests for one payment are never a card payment, cancellation or refund.
Apart ==
    \A w, x \in Worker : w # x /\ pc[w] # "idle" /\ pc[x] # "idle" /\ job[w].p = job[x].p
                           => {job[w].kind, job[x].kind} \cap Single = {}

\* What a step does to the requests: one of them starts, or those that do not end
\* stay what they are.
Starts(w) ==
    /\ MayLoad(w, job'[w].p, job'[w].kind) /\ pc'[w] = "loaded"
    /\ \A x \in Worker \ {w} : pc'[x] = pc[x] /\ job'[x] = job[x]
    /\ UNCHANGED <<pay, back>>
GoesOn(w) == pc'[w] # "idle" =>
    /\ pc[w] # "idle" /\ job'[w].p = job[w].p /\ job'[w].kind = job[w].kind
    /\ pc'[w] = "loaded" => pc[w] = "loaded" /\ job'[w] = job[w]

LEMMA LoadStarts ==
    ASSUME TInv, NEW w \in Worker, NEW p \in Payment,
           ConfirmLoad(w, p) \/ CancelLoad(w, p) \/ CardLoad(w, p) \/ RefundLoad(w, p)
    PROVE Starts(w) /\ job'[w].p = p
<1>0. pc \in [Worker -> Label] /\ job \in [Worker -> JobRec] /\ NoJob \in JobRec
  BY NoJobTyped DEF TInv, Work
<1>1. \E j, kind : j.p = p /\ j.kind = kind /\ Load(w, j) /\ MayLoad(w, p, kind)
  <2>1. ASSUME NEW kind
        PROVE [NoJob EXCEPT !.kind = kind, !.p = p].p = p /\ [NoJob EXCEPT !.kind = kind, !.p = p].kind = kind
    BY DEF NoJob
  <2>2. CASE ConfirmLoad(w, p)
    BY <2>1, <2>2 DEF ConfirmLoad
  <2>3. CASE CancelLoad(w, p)
    BY <2>1, <2>3 DEF CancelLoad
  <2>4. CASE CardLoad(w, p)
    BY <2>1, <2>4 DEF CardLoad
  <2>5. CASE RefundLoad(w, p)
    <3>1. PICK a \in 1..Total :
            Load(w, [NoJob EXCEPT !.kind = "refund", !.p = p, !.back = a, !.seen = order])
      BY <2>5 DEF RefundLoad
    <3> DEFINE j == [NoJob EXCEPT !.kind = "refund", !.p = p, !.back = a, !.seen = order]
    <3>2. j.p = p /\ j.kind = "refund"
      BY DEF NoJob
    <3> QED
      BY <2>5, <3>1, <3>2 DEF RefundLoad
  <2> QED
    BY <2>2, <2>3, <2>4, <2>5
<1>2. PICK j, kind : j.p = p /\ j.kind = kind /\ Load(w, j) /\ MayLoad(w, p, kind)
  BY <1>1
<1>3. pc'[w] = "loaded" /\ job'[w] = j
  BY <1>0, <1>2 DEF Load
<1>4. \A x \in Worker \ {w} : pc'[x] = pc[x] /\ job'[x] = job[x]
  BY <1>0, <1>2 DEF Load
<1>5. UNCHANGED <<pay, back>>
  BY <1>2 DEF Load
<1> QED
  BY <1>2, <1>3, <1>4, <1>5 DEF Starts

\* One request's step leaves the others alone.
LEMMA OneGoesOn ==
    ASSUME TInv, NEW w \in Worker, pc[w] # "idle", NEW l \in Label \ {"loaded"}, NEW j,
           pc' = [pc EXCEPT ![w] = l], job' = [job EXCEPT ![w] = j],
           l # "idle" => j.p = job[w].p /\ j.kind = job[w].kind
    PROVE pc'[w] # "loaded" /\ \A x \in Worker : GoesOn(x)
<1>0. pc \in [Worker -> Label] /\ job \in [Worker -> JobRec]
  BY DEF TInv, Work
<1>1. pc'[w] = l /\ job'[w] = j
  BY <1>0
<1>2. ASSUME NEW x \in Worker, x # w PROVE GoesOn(x)
  BY <1>0, <1>2 DEF GoesOn
<1>3. GoesOn(w)
  BY <1>1 DEF GoesOn
<1> QED
  BY <1>1, <1>2, <1>3

LEMMA FinishGoesOn ==
    ASSUME TInv, NEW w \in Worker, pc[w] # "idle", Finish(w)
    PROVE pc'[w] # "loaded" /\ \A x \in Worker : GoesOn(x)
<1>1. "idle" \in Label \ {"loaded"}
  BY DEF Label
<1> QED
  BY <1>1, OneGoesOn DEF Finish, Goto

\* Every step of a request under way.
WorkerStep(w) ==
    \/ ConfirmTake(w) \/ ConfirmLook(w) \/ ConfirmMark(w) \/ CancelWrite(w)
    \/ CardTake(w) \/ CardCommit(w)
    \/ RefundCreate(w) \/ RefundExecute(w) \/ RefundSettle(w)
    \/ Abandon(w)

LEMMA WorkerGoesOn ==
    ASSUME TInv, NEW w \in Worker, WorkerStep(w)
    PROVE pc[w] # "idle" /\ pc'[w] # "loaded" /\ \A x \in Worker : GoesOn(x)
<1>0. pc \in [Worker -> Label] /\ job \in [Worker -> JobRec]
  BY DEF TInv, Work
<1>1. pc[w] # "idle"
  BY DEF WorkerStep, ConfirmTake, ConfirmLook, ConfirmMark, CancelWrite, CardTake, CardCommit,
         RefundCreate, RefundExecute, RefundSettle, Abandon, Loaded
<1>2. CASE Finish(w)
  BY <1>1, <1>2, FinishGoesOn
<1>3. CASE ~Finish(w)
  <2>1. \E l \in Label \ {"loaded"} : \E j :
          /\ Goto(w, l) /\ job' = [job EXCEPT ![w] = j]
          /\ j.p = job[w].p /\ j.kind = job[w].kind
    <3>0. job[w] \in JobRec /\ job = [job EXCEPT ![w] = job[w]]
          /\ {"taken", "marking", "enclosed", "created", "done"} \subseteq Label \ {"loaded"}
      BY <1>0 DEF Label
    <3>1. CASE ConfirmTake(w)
      <4> DEFINE j == [job[w] EXCEPT !.was = pay[job[w].p].state]
      <4>1. Goto(w, "taken") /\ job' = [job EXCEPT ![w] = j]
        BY <1>3, <3>1 DEF ConfirmTake
      <4>2. j.p = job[w].p /\ j.kind = job[w].kind
        BY <3>0 DEF JobRec
      <4> QED
        BY <3>0, <4>1, <4>2
    <3>2. CASE ConfirmLook(w)
      <4> DEFINE j == [job[w] EXCEPT !.seen = order]
      <4>1. Goto(w, "marking") /\ job' = [job EXCEPT ![w] = j]
        BY <1>3, <3>2 DEF ConfirmLook
      <4>2. j.p = job[w].p /\ j.kind = job[w].kind
        BY <3>0 DEF JobRec
      <4> QED
        BY <3>0, <4>1, <4>2
    <3>3. CASE CardTake(w)
      <4> DEFINE full == order \in {"n", "e"} /\ Due("n") <= pay[job[w].p].amount
                 j == [job[w] EXCEPT !.was = pay[job[w].p].state, !.seen = order, !.full = full]
      <4>1. Goto(w, "enclosed")
        BY <1>3, <3>3 DEF CardTake
      <4>2. job' = [job EXCEPT ![w].was = pay[job[w].p].state, ![w].seen = order, ![w].full = full]
        BY <1>3, <3>3 DEF CardTake
      <4>3. job' = [job EXCEPT ![w] = j]
        <5> HIDE DEF full
        <5> QED
          BY <4>2
      <4>4. j.p = job[w].p /\ j.kind = job[w].kind
        <5> HIDE DEF full
        <5> QED
          BY <3>0 DEF JobRec
      <4> HIDE DEF j
      <4> QED
        BY <3>0, <4>1, <4>3, <4>4
    <3>4. CASE RefundCreate(w) \/ RefundExecute(w)
      <4>1. job' = job /\ (Goto(w, "created") \/ Goto(w, "done"))
        BY <3>4 DEF RefundCreate, RefundExecute
      <4> QED
        BY <3>0, <4>1
    <3> QED
      BY <1>3, <3>1, <3>2, <3>3, <3>4
         DEF WorkerStep, ConfirmMark, CancelWrite, CardCommit, RefundSettle, Abandon
  <2> QED
    BY <1>1, <2>1, OneGoesOn DEF Goto
<1> QED
  BY <1>1, <1>2, <1>3

LEMMA ApartStep ==
    ASSUME TInv, Apart, ~Overlap,
           (\E w \in Worker : Starts(w)) \/ (\A w \in Worker : GoesOn(w))
    PROVE Apart'
<1>1. CASE \A w \in Worker : GoesOn(w)
  BY <1>1 DEF Apart, GoesOn
<1>2. ASSUME NEW w \in Worker, Starts(w) PROVE Apart'
  <2>1. ASSUME NEW x \in Worker, x # w, pc'[x] # "idle", job'[x].p = job'[w].p
        PROVE {job'[w].kind, job'[x].kind} \cap Single = {}
    BY <1>2, <2>1 DEF Starts, MayLoad
  <2> QED
    BY <1>2, <2>1 DEF Apart, Starts
<1> QED
  BY <1>1, <1>2

\* A step of the order, or one that makes, changes or fails a payment, starts and ends
\* no request.
LEMMA NextSplit ==
    ASSUME TInv, [Next]_vars
    PROVE \/ /\ UNCHANGED <<pc, job, back>>
             /\ UNCHANGED pay \/ \E p \in Payment : CreatePayment(p) \/ ChangeMethod(p) \/ Fail(p)
          \/ \E w \in Worker, p \in Payment :
               /\ ConfirmLoad(w, p) \/ CancelLoad(w, p) \/ CardLoad(w, p) \/ RefundLoad(w, p)
               /\ Starts(w) /\ job'[w].p = p
          \/ \E w \in Worker :
               WorkerStep(w) /\ pc[w] # "idle" /\ pc'[w] # "loaded" /\ \A x \in Worker : GoesOn(x)
<1>1. CASE UNCHANGED vars \/ Expire \/ RoomChanges
  BY <1>1 DEF vars, Expire, RoomChanges
<1>2. ASSUME NEW p \in Payment, CreatePayment(p) \/ ChangeMethod(p) \/ Fail(p)
      PROVE UNCHANGED <<pc, job, back>>
  BY <1>2 DEF CreatePayment, ChangeMethod, Fail
<1>3. ASSUME NEW w \in Worker, NEW p \in Payment,
             ConfirmLoad(w, p) \/ CancelLoad(w, p) \/ CardLoad(w, p) \/ RefundLoad(w, p)
      PROVE Starts(w) /\ job'[w].p = p
  BY <1>3, LoadStarts
<1>4. ASSUME NEW w \in Worker, WorkerStep(w)
      PROVE pc[w] # "idle" /\ pc'[w] # "loaded" /\ \A x \in Worker : GoesOn(x)
  BY <1>4, WorkerGoesOn
<1>5. \/ UNCHANGED vars \/ Expire \/ RoomChanges
      \/ \E p \in Payment : CreatePayment(p) \/ ChangeMethod(p) \/ Fail(p)
      \/ \E w \in Worker, p \in Payment :
           ConfirmLoad(w, p) \/ CancelLoad(w, p) \/ CardLoad(w, p) \/ RefundLoad(w, p)
      \/ \E w \in Worker : WorkerStep(w)
  BY DEF Next, WorkerStep
<1> QED
  BY <1>1, <1>2, <1>3, <1>4, <1>5

LEMMA ApartNext == TInv /\ Apart /\ ~Overlap /\ [Next]_vars => Apart'
<1> SUFFICES ASSUME TInv, Apart, ~Overlap, [Next]_vars PROVE Apart'
  OBVIOUS
<1>1. CASE UNCHANGED <<pc, job>>
  BY <1>1 DEF Apart
<1> QED
  BY <1>1, NextSplit, ApartStep

LEMMA PaymentsStay == TInv /\ [Next]_vars => Existing
<1> SUFFICES ASSUME TInv, [Next]_vars, NEW p \in Payment, pay[p].state # "none"
             PROVE pay'[p].state # "none"
  BY DEF Existing
<1>0. pay \in [Payment -> PayRec]
  BY DEF TInv, Rows
<1>1. CASE UNCHANGED pay
  BY <1>1
<1>2. ASSUME NEW q \in Payment, CreatePayment(q) \/ ChangeMethod(q) PROVE pay'[p].state # "none"
  BY <1>0, <1>2, StateNames DEF CreatePayment, ChangeMethod, PayRec
<1>3. ASSUME NEW q \in Payment, NEW st \in State, st # "none", SetState(q, st)
      PROVE pay'[p].state # "none"
  BY <1>3, SetStateKeeps DEF TInv, Existing
<1>4. ASSUME NEW w \in Worker, RefundSettle(w) PROVE pay'[p].state # "none"
  BY <1>0, <1>4 DEF RefundSettle, PayRec
<1>5. ASSUME NEW w \in Worker, WorkerStep(w), ~RefundSettle(w)
      PROVE \/ UNCHANGED pay
            \/ \E q \in Payment, st \in State \ {"none"} : SetState(q, st)
  <2>1. job[w].p \in Payment
    BY <1>5, WorkerGoesOn DEF TInv, Work
  <2>2. \/ UNCHANGED pay \/ SetState(job[w].p, "confirmed") \/ SetState(job[w].p, "canceled")
        \/ SetState(job[w].p, "refunded") \/ (pc[w] = "marking" /\ SetState(job[w].p, job[w].was))
    BY <1>5 DEF WorkerStep, ConfirmTake, ConfirmLook, ConfirmMark, Restored, CancelWrite,
                CardTake, CardCommit, RefundCreate, RefundExecute, Abandon
  <2>3. pc[w] = "marking" => job[w].was \in State \ {"none"}
    BY DEF TInv, Work, JobRec
  <2> QED
    BY <2>1, <2>2, <2>3, StateNames
<1>6. ASSUME NEW q \in Payment, Fail(q) PROVE pay'[p].state # "none"
  BY <1>3, <1>6, StateNames DEF Fail
<1> QED
  BY <1>1, <1>2, <1>3, <1>4, <1>5, <1>6, NextSplit DEF Starts

-----------------------------------------------------------------------------
(* Refunds *)

\* Refunds created, with the one that is about to be, fit the payment.
RefundInv ==
    /\ RefundsWithinPayment
    /\ \A p \in Payment : pay[p].state = "none" => back[p] = 0
    /\ \A w \in Worker : Loaded(w, "refund") => back[job[w].p] + job[w].back <= pay[job[w].p].amount

LEMMA RefundStep ==
    TInv /\ Apart /\ ~Overlap /\ RefundInv /\ [Next]_vars => RefundInv'
<1> SUFFICES ASSUME TInv, Apart, ~Overlap, RefundInv, [Next]_vars PROVE RefundInv'
  OBVIOUS
<1>0. /\ SameAmounts /\ Existing
      /\ pay \in [Payment -> PayRec] /\ pay' \in [Payment -> PayRec]
      /\ back \in [Payment -> Nat]
  BY TypeStep, AmountsStay, PaymentsStay DEF TInv, Rows
<1>1. ASSUME back' = back,
             \A w \in Worker : /\ pc'[w] = "loaded" /\ job'[w].kind = "refund"
                              /\ ~(pc[w] = "loaded" /\ job'[w] = job[w])
                              => back[job'[w].p] + job'[w].back <= pay'[job'[w].p].amount
      PROVE RefundInv'
  <2>1. ASSUME NEW p \in Payment PROVE back'[p] <= pay'[p].amount
    <3>1. CASE pay[p].state = "none"
      BY <1>0, <1>1, <3>1 DEF RefundInv, PayRec
    <3>2. CASE pay[p].state # "none"
      BY <1>0, <1>1, <3>2 DEF RefundInv, RefundsWithinPayment, SameAmounts
    <3> QED
      BY <3>1, <3>2
  <2>2. ASSUME NEW p \in Payment, pay'[p].state = "none" PROVE back'[p] = 0
    <3>1. pay[p].state = "none"
      BY <1>0, <2>2 DEF Existing
    <3> QED
      BY <1>1, <3>1 DEF RefundInv
  <2>3. ASSUME NEW w \in Worker, pc'[w] = "loaded", job'[w].kind = "refund"
        PROVE back'[job'[w].p] + job'[w].back <= pay'[job'[w].p].amount
    <3>1. CASE pc[w] = "loaded" /\ job'[w] = job[w]
      <4>1. job[w].p \in Payment /\ pay[job[w].p].state # "none"
        BY <3>1 DEF TInv, Work
      <4> QED
        BY <1>0, <1>1, <2>3, <3>1, <4>1 DEF RefundInv, Loaded, SameAmounts
    <3> QED
      BY <1>1, <2>3, <3>1
  <2> QED
    BY <2>1, <2>2, <2>3 DEF RefundInv, RefundsWithinPayment, Loaded
<1>2. CASE UNCHANGED <<pc, job, back>>
  BY <1>1, <1>2
<1>3. ASSUME NEW w \in Worker, NEW p \in Payment,
             ConfirmLoad(w, p) \/ CancelLoad(w, p) \/ CardLoad(w, p) \/ RefundLoad(w, p),
             Starts(w), job'[w].p = p
      PROVE RefundInv'
  <2>1. ASSUME job'[w].kind = "refund" PROVE back[p] + job'[w].back <= pay[p].amount
    <3>0. job \in [Worker -> JobRec]
      BY DEF TInv, Work
    <3>1. \E j : (j.kind \in {"confirm", "cancel", "card"} /\ Load(w, j)) \/ RefundLoad(w, p)
      <4>1. ASSUME NEW kind PROVE [NoJob EXCEPT !.kind = kind, !.p = p].kind = kind
        BY DEF NoJob
      <4> QED
        BY <1>3, <4>1 DEF ConfirmLoad, CancelLoad, CardLoad
    <3>2. RefundLoad(w, p)
      BY <2>1, <3>0, <3>1 DEF Load
    <3>3. PICK a \in 1..Total : a <= Refundable(p)
            /\ Load(w, [NoJob EXCEPT !.kind = "refund", !.p = p, !.back = a, !.seen = order])
      BY <3>2 DEF RefundLoad
    <3>4. job'[w].back = a
      BY <3>0, <3>3 DEF Load, NoJob
    <3> QED
      BY <1>0, <3>3, <3>4, MoneyAssumption DEF Refundable, PayRec
  <2> QED
    BY <1>1, <1>3, <2>1 DEF Starts
<1>4. ASSUME NEW w \in Worker, WorkerStep(w), pc[w] # "idle", pc'[w] # "loaded",
             \A x \in Worker : GoesOn(x)
      PROVE RefundInv'
  <2>1. \A x \in Worker : pc'[x] = "loaded" => pc[x] = "loaded" /\ job'[x] = job[x]
    BY <1>4 DEF GoesOn
  <2>2. CASE back' = back
    BY <1>1, <2>1, <2>2
  <2>3. CASE back' # back
    <3> DEFINE p == job[w].p
    <3>1. RefundCreate(w)
      BY <1>4, <2>3 DEF WorkerStep, ConfirmTake, ConfirmLook, ConfirmMark, CancelWrite, CardTake,
                        CardCommit, RefundExecute, RefundSettle, Abandon
    <3>2. /\ Loaded(w, "refund") /\ pay' = pay
          /\ back' = [back EXCEPT ![p] = back[p] + job[w].back]
      BY <3>1 DEF RefundCreate
    <3>3. p \in Payment /\ pay[p].state # "none" /\ back[p] + job[w].back <= pay[p].amount
      BY <3>2 DEF Loaded, TInv, Work, RefundInv
    <3>4. ASSUME NEW x \in Worker, Loaded(x, "refund"), x # w PROVE job[x].p # p
      BY <3>2, <3>4 DEF Apart, Loaded, Single
    <3>5. \A q \in Payment : back'[q] = IF q = p THEN back[p] + job[w].back ELSE back[q]
      BY <1>0, <3>2
    <3>6. \A q \in Payment : back'[q] <= pay'[q].amount /\ (pay'[q].state = "none" => back'[q] = 0)
      BY <3>2, <3>3, <3>5 DEF RefundInv, RefundsWithinPayment
    <3>7. ASSUME NEW x \in Worker, pc'[x] = "loaded", job'[x].kind = "refund"
          PROVE back'[job'[x].p] + job'[x].back <= pay'[job'[x].p].amount
      <4>1. Loaded(x, "refund") /\ job'[x] = job[x] /\ x # w
        BY <1>4, <2>1, <3>7 DEF Loaded
      <4>2. job[x].p \in Payment /\ job[x].p # p
        BY <3>4, <4>1 DEF Loaded, TInv, Work
      <4> QED
        BY <3>2, <3>5, <4>1, <4>2 DEF RefundInv
    <3> QED
      BY <3>6, <3>7 DEF RefundInv, RefundsWithinPayment, Loaded
  <2> QED
    BY <2>2, <2>3
<1> QED
  BY <1>2, <1>3, <1>4, NextSplit

\* If no two requests refund a payment at once, it is never refunded for more than it was.
THEOREM RefundsBounded == ASSUME ~Overlap PROVE Spec => []RefundsWithinPayment
<1> DEFINE RInv == Apart /\ RefundInv
<1>1. Init => RInv
  BY MoneyAssumption DEF Init, Apart, RefundInv, RefundsWithinPayment, Loaded, NoPayment
<1>2. TInv /\ RInv /\ [Next]_vars => RInv'
  BY ApartNext, RefundStep
<1>3. RInv => RefundsWithinPayment
  BY DEF RefundInv
<1> HIDE DEF RInv
<1> QED
  BY <1>1, <1>2, <1>3, TypeInvariant, PTL DEF Spec

-----------------------------------------------------------------------------
(* Confirmed payments *)

\* A payment that a clerk is canceling is not confirmed.
CancelInv == \A w \in Worker : Loaded(w, "cancel") => pay[job[w].p].state # "confirmed"

\* Whoever confirms a payment has the request for it.
LEMMA ConfirmedBy ==
    ASSUME TInv, [Next]_vars, NEW p \in Payment,
           pay[p].state # "confirmed", pay'[p].state = "confirmed"
    PROVE \E w \in Worker : pc[w] # "idle" /\ job[w].p = p /\ pc'[w] # "loaded"
<1>0. pay \in [Payment -> PayRec]
  BY DEF TInv, Rows
<1>1. ~ \E q \in Payment : CreatePayment(q) \/ ChangeMethod(q) \/ Fail(q)
  BY <1>0 DEF CreatePayment, ChangeMethod, Fail, SetState, PayRec, Open
<1>2. PICK w \in Worker : WorkerStep(w) /\ pc[w] # "idle" /\ pc'[w] # "loaded"
  BY <1>1, NextSplit DEF Starts
<1>3. CASE RefundSettle(w)
  BY <1>0, <1>3 DEF RefundSettle, PayRec
<1>4. CASE ~RefundSettle(w)
  <2>1. pay' = pay \/ \E st : SetState(job[w].p, st)
    BY <1>2, <1>4 DEF WorkerStep, ConfirmTake, ConfirmLook, ConfirmMark, CancelWrite, CardTake,
                CardCommit, RefundCreate, RefundExecute, Abandon
  <2>2. job[w].p = p
    BY <1>0, <2>1 DEF SetState
  <2> QED
    BY <1>2, <2>2
<1> QED
  BY <1>3, <1>4

LEMMA CancelStep == TInv /\ Apart /\ CancelInv /\ [Next]_vars => CancelInv'
<1> SUFFICES ASSUME TInv, Apart, CancelInv, [Next]_vars,
                    NEW w \in Worker, pc'[w] = "loaded", job'[w].kind = "cancel"
             PROVE pay'[job'[w].p].state # "confirmed"
  BY DEF CancelInv, Loaded
<1>1. CASE pc[w] = "loaded" /\ job'[w] = job[w]
  <2>1. job[w].p \in Payment /\ pay[job[w].p].state # "confirmed"
    BY <1>1 DEF TInv, Work, CancelInv, Loaded
  <2>2. ASSUME pay'[job[w].p].state = "confirmed" PROVE FALSE
    <3>1. PICK x \in Worker : pc[x] # "idle" /\ job[x].p = job[w].p /\ pc'[x] # "loaded"
      BY <2>1, <2>2, ConfirmedBy
    <3> QED
      BY <1>1, <3>1 DEF Apart, Single
  <2> QED
    BY <1>1, <2>2
<1>2. CASE ~(pc[w] = "loaded" /\ job'[w] = job[w])
  <2>1. PICK p \in Payment :
          /\ ConfirmLoad(w, p) \/ CancelLoad(w, p) \/ CardLoad(w, p) \/ RefundLoad(w, p)
          /\ Starts(w) /\ job'[w].p = p
    BY <1>2, NextSplit DEF Starts, GoesOn
  <2>2. \E j : (j.kind \in {"confirm", "card", "refund"} /\ Load(w, j)) \/ CancelLoad(w, p)
    <3>1. ASSUME NEW kind PROVE [NoJob EXCEPT !.kind = kind, !.p = p].kind = kind
      BY DEF NoJob
    <3>2. ASSUME NEW a
          PROVE [NoJob EXCEPT !.kind = "refund", !.p = p, !.back = a, !.seen = order].kind = "refund"
      BY DEF NoJob
    <3> QED
      BY <2>1, <3>1, <3>2 DEF ConfirmLoad, CardLoad, RefundLoad
  <2>3. CancelLoad(w, p)
    BY <2>2 DEF Load, TInv, Work
  <2> QED
    BY <2>1, <2>3 DEF CancelLoad, Starts, Open
<1> QED
  BY <1>1, <1>2

\* If a cancellation has its payment to itself, a confirmed payment stays confirmed until
\* it is refunded, unless its own confirmation takes it back.
THEOREM ConfirmedIsKept == ASSUME ~Overlap PROVE Spec => ConfirmedStays
<1> DEFINE CInv == Apart /\ CancelInv
<1>1. Init => CInv
  BY DEF Init, Apart, CancelInv, Loaded
<1>2. TInv /\ CInv /\ [Next]_vars => CInv'
  BY ApartNext, CancelStep
<1>3. TInv /\ CInv /\ [Next]_vars =>
        [\A p \in Payment : pay[p].state = "confirmed" /\ pay'[p].state \notin Counted =>
            \E w \in Worker : pc[w] = "marking" /\ job[w].p = p /\ pc'[w] = "idle"]_vars
  <2> SUFFICES ASSUME TInv, CInv, [Next]_vars, NEW p \in Payment,
                      pay[p].state = "confirmed", pay'[p].state \notin Counted
               PROVE \E w \in Worker : pc[w] = "marking" /\ job[w].p = p /\ pc'[w] = "idle"
    OBVIOUS
  <2>0. pay \in [Payment -> PayRec] /\ pc \in [Worker -> Label] /\ "confirmed" \in Counted
        /\ "refunded" \in Counted
    BY DEF TInv, Rows, Work, Counted
  <2>1. ~ \E q \in Payment : CreatePayment(q) \/ ChangeMethod(q) \/ Fail(q)
    BY <2>0 DEF CreatePayment, IsNext, ChangeMethod, Fail, MayFail, SetState, PayRec, Open
  <2>2. PICK w \in Worker : WorkerStep(w) /\ pc[w] # "idle"
    BY <2>0, <2>1, NextSplit DEF Starts
  <2>3. ~RefundSettle(w)
    BY <2>0 DEF RefundSettle, PayRec, In, Open
  <2>4. /\ \/ pay' = pay \/ SetState(job[w].p, "confirmed") \/ SetState(job[w].p, "refunded")
           \/ Loaded(w, "cancel") /\ SetState(job[w].p, "canceled")
           \/ ConfirmMark(w) /\ SetState(job[w].p, job[w].was)
    BY <2>2, <2>3 DEF WorkerStep, ConfirmTake, ConfirmLook, ConfirmMark, Restored, CancelWrite,
                      CardTake, CardCommit, RefundCreate, RefundExecute, Abandon
  <2>5. job[w].p = p
    BY <2>0, <2>4 DEF SetState
  <2>6. ~SetState(job[w].p, "confirmed") /\ ~SetState(job[w].p, "refunded") /\ pay' # pay
    BY <2>0, <2>5 DEF SetState, PayRec
  <2>7. ~Loaded(w, "cancel")
    BY <2>5 DEF CancelInv
  <2>8. ConfirmMark(w)
    BY <2>4, <2>6, <2>7
  <2> QED
    BY <2>0, <2>5, <2>8 DEF ConfirmMark, Finish, Goto
<1> HIDE DEF CInv
<1> QED
  BY <1>1, <1>2, <1>3, TypeInvariant, PTL DEF Spec, ConfirmedStays

-----------------------------------------------------------------------------
(* Sums *)

LEMMA PileSize ==
    ASSUME NEW p, NEW n \in Nat
    PROVE IsFiniteSet({p} \X (1..n)) /\ Cardinality({p} \X (1..n)) = n
<1>1. IsFiniteSet(1..n) /\ Cardinality(1..n) = n
  BY FS_Interval
<1>2. IsFiniteSet({p}) /\ Cardinality({p}) = 1
  BY FS_Singleton
<1>3. IsFiniteSet({p} \X (1..n)) /\ Cardinality({p} \X (1..n)) = 1 * n
  <2> HIDE DEF IsFiniteSet
  <2> QED
    BY <1>1, <1>2, FS_Product
<1> QED
  BY <1>3

LEMMA CoinsFinite ==
    ASSUME NEW S \in SUBSET Payment, NEW f \in [Payment -> Nat]
    PROVE IsFiniteSet(Coins(f, S)) /\ Sum(f, S) \in Nat
<1> DEFINE pile == [p \in S |-> {p} \X (1..f[p])]
           piles == {{p} \X (1..f[p]) : p \in S}
<1>1. IsFiniteSet(S)
  <2>1. IsFiniteSet(Payment)
    BY FS_Interval, MoneyAssumption DEF Payment
  <2> QED
    BY <2>1, FS_Subset
<1>2. pile \in Surjection(S, piles)
  BY DEF Surjection
<1>3. IsFiniteSet(piles)
  <2> HIDE DEF pile, piles
  <2> QED
    BY <1>1, <1>2, FS_Surjection
<1>4. ASSUME NEW T \in piles PROVE IsFiniteSet(T)
  <2>1. PICK p \in S : T = {p} \X (1..f[p])
    OBVIOUS
  <2>2. f[p] \in Nat
    OBVIOUS
  <2> QED
    BY <2>1, <2>2, PileSize
<1>5. IsFiniteSet(UNION piles)
  <2> HIDE DEF piles
  <2> QED
    BY <1>3, <1>4, FS_UNION
<1>6. Coins(f, S) = UNION piles
  BY DEF Coins
<1> QED
  BY <1>5, <1>6, FS_CardinalityType DEF Sum

\* One payment more.
LEMMA SumAdd ==
    ASSUME NEW S \in SUBSET Payment, NEW f \in [Payment -> Nat], NEW p \in Payment, p \notin S
    PROVE Sum(f, S \cup {p}) = Sum(f, S) + f[p]
<1> DEFINE A == Coins(f, S)
           B == {p} \X (1..f[p])
<1>1. Coins(f, S \cup {p}) = A \cup B
  BY DEF Coins
<1>2. A \cap B = {}
  BY DEF Coins
<1>3. IsFiniteSet(A) /\ Cardinality(A) \in Nat
  BY CoinsFinite DEF Sum
<1>4. IsFiniteSet(B) /\ Cardinality(B) = f[p]
  BY PileSize
<1>5. Cardinality(A \cup B) = Cardinality(A) + Cardinality(B) - Cardinality(A \cap B)
  <2> HIDE DEF A, B
  <2> QED
    BY <1>3, <1>4, FS_Union
<1>6. Cardinality(A \cap B) = 0
  BY <1>2, FS_EmptySet
<1>7. Cardinality(A \cup B) = Cardinality(A) + f[p]
  <2> HIDE DEF A, B
  <2> QED
    BY <1>3, <1>4, <1>5, <1>6
<1> QED
  BY <1>1, <1>7 DEF Sum

\* Only what the payments in S are worth counts.
LEMMA SumSame ==
    ASSUME NEW S, NEW f, NEW g, \A p \in S : f[p] = g[p]
    PROVE Sum(f, S) = Sum(g, S)
<1>1. {{p} \X (1..f[p]) : p \in S} = {{p} \X (1..g[p]) : p \in S}
  OBVIOUS
<1> QED
  BY <1>1 DEF Sum, Coins

LEMMA SumLess ==
    ASSUME NEW S \in SUBSET Payment, NEW T \in SUBSET S, NEW f \in [Payment -> Nat]
    PROVE Sum(f, T) <= Sum(f, S)
<1>1. Coins(f, T) \in SUBSET Coins(f, S)
  BY DEF Coins
<1> QED
  BY <1>1, CoinsFinite, FS_Subset DEF Sum

\* One payment is worth something else than it was.
LEMMA SumChange ==
    ASSUME NEW f \in [Payment -> Nat], NEW g \in [Payment -> Nat], NEW p \in Payment,
           \A q \in Payment \ {p} : g[q] = f[q]
    PROVE Sum(g, Payment) = Sum(f, Payment) - f[p] + g[p]
<1> DEFINE R == Payment \ {p}
<1>1. Payment = R \cup {p} /\ R \in SUBSET Payment /\ p \in Payment /\ p \notin R
  OBVIOUS
<1>2. Sum(g, R) = Sum(f, R)
  BY SumSame
<1>3. Sum(f, R \cup {p}) = Sum(f, R) + f[p]
  <2> HIDE DEF R
  <2> QED
    BY <1>1, SumAdd
<1>4. Sum(g, R \cup {p}) = Sum(g, R) + g[p]
  <2> HIDE DEF R
  <2> QED
    BY <1>1, SumAdd
<1>5. Sum(f, R) \in Nat
  BY CoinsFinite
<1> HIDE DEF R
<1>6. Sum(g, R \cup {p}) = Sum(f, R \cup {p}) - f[p] + g[p]
  BY <1>1, <1>2, <1>3, <1>4, <1>5
<1> QED
  BY <1>1, <1>6

LEMMA SumNothing ==
    ASSUME NEW S, NEW f, \A p \in S : f[p] = 0
    PROVE Sum(f, S) = 0
<1>1. Coins(f, S) = {}
  BY DEF Coins
<1> QED
  BY <1>1, FS_EmptySet DEF Sum
-----------------------------------------------------------------------------
(* Requests suit their payments *)

\* What a step writes into the payment of a request.
Writes(w, st) ==
    \/ ConfirmTake(w) /\ pay[job[w].p].state # "confirmed" /\ st = "confirmed"
    \/ ConfirmMark(w) /\ ~CanBePaid(job[w].seen) /\ st = job[w].was
    \/ CancelWrite(w) /\ st = "canceled"
    \/ CardCommit(w) /\ st = "confirmed"
    \/ RefundExecute(w) /\ st = "refunded"

LEMMA WriterMoves ==
    ASSUME TInv, NEW w \in Worker, NEW st, Writes(w, st)
    PROVE WorkerStep(w) /\ pc'[w] # pc[w]
<1>0. pc \in [Worker -> Label]
  BY DEF TInv, Work
<1>1. CASE ConfirmTake(w)
  BY <1>0, <1>1 DEF ConfirmTake, WorkerStep, Loaded, Finish, Goto
<1>2. CASE ConfirmMark(w)
  BY <1>0, <1>2 DEF ConfirmMark, WorkerStep, Finish, Goto
<1>3. CASE CancelWrite(w)
  BY <1>0, <1>3 DEF CancelWrite, WorkerStep, Loaded, Finish, Goto
<1>4. CASE CardCommit(w)
  BY <1>0, <1>4 DEF CardCommit, WorkerStep, Finish, Goto
<1>5. CASE RefundExecute(w)
  BY <1>0, <1>5 DEF RefundExecute, WorkerStep, Goto
<1> QED
  BY <1>1, <1>2, <1>3, <1>4, <1>5 DEF Writes

\* What a step may do to a payment: an open one is closed, or a request writes its own.
Fate(p) ==
    \/ pay'[p].state = pay[p].state
    \/ pay[p].state \in Open /\ pay'[p].state \notin Counted
    \/ \E w \in Worker : job[w].p = p /\ Writes(w, pay'[p].state)

LEMMA WorkerFate ==
    ASSUME TInv, NEW w \in Worker, WorkerStep(w), NEW p \in Payment
    PROVE pay'[p].by = pay[p].by /\ Fate(p)
<1>0. pay \in [Payment -> PayRec] /\ pay[p] \in PayRec
  BY DEF TInv, Rows
<1>1. CASE RefundSettle(w)
  <2>1. CASE pay' = pay
    BY <2>1 DEF Fate
  <2>2. CASE pay' # pay
    <3>1. pay' = [q \in Payment |-> IF q \in In(Open) THEN [pay[q] EXCEPT !.state = "canceled"]
                                    ELSE pay[q]]
      BY <1>1, <2>2 DEF RefundSettle
    <3> QED
      BY <1>0, <3>1 DEF Fate, In, Counted, PayRec
  <2> QED
    BY <2>1, <2>2
<1>2. ASSUME NEW st, SetState(job[w].p, st), Writes(w, st)
      PROVE pay'[p].by = pay[p].by /\ Fate(p)
  <2>1. CASE p = job[w].p
    <3>1. pay'[p] = [pay[p] EXCEPT !.state = st]
      BY <1>0, <1>2, <2>1 DEF SetState
    <3>2. pay'[p].state = st /\ pay'[p].by = pay[p].by
      BY <1>0, <3>1 DEF PayRec
    <3> QED
      BY <1>2, <2>1, <3>2 DEF Fate
  <2>2. CASE p # job[w].p
    BY <1>0, <1>2, <2>2 DEF SetState, Fate
  <2> QED
    BY <2>1, <2>2
<1>3. CASE pay' = pay
  BY <1>3 DEF Fate
<1>4. CASE ~RefundSettle(w) /\ pay' # pay
  <2>1. \E st : SetState(job[w].p, st) /\ Writes(w, st)
    BY <1>4 DEF WorkerStep, ConfirmTake, ConfirmLook, ConfirmMark, Restored, CancelWrite, CardTake,
                CardCommit, RefundCreate, RefundExecute, Abandon, Writes
  <2> QED
    BY <1>2, <2>1
<1> QED
  BY <1>1, <1>3, <1>4

LEMMA PaymentFate ==
    ASSUME TInv, [Next]_vars, NEW p \in Payment
    PROVE /\ pay[p].state # "none" => pay'[p].by = pay[p].by /\ Fate(p)
          /\ pay[p].state = "none" => pay'[p].state \notin Counted
<1>0. pay \in [Payment -> PayRec] /\ pay[p] \in PayRec
  BY DEF TInv, Rows
<1>1. CASE UNCHANGED pay
  BY <1>1 DEF Fate, Counted
<1>2. ASSUME NEW q \in Payment, CreatePayment(q) \/ ChangeMethod(q) \/ Fail(q)
      PROVE /\ pay[p].state # "none" => pay'[p].by = pay[p].by /\ Fate(p)
            /\ pay[p].state = "none" => pay'[p].state \notin Counted
  <2>1. CASE CreatePayment(q)
    BY <1>0, <2>1 DEF CreatePayment, IsNext, Fate, Open, Counted
  <2>2. CASE ChangeMethod(q)
    BY <1>0, <2>2 DEF ChangeMethod, IsNext, Fate, Open, Counted, PayRec
  <2>3. CASE Fail(q)
    BY <1>0, <2>3 DEF Fail, MayFail, SetState, Fate, Open, Counted, PayRec
  <2> QED
    BY <1>2, <2>1, <2>2, <2>3
<1>3. ASSUME NEW w \in Worker, WorkerStep(w), pay[p].state = "none"
      PROVE pay'[p].state \notin Counted
  <2>1. job[w].p # p
    BY <1>3, WorkerGoesOn DEF TInv, Work
  <2>2. pay' = pay \/ RefundSettle(w) \/ \E st : SetState(job[w].p, st)
    BY <1>3 DEF WorkerStep, ConfirmTake, ConfirmLook, ConfirmMark, CancelWrite, CardTake,
                CardCommit, RefundCreate, RefundExecute, Abandon
  <2> QED
    BY <1>0, <1>3, <2>1, <2>2 DEF SetState, RefundSettle, Counted, In, Open
<1> QED
  BY <1>1, <1>2, <1>3, WorkerFate, NextSplit DEF Starts

\* A request is for a payment of its kind.  A card payment is debited once: it does not
\* count before, and what is refunded does.  A confirmation goes on only while its payment
\* is confirmed.
Suits(w) == pc[w] # "idle" =>
    \/ /\ job[w].kind = "confirm" /\ pay[job[w].p].by # "card"
       /\ \/ pc[w] = "loaded"
          \/ /\ pc[w] \in {"taken", "marking"} /\ pay[job[w].p].state = "confirmed"
             /\ job[w].was \notin Counted
    \/ job[w].kind = "cancel" /\ pc[w] = "loaded" /\ pay[job[w].p].state \notin Counted
    \/ /\ job[w].kind = "card" /\ pc[w] \in {"loaded", "enclosed"}
       /\ pay[job[w].p].by = "card" /\ pay[job[w].p].state \notin Counted
    \/ /\ job[w].kind = "refund" /\ pc[w] \in {"loaded", "created", "done"}
       /\ pay[job[w].p].by = "card" /\ pay[job[w].p].state \in Counted

\* One request confirms a payment, and only card payments are refunded.
TakenOnce ==
    \A w, x \in Worker : pc[w] \in {"taken", "marking"} /\ pc[x] \in {"taken", "marking"}
                           /\ job[w].p = job[x].p => w = x
CardRefunds ==
    \A p \in Payment : pay[p].state = "refunded" \/ back[p] # 0
                         => pay[p].by = "card" /\ pay[p].state \in Counted
SuitInv == (\A w \in Worker : Suits(w)) /\ TakenOnce /\ CardRefunds

\* A step of one request leaves the others as they are.
LEMMA OthersStay ==
    ASSUME TInv, NEW w \in Worker, WorkerStep(w), NEW x \in Worker, x # w
    PROVE pc'[x] = pc[x] /\ job'[x] = job[x]
<1>0. pc \in [Worker -> Label] /\ job \in [Worker -> JobRec]
  BY DEF TInv, Work
<1>1. \A l : Goto(w, l) => pc'[x] = pc[x]
  BY <1>0 DEF Goto
<1>2. Finish(w) => pc'[x] = pc[x] /\ job'[x] = job[x]
  BY <1>0 DEF Finish, Goto
<1>3. CASE CardTake(w) /\ ~Finish(w)
  <2> DEFINE full == order \in {"n", "e"} /\ Due("n") <= pay[job[w].p].amount
  <2>1. /\ Goto(w, "enclosed")
        /\ job' = [job EXCEPT ![w].was = pay[job[w].p].state, ![w].seen = order, ![w].full = full]
    BY <1>3 DEF CardTake
  <2> HIDE DEF full
  <2> QED
    BY <1>0, <1>1, <2>1
<1> QED
  BY <1>0, <1>1, <1>2, <1>3 DEF WorkerStep, ConfirmTake, ConfirmLook, ConfirmMark, CancelWrite,
     CardTake, CardCommit, RefundCreate, RefundExecute, RefundSettle, Abandon

\* A request that does not move still suits its payment, whatever the others do.
LEMMA SuitsStill ==
    ASSUME TInv, Apart, SuitInv, [Next]_vars, NEW x \in Worker,
           pc'[x] = pc[x], job'[x] = job[x]
    PROVE Suits(x)'
<1> SUFFICES ASSUME pc[x] # "idle" PROVE Suits(x)'
  BY DEF Suits
<1> DEFINE p == job[x].p
<1>1. p \in Payment /\ pay[p].state # "none"
  BY DEF TInv, Work
<1>2. pay'[p].by = pay[p].by /\ Fate(p)
  BY <1>1, PaymentFate
<1>3. CASE pay'[p].state = pay[p].state
  BY <1>2, <1>3 DEF Suits, SuitInv
<1>4. CASE pay[p].state \in Open /\ pay'[p].state \notin Counted
  BY <1>2, <1>4 DEF Suits, SuitInv, Open, Counted
<1>5. ASSUME NEW w \in Worker, job[w].p = p, Writes(w, pay'[p].state) PROVE Suits(x)'
  <2>1. w # x /\ pc[w] # "idle"
    BY <1>5, WriterMoves, WorkerGoesOn
  <2>2. {job[w].kind, job[x].kind} \cap Single = {}
    BY <1>5, <2>1 DEF Apart
  <2>3. job[w].kind = "confirm" /\ job[x].kind = "confirm" /\ pay[p].by # "card"
    BY <1>5, <2>1, <2>2 DEF SuitInv, Suits, Single
  <2>4. CASE pc[x] = "loaded"
    BY <1>2, <2>3, <2>4 DEF Suits
  <2>5. CASE pc[x] # "loaded"
    <3>1. pc[x] \in {"taken", "marking"} /\ pay[p].state = "confirmed"
      BY <2>3, <2>5 DEF SuitInv, Suits
    <3>2. ~ConfirmMark(w)
      BY <1>5, <2>1, <3>1 DEF ConfirmMark, SuitInv, TakenOnce
    <3>3. pc[w] # "enclosed" /\ pc[w] # "created" /\ ~Loaded(w, "cancel")
      BY <2>1, <2>3 DEF SuitInv, Suits, Loaded
    <3> QED
      BY <1>5, <3>1, <3>2, <3>3 DEF Writes, CancelWrite, CardCommit, RefundExecute
  <2> QED
    BY <2>4, <2>5
<1> QED
  BY <1>2, <1>3, <1>4, <1>5 DEF Fate

\* A request that begins suits its payment.
LEMMA SuitsFirst ==
    ASSUME TInv, SuitInv, NEW w \in Worker, NEW p \in Payment,
           ConfirmLoad(w, p) \/ CancelLoad(w, p) \/ CardLoad(w, p) \/ RefundLoad(w, p)
    PROVE Suits(w)'
<1>0. /\ pc'[w] = "loaded" /\ job'[w].p = p /\ pay' = pay
      /\ job \in [Worker -> JobRec] /\ pay[p] \in PayRec
  BY LoadStarts DEF Starts, TInv, Work, Rows
<1>1. ASSUME NEW kind, Load(w, [NoJob EXCEPT !.kind = kind, !.p = p]) PROVE job'[w].kind = kind
  BY <1>0, <1>1 DEF Load, NoJob
<1>2. CASE ConfirmLoad(w, p)
  <2>1. job'[w].kind = "confirm" /\ pay[p].by # "card"
    BY <1>1, <1>2 DEF ConfirmLoad
  <2> QED
    BY <1>0, <2>1 DEF Suits
<1>3. CASE CancelLoad(w, p)
  <2>1. job'[w].kind = "cancel" /\ pay[p].state \notin Counted
    BY <1>1, <1>3 DEF CancelLoad, Open, Counted
  <2> QED
    BY <1>0, <2>1 DEF Suits
<1>4. CASE CardLoad(w, p)
  <2>1. job'[w].kind = "card" /\ pay[p].state \notin Counted /\ pay[p].by = "card"
    BY <1>1, <1>4 DEF CardLoad, Counted
  <2> QED
    BY <1>0, <2>1 DEF Suits
<1>5. CASE RefundLoad(w, p)
  <2>1. PICK a : Load(w, [NoJob EXCEPT !.kind = "refund", !.p = p, !.back = a, !.seen = order])
    BY <1>5 DEF RefundLoad
  <2>2. job'[w].kind = "refund"
    BY <1>0, <2>1 DEF Load, NoJob
  <2>3. pay[p].state \in Counted /\ pay[p].by = "card"
    BY <1>5 DEF RefundLoad, Counted
  <2> QED
    BY <1>0, <2>2, <2>3 DEF Suits
<1> QED
  BY <1>2, <1>3, <1>4, <1>5

\* ... and one that goes on still does.
LEMMA SuitsOn ==
    ASSUME TInv, SuitInv, NEW w \in Worker, WorkerStep(w)
    PROVE Suits(w)'
<1> SUFFICES ASSUME pc'[w] # "idle" PROVE Suits(w)'
  BY DEF Suits
<1> DEFINE p == job[w].p
<1>0. /\ pc \in [Worker -> Label] /\ job \in [Worker -> JobRec] /\ pay \in [Payment -> PayRec]
      /\ p \in Payment /\ pay[p].state # "none" /\ pay[p] \in PayRec /\ job[w] \in JobRec
      /\ job'[w].p = p /\ job'[w].kind = job[w].kind /\ pc[w] # "idle" /\ pc'[w] # "loaded"
  BY WorkerGoesOn DEF TInv, Work, Rows, GoesOn
<1>1. ~Finish(w) /\ Suits(w)
  BY <1>0 DEF Finish, Goto, SuitInv
<1>2. pay'[p].by = pay[p].by
  BY <1>0, WorkerFate
<1>3. CASE ConfirmTake(w)
  <2>1. /\ Loaded(w, "confirm") /\ pay[p].state # "confirmed"
        /\ SetState(p, "confirmed") /\ pc' = [pc EXCEPT ![w] = "taken"]
        /\ job' = [job EXCEPT ![w].was = pay[p].state]
    BY <1>1, <1>3 DEF ConfirmTake, Goto
  <2>2. pc'[w] = "taken" /\ job'[w].was = pay[p].state
    BY <1>0, <2>1 DEF JobRec
  <2>3. pay'[p].state = "confirmed"
    BY <1>0, <2>1 DEF SetState, PayRec
  <2>4. pay[p].by # "card" /\ job[w].kind = "confirm"
    BY <1>0, <1>1, <2>1 DEF Suits, Loaded
  <2>5. pay[p].state \notin Counted
    BY <1>0, <2>1, <2>4 DEF SuitInv, CardRefunds, Counted
  <2> QED
    BY <1>0, <1>2, <2>2, <2>3, <2>4, <2>5 DEF Suits
<1>4. CASE ConfirmLook(w)
  <2>1. /\ pc[w] = "taken" /\ pc' = [pc EXCEPT ![w] = "marking"] /\ pay' = pay
        /\ job' = [job EXCEPT ![w].seen = order]
    BY <1>1, <1>4 DEF ConfirmLook, Goto
  <2>2. pc'[w] = "marking" /\ job'[w].was = job[w].was
    BY <1>0, <2>1 DEF JobRec
  <2> QED
    BY <1>0, <1>1, <2>1, <2>2 DEF Suits
<1>5. CASE CardTake(w)
  <2>1. Loaded(w, "card") /\ pc' = [pc EXCEPT ![w] = "enclosed"] /\ pay' = pay
    BY <1>1, <1>5 DEF CardTake, Goto
  <2> QED
    BY <1>0, <1>1, <2>1 DEF Suits, Loaded
<1>6. CASE RefundCreate(w)
  <2>1. Loaded(w, "refund") /\ pc' = [pc EXCEPT ![w] = "created"] /\ pay' = pay
    BY <1>1, <1>6 DEF RefundCreate, Goto
  <2> QED
    BY <1>0, <1>1, <2>1 DEF Suits, Loaded
<1>7. CASE RefundExecute(w)
  <2>1. /\ pc[w] = "created" /\ pc' = [pc EXCEPT ![w] = "done"]
        /\ pay' = pay \/ SetState(p, "refunded")
    BY <1>1, <1>7 DEF RefundExecute, Goto
  <2>2. pay'[p].state = pay[p].state \/ pay'[p].state = "refunded"
    BY <1>0, <2>1 DEF SetState, PayRec
  <2> QED
    BY <1>0, <1>1, <1>2, <2>1, <2>2 DEF Suits, Counted
<1> QED
  BY <1>1, <1>3, <1>4, <1>5, <1>6, <1>7
     DEF WorkerStep, ConfirmMark, CancelWrite, CardCommit, RefundSettle, Abandon

\* A worker whose request does not move, one that begins a request, and one that goes on.
LEMMA WhoMoves ==
    ASSUME TInv, [Next]_vars, NEW x \in Worker
    PROVE \/ pc'[x] = pc[x] /\ job'[x] = job[x]
          \/ /\ pc'[x] = "loaded"
             /\ \E p \in Payment :
                  ConfirmLoad(x, p) \/ CancelLoad(x, p) \/ CardLoad(x, p) \/ RefundLoad(x, p)
          \/ WorkerStep(x)
<1>1. ASSUME NEW w \in Worker, Starts(w), x # w PROVE pc'[x] = pc[x] /\ job'[x] = job[x]
  BY <1>1 DEF Starts
<1>2. ASSUME NEW w \in Worker, WorkerStep(w), x # w PROVE pc'[x] = pc[x] /\ job'[x] = job[x]
  BY <1>2, OthersStay
<1> QED
  BY <1>1, <1>2, NextSplit DEF Starts

LEMMA CardRefundsStep ==
    ASSUME TInv, SuitInv, [Next]_vars
    PROVE CardRefunds'
<1> SUFFICES ASSUME NEW p \in Payment, pay'[p].state = "refunded" \/ back'[p] # 0
             PROVE pay'[p].by = "card" /\ pay'[p].state \in Counted
  BY DEF CardRefunds
<1>0. /\ back \in [Payment -> Nat] /\ pay \in [Payment -> PayRec]
      /\ "refunded" \in Counted /\ "confirmed" \in Counted
  BY DEF TInv, Rows, Counted
<1>1. ASSUME NEW w \in Worker, pc[w] # "idle", job[w].p = p, job[w].kind = "refund"
      PROVE pay[p].by = "card" /\ pay[p].state \in Counted
  BY <1>1 DEF SuitInv, Suits
<1>2. back'[p] # 0 => pay[p].by = "card" /\ pay[p].state \in Counted
  <2>1. CASE back'[p] = back[p]
    BY <2>1 DEF SuitInv, CardRefunds
  <2>2. CASE back'[p] # back[p]
    <3>1. PICK w \in Worker : RefundCreate(w)
      BY <2>2, NextSplit DEF WorkerStep, ConfirmTake, ConfirmLook, ConfirmMark, CancelWrite, CardTake,
                        CardCommit, RefundExecute, RefundSettle, Abandon, Starts
    <3>2. Loaded(w, "refund") /\ job[w].p = p
      BY <1>0, <2>2, <3>1 DEF RefundCreate
    <3> QED
      BY <1>1, <3>2 DEF Loaded
  <2> QED
    BY <2>1, <2>2
<1>3. pay[p].state # "none"
  BY <1>0, <1>2, PaymentFate DEF Counted
<1>4. pay'[p].by = pay[p].by /\ Fate(p)
  BY <1>3, PaymentFate
<1>5. CASE pay'[p].state = pay[p].state
  BY <1>2, <1>4, <1>5 DEF SuitInv, CardRefunds
<1>6. CASE pay[p].state \in Open /\ pay'[p].state \notin Counted
  BY <1>0, <1>2, <1>6 DEF Open, Counted
<1>7. ASSUME NEW w \in Worker, job[w].p = p, Writes(w, pay'[p].state)
      PROVE pay'[p].by = "card" /\ pay'[p].state \in Counted
  <2>1. pc[w] # "idle" /\ Suits(w)
    BY <1>7, WriterMoves, WorkerGoesOn DEF SuitInv
  <2>2. CASE pay'[p].state = "refunded"
    <3>1. RefundExecute(w) \/ (ConfirmMark(w) /\ job[w].was = "refunded")
      BY <1>7, <2>2 DEF Writes
    <3>2. job[w].kind = "refund"
      BY <1>0, <2>1, <3>1 DEF RefundExecute, ConfirmMark, Suits
    <3> QED
      BY <1>0, <1>1, <1>4, <1>7, <2>1, <2>2, <3>2
  <2>3. CASE pay'[p].state # "refunded"
    <3>1. pay[p].by = "card" /\ pay[p].state \in Counted
      BY <1>2, <2>3
    <3>2. pc[w] # "marking" /\ ~Loaded(w, "cancel")
      BY <1>7, <2>1, <3>1 DEF Suits, Loaded
    <3>3. pay'[p].state = "confirmed"
      BY <1>7, <2>3, <3>2 DEF Writes, ConfirmMark, CancelWrite
    <3> QED
      BY <1>0, <1>4, <3>1, <3>3
  <2> QED
    BY <2>2, <2>3
<1> QED
  BY <1>4, <1>5, <1>6, <1>7 DEF Fate

LEMMA TakenOnceStep ==
    ASSUME TInv, SuitInv, [Next]_vars
    PROVE TakenOnce'
<1>0. pc \in [Worker -> Label] /\ job \in [Worker -> JobRec] /\ pay \in [Payment -> PayRec]
  BY DEF TInv, Work, Rows
<1> DEFINE Taking == {"taken", "marking"}
\* Who has taken a payment had it before, or takes it now.
<1>1. ASSUME NEW w \in Worker, pc'[w] \in Taking
      PROVE /\ job'[w].p = job[w].p
            /\ pc[w] \in Taking \/ (ConfirmTake(w) /\ pay[job[w].p].state # "confirmed" /\ pc'[w] # pc[w])
  <2>1. CASE pc'[w] = pc[w] /\ job'[w] = job[w]
    BY <1>1, <2>1
  <2>2. CASE WorkerStep(w)
    <3>1. job'[w].p = job[w].p
      BY <1>1, <2>2, WorkerGoesOn DEF GoesOn
    <3>2. ~Finish(w)
      BY <1>0, <1>1 DEF Finish, Goto
    <3>3. ConfirmTake(w) \/ ConfirmLook(w)
      BY <1>0, <1>1, <2>2, <3>2 DEF WorkerStep, ConfirmMark, CancelWrite, CardTake, CardCommit,
            RefundCreate, RefundExecute, RefundSettle, Abandon, Goto
    <3> QED
      BY <1>1, <3>1, <3>2, <3>3 DEF ConfirmTake, ConfirmLook, Loaded
  <2> QED
    BY <1>1, <2>1, <2>2, WhoMoves
<1>2. ASSUME NEW w \in Worker, NEW x \in Worker, pc'[w] \in Taking, pc[x] \in Taking,
             job[w].p = job[x].p, w # x
      PROVE FALSE
  <2>1. pc[w] \notin Taking
    BY <1>2 DEF SuitInv, TakenOnce
  <2>2. pay[job[w].p].state # "confirmed"
    BY <1>1, <1>2, <2>1
  <2>3. Suits(x)
    BY DEF SuitInv
  <2> QED
    BY <1>2, <2>2, <2>3 DEF Suits
<1>3. ASSUME NEW w \in Worker, NEW x \in Worker, pc'[w] \in Taking, pc'[x] \in Taking,
             job'[w].p = job'[x].p, w # x
      PROVE FALSE
  <2>1. job[w].p = job[x].p
    BY <1>1, <1>3
  <2>2. pc[w] \notin Taking /\ pc[x] \notin Taking
    BY <1>2, <1>3, <2>1
  <2>3. ConfirmTake(w) /\ pc'[x] # pc[x]
    BY <1>1, <1>3, <2>2
  <2>4. pc'[x] = pc[x]
    BY <1>3, <2>3, OthersStay DEF WorkerStep
  <2> QED
    BY <2>3, <2>4
<1> QED
  BY <1>3 DEF TakenOnce

LEMMA SuitStep == TInv /\ Apart /\ SuitInv /\ [Next]_vars => SuitInv'
<1> SUFFICES ASSUME TInv, Apart, SuitInv, [Next]_vars PROVE SuitInv'
  OBVIOUS
<1>1. ASSUME NEW x \in Worker PROVE Suits(x)'
  BY WhoMoves, SuitsStill, SuitsFirst, SuitsOn
<1> QED
  BY <1>1, CardRefundsStep, TakenOnceStep DEF SuitInv

LEMMA SuitFirst == Init => SuitInv
  BY DEF Init, SuitInv, Suits, TakenOnce, CardRefunds, NoPayment

-----------------------------------------------------------------------------
(* The account of the gift card *)

CardPaid == {p \in In(Counted) : pay[p].by = "card"}

LEMMA AmountsTyped == TInv => Amount \in [Payment -> Nat] /\ In(Counted) \in SUBSET Payment
  BY MoneyAssumption DEF TInv, Rows, PayRec, Amount, In

\* Payments that count are worth what they were.
LEMMA WorthStays ==
    ASSUME TInv, [Next]_vars, NEW S \in SUBSET In(Counted)
    PROVE Sum(Amount', S) = Sum(Amount, S)
<1>1. SameAmounts
  BY AmountsStay
<1>2. ASSUME NEW p \in S PROVE Amount'[p] = Amount[p]
  BY <1>1 DEF In, Counted, SameAmounts, Amount
<1> QED
  BY <1>2, SumSame

\* Only the end of a card transaction makes card payments count.
LEMMA CardPaidStays ==
    ASSUME TInv, SuitInv, [Next]_vars, NEW p \in Payment,
           \A w \in Worker : CardCommit(w) => job[w].p # p
    PROVE p \in CardPaid' <=> p \in CardPaid
<1> USE DEF CardPaid, In
<1>1. CASE pay[p].state = "none"
  BY <1>1, PaymentFate DEF Counted
<1>2. CASE pay[p].state # "none"
  <2>1. pay'[p].by = pay[p].by /\ Fate(p)
    BY <1>2, PaymentFate
  <2>2. CASE pay'[p].state = pay[p].state
    BY <2>1, <2>2
  <2>3. CASE pay[p].state \in Open /\ pay'[p].state \notin Counted
    BY <2>3 DEF Open, Counted
  <2>4. ASSUME NEW w \in Worker, job[w].p = p, Writes(w, pay'[p].state)
        PROVE p \in CardPaid' <=> p \in CardPaid
    <3>1. pc[w] # "idle" /\ Suits(w)
      BY <2>4, WriterMoves, WorkerGoesOn DEF SuitInv
    <3>2. CASE ConfirmTake(w) \/ ConfirmMark(w)
      BY <2>1, <2>4, <3>1, <3>2 DEF ConfirmTake, ConfirmMark, Loaded, Suits
    <3>3. CASE CancelWrite(w) /\ pay'[p].state = "canceled"
      BY <2>4, <3>1, <3>3 DEF CancelWrite, Loaded, Suits, Counted
    <3>4. CASE RefundExecute(w) /\ pay'[p].state = "refunded"
      BY <2>1, <2>4, <3>1, <3>4 DEF RefundExecute, Suits, Counted
    <3> QED
      BY <2>4, <3>2, <3>3, <3>4 DEF Writes
  <2> QED
    BY <2>1, <2>2, <2>3, <2>4 DEF Fate
<1> QED
  BY <1>1, <1>2

LEMMA AccountStep == TInv /\ SuitInv /\ CardAccount /\ [Next]_vars => CardAccount'
<1> SUFFICES ASSUME TInv, SuitInv, CardAccount, [Next]_vars PROVE CardAccount'
  OBVIOUS
<1>0. /\ pay \in [Payment -> PayRec] /\ job \in [Worker -> JobRec] /\ card \in Int
      /\ credited \in [Payment -> Nat] /\ credited' \in [Payment -> Nat] /\ Credit \in Nat
  BY TypeStep, MoneyAssumption DEF TInv, Rows, Work
<1>1. /\ Amount \in [Payment -> Nat] /\ Amount' \in [Payment -> Nat]
      /\ CardPaid \in SUBSET Payment /\ CardPaid' \in SUBSET Payment /\ CardPaid \in SUBSET In(Counted)
  <2>1. TInv'
    BY TypeStep
  <2>2. Amount' \in [Payment -> Nat]
    BY <2>1, MoneyAssumption DEF TInv, Rows, PayRec, Amount
  <2> QED
    BY <2>2, AmountsTyped DEF CardPaid, In
<1>2. Sum(Amount', CardPaid) = Sum(Amount, CardPaid)
  BY <1>1, WorthStays
<1>3. /\ Sum(Amount, CardPaid) \in Nat /\ Sum(credited, Payment) \in Nat
      /\ card = Credit - Sum(Amount, CardPaid) + Sum(credited, Payment)
  BY <1>0, <1>1, CoinsFinite DEF CardAccount, CardPaid
<1>4. card' = Credit - Sum(Amount', CardPaid') + Sum(credited', Payment) => CardAccount'
  BY DEF CardAccount, CardPaid
<1>5. ASSUME NEW w \in Worker, CardCommit(w) PROVE CardAccount'
  <2> DEFINE p == job[w].p
  <2>1. /\ pc[w] = "enclosed" /\ p \in Payment /\ pay[p].state # "none"
        /\ pay[p].by = "card" /\ pay[p].state \notin Counted /\ credited' = credited
    BY <1>5 DEF CardCommit, TInv, Work, SuitInv, Suits
  <2>2. CASE UNCHANGED pay /\ card' = card
    BY <1>3, <1>4, <2>1, <2>2 DEF Amount, CardPaid, In
  <2>3. CASE SetState(p, "confirmed") /\ card' = card - pay[p].amount
    <3>1. pay'[p].state = "confirmed" /\ pay'[p].by = "card" /\ pay'[p].amount = pay[p].amount
      BY <1>0, <2>1, <2>3 DEF SetState, PayRec
    <3>2. \A q \in Payment : q # p => pay'[q] = pay[q]
      BY <1>0, <2>3 DEF SetState
    <3>3. CardPaid' = CardPaid \cup {p} /\ p \notin CardPaid
      BY <2>1, <3>1, <3>2 DEF CardPaid, In, Counted
    <3>4. Amount'[p] = pay[p].amount /\ pay[p].amount \in Nat
      BY <1>0, <1>1, <2>1, <3>1, MoneyAssumption DEF Amount, PayRec
    <3>5. Sum(Amount', CardPaid') = Sum(Amount', CardPaid) + pay[p].amount
      <4>1. Sum(Amount', CardPaid \cup {p}) = Sum(Amount', CardPaid) + Amount'[p]
        <5> HIDE DEF p
        <5> QED
          BY <1>1, <2>1, <3>3, SumAdd
      <4> QED
        BY <3>3, <3>4, <4>1
    <3> QED
      <4> HIDE DEF p
      <4> QED
        BY <1>0, <1>2, <1>3, <1>4, <2>1, <2>3, <3>4, <3>5
  <2>4. (UNCHANGED pay /\ card' = card) \/ (SetState(p, "confirmed") /\ card' = card - pay[p].amount)
    BY <1>0, <1>5 DEF CardCommit, Refused
  <2> QED
    BY <2>2, <2>3, <2>4
<1>6. CASE ~ \E w \in Worker : CardCommit(w)
  <2>1. CardPaid' = CardPaid
    BY <1>1, <1>6, CardPaidStays
  <2>2. CASE card' = card /\ credited' = credited
    BY <1>2, <1>3, <1>4, <2>1, <2>2
  <2>3. ASSUME NEW w \in Worker, RefundExecute(w) PROVE CardAccount'
    <3> DEFINE p == job[w].p
    <3>1. /\ p \in Payment /\ job[w].back \in Nat
          /\ card' = card + job[w].back /\ credited' = [credited EXCEPT ![p] = credited[p] + job[w].back]
      BY <1>0, <2>3, MoneyAssumption DEF RefundExecute, TInv, Work, JobRec
    <3>2. Sum(credited', Payment) = Sum(credited, Payment) + job[w].back
      <4>1. credited'[p] = credited[p] + job[w].back /\ \A q \in Payment \ {p} : credited'[q] = credited[q]
        BY <1>0, <3>1
      <4>2. credited \in [Payment -> Nat] /\ credited' \in [Payment -> Nat] /\ p \in Payment
        BY <1>0, <3>1
      <4> HIDE DEF p
      <4>3. Sum(credited', Payment) = Sum(credited, Payment) - credited[p] + credited'[p]
        BY <4>1, <4>2, SumChange
      <4>4. credited[p] \in Nat /\ Sum(credited, Payment) \in Nat
        BY <1>3, <4>2
      <4> QED
        BY <3>1, <4>1, <4>3, <4>4
    <3> QED
      BY <1>0, <1>2, <1>3, <1>4, <2>1, <3>1, <3>2
  <2>4. (card' = card /\ credited' = credited) \/ \E w \in Worker : RefundExecute(w)
    BY <1>6 DEF Next, vars, Expire, RoomChanges, CreatePayment, ChangeMethod, Fail, ConfirmLoad, CancelLoad,
       CardLoad, RefundLoad, Load, ConfirmTake, ConfirmLook, ConfirmMark, CancelWrite, CardTake,
       RefundCreate, RefundSettle, Abandon
  <2> QED
    BY <2>2, <2>3, <2>4
<1> QED
  BY <1>5, <1>6

\* Where card payments, cancellations and refunds have their payment to themselves, the
\* gift card has what it was worth at first, less what was paid with it, and what came back.
THEOREM CardBalances == ASSUME ~Overlap PROVE Spec => []CardAccount
<1> DEFINE AInv == Apart /\ SuitInv /\ CardAccount
<1>1. ASSUME Init PROVE AInv
  <2>1. Apart
    BY <1>1 DEF Init, Apart
  <2>2. CardPaid = {} /\ card = Credit /\ \A p \in Payment : credited[p] = 0
    BY <1>1 DEF Init, CardPaid, In, Counted, NoPayment
  <2>3. Sum(Amount, {}) = 0 /\ Sum(credited, Payment) = 0
    BY <2>2, SumNothing
  <2>4. CardAccount
    BY <2>2, <2>3, MoneyAssumption DEF CardAccount, CardPaid
  <2> QED
    BY <1>1, <2>1, <2>4, SuitFirst
<1>2. TInv /\ AInv /\ [Next]_vars => AInv'
  BY ApartNext, SuitStep, AccountStep
<1>3. AInv => CardAccount
  OBVIOUS
<1> HIDE DEF AInv
<1> QED
  BY <1>1, <1>2, <1>3, TypeInvariant, PTL DEF Spec

-----------------------------------------------------------------------------
(* Paid in full *)

\* Payments that count and that no confirmation is still at.
Settled ==
    {p \in In(Counted) : \A w \in Worker : pc[w] \in {"taken", "marking"} => job[w].p # p}
NoCardYet == \A p \in In(Counted) : pay[p].by # "card"

\* An order that is not paid lacks something, whatever is about to be looked at: whoever
\* confirms the last payment sees that it is the last.
LackInv == NoCardYet /\ order \in {"n", "e"} => Sum(Amount, Settled) < Total

\* Once a card payment counts, one does for good.
LEMMA CardStays == TInv /\ SuitInv /\ [Next]_vars /\ NoCardYet' => NoCardYet
<1> SUFFICES ASSUME TInv, SuitInv, [Next]_vars, NEW p \in CardPaid
             PROVE \E q \in Payment : pay'[q].state \in Counted /\ pay'[q].by = "card"
  BY DEF NoCardYet, CardPaid, In
<1>0. p \in Payment /\ pay[p].state \in Counted /\ pay[p].by = "card" /\ pay[p].state # "none"
  BY DEF CardPaid, In, Counted
<1>1. CASE \A w \in Worker : CardCommit(w) => job[w].p # p
  BY <1>0, <1>1, CardPaidStays DEF CardPaid, In
<1>2. ASSUME NEW w \in Worker, CardCommit(w) PROVE job[w].p # p
  BY <1>0, <1>2 DEF CardCommit, SuitInv, Suits
<1> QED
  BY <1>1, <1>2

\* Without card payments nothing is refunded, and only an expiry makes the order open.
LEMMA NoRefundYet ==
    ASSUME TInv, SuitInv, NoCardYet
    PROVE RefundSum = 0 /\ \A w \in Worker : ~RefundSettle(w) /\ ~RefundExecute(w)
<1>1. \A p \in Payment : back[p] = 0
  BY DEF SuitInv, CardRefunds, NoCardYet, In
<1>2. ASSUME NEW w \in Worker, pc[w] \in {"created", "done"} PROVE FALSE
  <2>1. job[w].p \in Payment /\ Suits(w)
    BY <1>2 DEF TInv, Work, SuitInv
  <2> QED
    BY <1>2, <2>1 DEF Suits, NoCardYet, In
<1> QED
  BY <1>1, <1>2, SumNothing DEF RefundSum, RefundSettle, RefundExecute

\* A confirmation that stops has seen that something is due, or the order is paid.
LEMMA LookStops ==
    ASSUME TInv, SuitInv, NoCardYet, order \in {"n", "e"},
           NEW w \in Worker, ConfirmLook(w), pc'[w] # "marking"
    PROVE Sum(Amount, In(Counted)) < Total
<1>1. ~Goto(w, "marking") /\ pc[w] = "taken"
  BY DEF ConfirmLook, Goto, TInv, Work
<1>2. ~(Due("n") <= 0)
  BY <1>1 DEF ConfirmLook, Suffices
<1>3. PICK n \in Nat : n = Sum(Amount, In(Counted))
  BY AmountsTyped, CoinsFinite
<1>4. Due("n") = Total - n + 0
  BY <1>3, NoRefundYet DEF Due, PaymentSum
<1> QED
  BY <1>2, <1>3, <1>4, MoneyAssumption

\* Who settles a payment: only a confirmation that stops looking.
LEMMA SettledBy ==
    ASSUME TInv, SuitInv, [Next]_vars, NoCardYet, NoCardYet', order' \in {"n", "e"},
           NEW p \in Payment, p \in Settled', p \notin Settled
    PROVE \E w \in Worker : ConfirmLook(w) /\ pc'[w] # "marking"
<1>0. /\ pc \in [Worker -> Label] /\ pay'[p].state \in Counted
      /\ \A w \in Worker : pc'[w] \in {"taken", "marking"} => job'[w].p # p
      /\ "none" \notin Counted /\ "canceled" \notin Counted
  BY DEF Settled, In, TInv, Work, Counted
<1>1. pay[p].state # "none" /\ pay'[p].by = pay[p].by /\ Fate(p)
  BY <1>0, PaymentFate
<1>2. pay[p].by # "card"
  BY <1>0, <1>1 DEF NoCardYet, In
<1>3. ASSUME NEW w \in Worker, job[w].p = p, Writes(w, pay'[p].state) PROVE FALSE
  <2>1. pc[w] # "idle" /\ Suits(w)
    BY <1>3, WriterMoves, WorkerGoesOn DEF SuitInv
  <2>2. CASE ConfirmTake(w) /\ pay[p].state # "confirmed"
    <3>1. Goto(w, "taken") /\ job'[w].p = p
      BY <1>3, <2>2, WorkerGoesOn DEF ConfirmTake, GoesOn, Goto, WorkerStep, TInv, Work
    <3> QED
      BY <1>0, <3>1 DEF Goto
  <2>3. CASE ConfirmMark(w) /\ pay'[p].state = job[w].was
    BY <1>0, <2>1, <2>3 DEF ConfirmMark, Suits
  <2> QED
    BY <1>0, <1>2, <1>3, <2>1, <2>2, <2>3 DEF Writes, CardCommit, RefundExecute, Suits
<1>4. pay[p].state \in Counted
  BY <1>0, <1>1, <1>3 DEF Fate
<1>5. PICK w \in Worker : pc[w] \in {"taken", "marking"} /\ job[w].p = p
  BY <1>4 DEF Settled, In
<1>6. ~(pc'[w] = pc[w] /\ job'[w] = job[w])
  BY <1>0, <1>5
<1>7. WorkerStep(w)
  BY <1>5, <1>6, WhoMoves, LoadStarts DEF Starts, MayLoad
<1>8. CASE ConfirmLook(w)
  <2>1. job'[w].p = p \/ pc'[w] = "idle"
    BY <1>5, <1>7, WorkerGoesOn DEF GoesOn
  <2> QED
    BY <1>0, <1>8, <2>1
<1>9. CASE ConfirmMark(w)
  <2>1. CASE CanBePaid(job[w].seen)
    BY <1>9, <2>1 DEF ConfirmMark
  <2>2. CASE ~CanBePaid(job[w].seen)
    <3>1. SetState(p, job[w].was) /\ job[w].was \notin Counted
      BY <1>5, <1>9, <2>2 DEF ConfirmMark, Restored, SuitInv, Suits
    <3> QED
      BY <1>0, <3>1 DEF SetState, TInv, Rows, PayRec
  <2> QED
    BY <2>1, <2>2
<1> QED
  BY <1>5, <1>7, <1>8, <1>9 DEF WorkerStep, ConfirmTake, CancelWrite, CardTake, CardCommit, RefundCreate,
     RefundExecute, RefundSettle, Abandon, Loaded

LEMMA LackStep == TInv /\ SuitInv /\ LackInv /\ [Next]_vars => LackInv'
<1> SUFFICES ASSUME TInv, SuitInv, LackInv, [Next]_vars, NoCardYet', order' \in {"n", "e"}
             PROVE Sum(Amount', Settled') < Total
  BY DEF LackInv
<1>1. NoCardYet
  BY CardStays
<1>2. order \in {"n", "e"}
  BY <1>1, NoRefundYet DEF Next, vars, Expire, RoomChanges, CreatePayment, ChangeMethod, Fail, ConfirmLoad,
     CancelLoad, CardLoad, RefundLoad, Load, ConfirmTake, ConfirmLook, ConfirmMark, CancelWrite, CardTake,
     CardCommit, RefundCreate, RefundExecute, Abandon
<1>3. /\ Amount \in [Payment -> Nat] /\ In(Counted) \in SUBSET Payment
      /\ Settled \in SUBSET In(Counted) /\ Settled' \in SUBSET Payment
  BY AmountsTyped DEF Settled, In
<1>4. ASSUME NEW S \in SUBSET In(Counted), Settled' \in SUBSET S, Sum(Amount, S) < Total
      PROVE Sum(Amount', Settled') < Total
  <2>1. Sum(Amount', Settled') = Sum(Amount, Settled')
    BY <1>4, WorthStays
  <2>2. Sum(Amount, Settled') <= Sum(Amount, S) /\ Sum(Amount, S) \in Nat /\ Sum(Amount, Settled') \in Nat
    BY <1>3, <1>4, SumLess, CoinsFinite
  <2> QED
    BY <1>4, <2>1, <2>2, MoneyAssumption
<1>5. CASE Settled' \in SUBSET Settled
  BY <1>1, <1>2, <1>3, <1>4, <1>5 DEF LackInv
<1>6. CASE Settled' \notin SUBSET Settled
  <2>1. PICK p \in Payment : p \in Settled' /\ p \notin Settled
    BY <1>3, <1>6
  <2>2. PICK w \in Worker : ConfirmLook(w) /\ pc'[w] # "marking"
    BY <1>1, <2>1, SettledBy
  <2>3. Sum(Amount, In(Counted)) < Total
    BY <1>1, <1>2, <2>2, LookStops
  <2>4. Settled' \in SUBSET In(Counted)
    BY <2>2 DEF ConfirmLook, Settled, In
  <2> QED
    BY <1>3, <1>4, <2>3, <2>4
<1> QED
  BY <1>5, <1>6

\* Where card payments, cancellations and refunds have their payment to themselves, an
\* order that is fully paid without a gift card is paid when no request is under way,
\* however its confirmations, failures and expiry interleave.
THEOREM FullyPaidIsPaid == ASSUME ~Overlap PROVE Spec => []FullyConfirmedIsPaid
<1> DEFINE PInv == Apart /\ SuitInv /\ LackInv
<1>1. ASSUME Init PROVE PInv
  <2>1. Apart /\ Settled = {}
    BY <1>1 DEF Init, Apart, Settled, In, Counted, NoPayment
  <2>2. LackInv
    BY <2>1, SumNothing, MoneyAssumption DEF LackInv
  <2> QED
    BY <1>1, <2>1, <2>2, SuitFirst
<1>2. TInv /\ PInv /\ [Next]_vars => PInv'
  BY ApartNext, SuitStep, LackStep
<1>3. TInv /\ PInv => FullyConfirmedIsPaid
  <2> SUFFICES ASSUME TInv, PInv, Quiet, \A p \in In(Counted) : pay[p].by # "card", Due("n") <= 0,
                      order \notin {"p", "c"}
               PROVE FALSE
    BY DEF FullyConfirmedIsPaid
  <2>1. NoCardYet /\ order \in {"n", "e"} /\ Settled = In(Counted)
    BY DEF NoCardYet, TInv, Rows, Quiet, Settled
  <2>2. Sum(Amount, In(Counted)) < Total /\ RefundSum = 0
    BY <2>1, NoRefundYet DEF LackInv
  <2>3. PICK n \in Nat : n = Sum(Amount, In(Counted))
    BY AmountsTyped, CoinsFinite
  <2>4. Due("n") = Total - n + 0
    BY <2>2, <2>3 DEF Due, PaymentSum
  <2> QED
    BY <2>2, <2>3, <2>4, MoneyAssumption
<1> HIDE DEF PInv
<1> QED
  BY <1>1, <1>2, <1>3, TypeInvariant, PTL DEF Spec
=============================================================================
