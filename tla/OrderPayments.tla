---------------------------- MODULE OrderPayments ----------------------------
(***************************************************************************)
(* The payments of one order and the gift card some of them draw on:       *)
(* OrderPayment and OrderRefund in base/models/orders.py, the gift card    *)
(* provider in base/payment.py, and the requests that create, confirm,     *)
(* fail, cancel and refund a payment.                                      *)
(*                                                                         *)
(* OrderPayment.confirm is two transactions with a look at the order in    *)
(* between.  Called inside another transaction, as the gift card provider  *)
(* does, it is one that others see only when it commits, and it keeps the  *)
(* rows of the payment and of the card locked until then (enclosed).       *)
(***************************************************************************)
EXTENDS Integers, FiniteSets

CONSTANTS
    Worker,       \* request and task processes
    MaxPayments,  \* bound: payments the order can have
    Total,        \* Order.total
    Credit,       \* what the gift card is worth at first
    Ops,          \* the kinds of requests made, a subset of Kinds
    Overlap       \* may a card payment, cancellation or refund meet another
                  \* request for the same payment?

Single == {"card", "cancel", "refund"}
Kinds == {"create", "change", "confirm", "fail", "expire"} \cup Single

ASSUME MoneyAssumption == MaxPayments \in Nat /\ Total \in Nat \ {0} /\ Credit \in Nat
ASSUME RequestsAssumption == Ops \subseteq Kinds /\ Overlap \in BOOLEAN

Payment == 1..MaxPayments      \* OrderPayment.local_id

VARIABLES
    order,     \* Order.status
    room,      \* would the quota take the order back if it has expired?
    pay,       \* the payments
    card,      \* GiftCard.value, the sum of its transactions
    back,      \* refunds of each payment, created or done
    credited,  \* ... and those done
    pc,        \* what each worker is at
    job        \* what each worker has read

vars == <<order, room, pay, card, back, credited, pc, job>>

NoPayment == [state |-> "none", amount |-> 0, by |-> "other"]
Open == {"created", "pending"}
Counted == {"confirmed", "refunded"}
State == Open \cup Counted \cup {"none", "failed", "canceled"}
NoJob == [kind |-> "none", p |-> 0, was |-> "none", seen |-> "none", full |-> FALSE, back |-> 0]

\* The types; a request under way is for a payment that exists.
TypeOK ==
    /\ order \in {"n", "p", "e", "c"}
    /\ room \in BOOLEAN
    /\ pay \in [Payment -> [state : State, amount : 0..Total, by : {"card", "other"}]]
    /\ card \in Int
    /\ {back, credited} \subseteq [Payment -> Nat]
    /\ pc \in [Worker -> {"idle", "loaded", "taken", "marking", "enclosed", "created", "done"}]
    /\ job \in [Worker -> [kind : Kinds \cup {"none"}, p : Payment \cup {0}, was : State,
                           seen : {"n", "p", "e", "c", "none"}, full : BOOLEAN, back : 0..Total]]
    /\ \A w \in Worker : pc[w] # "idle" => job[w].p \in Payment /\ pay[job[w].p].state # "none"

Init ==
    /\ order \in {"n", "e"}
    /\ room \in BOOLEAN
    /\ pay = [p \in Payment |-> NoPayment]
    /\ card = Credit
    /\ back = [p \in Payment |-> 0]
    /\ credited = [p \in Payment |-> 0]
    /\ pc = [w \in Worker |-> "idle"]
    /\ job = [w \in Worker |-> NoJob]

-----------------------------------------------------------------------------
(* Sums *)

In(S) == {p \in Payment : pay[p].state \in S}

\* Amounts are whole numbers; a sum is the number of coins they are paid with.
Coins(f, S) == UNION {{p} \X (1..f[p]) : p \in S}
Sum(f, S) == Cardinality(Coins(f, S))

\* A refunded payment still counts, its refund counts against it.
Amount == [p \in Payment |-> pay[p].amount]
PaymentSum == Sum(Amount, In(Counted))
RefundSum == Sum(back, Payment)

\* pending_sum of the order in the given status
Due(status) == (IF status = "c" THEN 0 ELSE Total) - PaymentSum + RefundSum

-----------------------------------------------------------------------------
(* Requests *)

\* A worker that is inside a transaction keeps its payment and the card locked.
\* Mutant: select_for_update is missing for the card.
RowFree(p) == \A w \in Worker : ~(pc[w] = "enclosed" /\ job[w].p = p)
CardFree_NotLocked == TRUE
CardFree == \A w \in Worker : pc[w] # "enclosed"

\* A customer submits a card payment, a clerk cancels or refunds a payment, once.
MayLoad(w, p, kind) ==
    /\ kind \in Ops /\ pc[w] = "idle"
    /\ Overlap \/ \A x \in Worker : pc[x] # "idle" /\ job[x].p = p
                                      => {kind, job[x].kind} \cap Single = {}

Load(w, j) ==
    /\ pc' = [pc EXCEPT ![w] = "loaded"]
    /\ job' = [job EXCEPT ![w] = j]
    /\ UNCHANGED <<order, room, pay, card, back, credited>>

Goto(w, label) == pc' = [pc EXCEPT ![w] = label]
Finish(w) == Goto(w, "idle") /\ job' = [job EXCEPT ![w] = NoJob]

Loaded(w, kind) == pc[w] = "loaded" /\ job[w].kind = kind

SetState(p, st) == pay' = [pay EXCEPT ![p].state = st]

-----------------------------------------------------------------------------
(* New payments *)

IsNext(p) == pay[p].state = "none" /\ \A q \in 1..(p - 1) : pay[q].state # "none"

\* POST payments/, with any amount, not to be confirmed at once
CreatePayment(p) ==
    /\ "create" \in Ops /\ IsNext(p)
    /\ \E a \in 1..Total, st \in Open :
         pay' = [pay EXCEPT ![p] = [state |-> st, amount |-> a, by |-> "other"]]
    /\ UNCHANGED <<order, room, card, back, credited, pc, job>>

\* The customer picks another payment method: the last payment is canceled if it is
\* still open, and a new one is created for what is due, or for what the card has.
ChangeMethod(p) ==
    /\ "change" \in Ops /\ IsNext(p)
    /\ order = "n" \/ (order = "e" /\ room)
    /\ p - 1 \in Payment => RowFree(p - 1)
    /\ \E by \in {"card", "other"}, due \in 1..Total :
         /\ due = IF by = "card" /\ card < Due(order) THEN card ELSE Due(order)
         /\ pay' = [q \in Payment |->
                      IF q = p THEN [state |-> "created", amount |-> due, by |-> by]
                      ELSE IF q = p - 1 /\ pay[q].state \in Open THEN [pay[q] EXCEPT !.state = "canceled"]
                      ELSE pay[q]]
    /\ UNCHANGED <<order, room, card, back, credited, pc, job>>

-----------------------------------------------------------------------------
(* OrderPayment.confirm, by a clerk, the API or the provider *)

ConfirmLoad(w, p) ==
    /\ MayLoad(w, p, "confirm")
    /\ pay[p].state \in Open /\ pay[p].by # "card"
    /\ Load(w, [NoJob EXCEPT !.kind = "confirm", !.p = p])

\* The payment is confirmed and committed, unless it is already.
ConfirmTake(w) ==
    /\ Loaded(w, "confirm")
    /\ LET p == job[w].p
       IN /\ RowFree(p)
          /\ IF pay[p].state = "confirmed"
             THEN Finish(w) /\ UNCHANGED pay
             ELSE /\ SetState(p, "confirmed")
                  /\ Goto(w, "taken")
                  /\ job' = [job EXCEPT ![w].was = pay[p].state]
    /\ UNCHANGED <<order, room, card, back, credited>>

\* Mutant: only the payment itself counts.
Suffices_Alone(w) == pay[job[w].p].amount >= Total
Suffices(w) == Due("n") <= 0

\* The order is read again, and the sums.
ConfirmLook(w) ==
    /\ pc[w] = "taken"
    /\ IF order \in {"p", "c"} \/ ~Suffices(w)
       THEN Finish(w)
       ELSE /\ Goto(w, "marking")
            /\ job' = [job EXCEPT ![w].seen = order]
    /\ UNCHANGED <<order, room, pay, card, back, credited>>

\* _can_be_paid: a pending order may, an expired one if the quota has room
CanBePaid(seen) == seen = "n" \/ room

\* Mutant: the state the payment had before is lost.
Restored_Lost(w) == NoPayment.state
Restored(w) == job[w].was

\* _mark_paid, or the payment gets the state back that it had before
ConfirmMark(w) ==
    /\ pc[w] = "marking"
    /\ IF CanBePaid(job[w].seen)
       THEN order' = "p" /\ UNCHANGED pay
       ELSE /\ RowFree(job[w].p)
            /\ SetState(job[w].p, Restored(w))
            /\ UNCHANGED order
    /\ Finish(w)
    /\ UNCHANGED <<room, card, back, credited>>

\* OrderPayment.fail.  Mutant: it does not look at the row again.
MayFail_Anytime(p) == pay[p].state # "none"
MayFail(p) == pay[p].state \in Open
Fail(p) ==
    /\ "fail" \in Ops /\ pay[p].by # "card"
    /\ RowFree(p) /\ MayFail(p)
    /\ SetState(p, "failed")
    /\ UNCHANGED <<order, room, card, back, credited, pc, job>>

\* A clerk cancels an open payment; the row is written without looking at it again.
CancelLoad(w, p) ==
    /\ MayLoad(w, p, "cancel")
    /\ pay[p].state \in Open
    /\ Load(w, [NoJob EXCEPT !.kind = "cancel", !.p = p])

CancelWrite(w) ==
    /\ Loaded(w, "cancel")
    /\ RowFree(job[w].p)
    /\ SetState(job[w].p, "canceled")
    /\ Finish(w)
    /\ UNCHANGED <<order, room, card, back, credited>>

-----------------------------------------------------------------------------
(* GiftCardPayment.execute_payment *)

CardLoad(w, p) ==
    /\ MayLoad(w, p, "card")
    /\ pay[p].state = "created" /\ pay[p].by = "card"
    /\ CanBePaid(order)
    /\ Load(w, [NoJob EXCEPT !.kind = "card", !.p = p])

\* The card is locked and asked, the payment confirmed inside the transaction.
CardTake(w) ==
    /\ Loaded(w, "card")
    /\ CardFree /\ RowFree(job[w].p)
    /\ LET p == job[w].p
       IN IF pay[p].amount > card
          THEN Finish(w)
          ELSE /\ Goto(w, "enclosed")
               /\ job' = [job EXCEPT ![w].was = pay[p].state, ![w].seen = order,
                                     ![w].full = order \in {"n", "e"} /\ Due("n") <= pay[p].amount]
    /\ UNCHANGED <<order, room, pay, card, back, credited>>

\* What the card is debited if the quota refuses the order: the transaction is rolled
\* back.  Mutant: it is not.
Refused_Kept(p) == pay[p].amount
Refused(p) == 0

\* The transaction ends.  A payment that was confirmed already is not looked at, but
\* the card is debited.
CardCommit(w) ==
    /\ pc[w] = "enclosed"
    /\ LET p == job[w].p
           marks == job[w].full /\ job[w].was # "confirmed"
       IN IF marks /\ ~CanBePaid(job[w].seen)
          THEN card' = card - Refused(p) /\ UNCHANGED <<pay, order>>
          ELSE /\ SetState(p, "confirmed")
               /\ card' = card - pay[p].amount
               /\ order' = IF marks THEN "p" ELSE order
    /\ Finish(w)
    /\ UNCHANGED <<room, back, credited>>

-----------------------------------------------------------------------------
(* POST payments/<id>/refund/, for the gift card *)

\* Mutant: earlier refunds are forgotten.
Refundable_Whole(p) == pay[p].amount
Refundable(p) == pay[p].amount - back[p]
RefundLoad(w, p) ==
    /\ MayLoad(w, p, "refund")
    /\ pay[p].state = "confirmed" /\ pay[p].by = "card"
    /\ \E a \in 1..Total :
         /\ a <= Refundable(p)
         /\ Load(w, [NoJob EXCEPT !.kind = "refund", !.p = p, !.back = a, !.seen = order])

RefundCreate(w) ==
    /\ Loaded(w, "refund")
    /\ back' = [back EXCEPT ![job[w].p] = @ + job[w].back]
    /\ Goto(w, "created")
    /\ UNCHANGED <<order, room, pay, card, credited, job>>

\* execute_refund and OrderRefund.done
RefundExecute(w) ==
    /\ pc[w] = "created"
    /\ LET p == job[w].p
       IN /\ RowFree(p)
          /\ card' = card + job[w].back
          /\ credited' = [credited EXCEPT ![p] = @ + job[w].back]
          /\ IF back[p] >= pay[p].amount THEN SetState(p, "refunded") ELSE UNCHANGED pay
    /\ Goto(w, "done")
    /\ UNCHANGED <<order, room, back, job>>

\* An order that something is due for again is pending, whatever it was, or canceled
\* with its open payments.
RefundSettle(w) ==
    /\ pc[w] = "done"
    /\ \/ /\ Due(job[w].seen) <= 0 \/ order = "c"
          /\ UNCHANGED <<order, pay>>
       \/ /\ Due(job[w].seen) > 0
          /\ order' = "n" /\ UNCHANGED pay
       \/ /\ Due(job[w].seen) > 0 /\ order # "c"
          /\ \A p \in In(Open) : RowFree(p)
          /\ order' = "c"
          /\ pay' = [p \in Payment |-> IF p \in In(Open) THEN [pay[p] EXCEPT !.state = "canceled"]
                                       ELSE pay[p]]
    /\ Finish(w)
    /\ UNCHANGED <<room, card, back, credited>>

-----------------------------------------------------------------------------
(* The rest of the shop *)

Expire ==
    /\ "expire" \in Ops /\ order = "n"
    /\ order' = "e"
    /\ UNCHANGED <<room, pay, card, back, credited, pc, job>>

\* Others buy or give back tickets.
RoomChanges ==
    /\ room' = ~room
    /\ UNCHANGED <<order, pay, card, back, credited, pc, job>>

\* A request dies before it has written, inside its transaction, or halfway through a
\* refund.
Abandon(w) ==
    /\ pc[w] \in {"loaded", "enclosed", "created", "done"}
    /\ Finish(w)
    /\ UNCHANGED <<order, room, pay, card, back, credited>>

Next ==
    \/ Expire \/ RoomChanges
    \/ \E p \in Payment : CreatePayment(p) \/ ChangeMethod(p) \/ Fail(p)
    \/ \E w \in Worker, p \in Payment :
         ConfirmLoad(w, p) \/ CancelLoad(w, p) \/ CardLoad(w, p) \/ RefundLoad(w, p)
    \/ \E w \in Worker :
         \/ ConfirmTake(w) \/ ConfirmLook(w) \/ ConfirmMark(w) \/ CancelWrite(w)
         \/ CardTake(w) \/ CardCommit(w)
         \/ RefundCreate(w) \/ RefundExecute(w) \/ RefundSettle(w)
         \/ Abandon(w)

Spec == Init /\ [][Next]_vars

-----------------------------------------------------------------------------
(* Properties *)

Quiet == \A w \in Worker : pc[w] = "idle"

\* confirm() "also marks the order as paid if no further payment is required": when
\* nothing is under way, an order that is fully paid, without a gift card, is not left
\* pending or expired.  Of several confirmations at the same time, the last to commit its
\* payment sees them all.
FullyConfirmedIsPaid ==
    Quiet /\ (\A p \in In(Counted) : pay[p].by # "card") /\ Due("n") <= 0
      => order \in {"p", "c"}

\* The gift card is never overdrawn, however many payments try it at once.
CardNotNegative == card >= 0

\* What is missing on the card was paid with it and not refunded.
CardAccount ==
    card = Credit - Sum(Amount, {p \in In(Counted) : pay[p].by = "card"})
                  + Sum(credited, Payment)

\* No payment is refunded for more than it was.
RefundsWithinPayment == \A p \in Payment : back[p] <= pay[p].amount

\* A confirmed payment stays confirmed until it is refunded; only the confirmation
\* that set it takes it back when the quota refuses the order.
ConfirmedStays ==
    [][\A p \in Payment :
         pay[p].state = "confirmed" /\ pay'[p].state \notin Counted =>
           \E w \in Worker : pc[w] = "marking" /\ job[w].p = p /\ pc'[w] = "idle"]_vars

=============================================================================
