-------------------------- MODULE TicketSalesProofs --------------------------
(***************************************************************************)
(* Proofs about TicketSales, for any number of carts, workers, tickets and *)
(* usages: the types, the voucher (counted, within its limit, and there    *)
(* for whoever has it reserved), the quota, and that the sales implement   *)
(* the pool of TicketPool.                                                 *)
(*                                                                         *)
(* The invariant is built up in steps, each of which may use the ones      *)
(* before: what a request carries (IInv), that requests of one cart do not *)
(* meet (Alone) and what they may hence rely on (Local), what kind they    *)
(* are (Asked), what a checkout holds (Held), what is left of the voucher  *)
(* (Claims), what the quota has room for (NoOverbooking, Room).            *)
(***************************************************************************)
EXTENDS TicketSales, FiniteSetTheorems, TLAPS

Sane(t) ==
    /\ t.del \cap (t.ext \cup t.app) = {}
    /\ t.want \subseteq Own(t.s)
    /\ t.kind \in OrderKinds => status[t.s] # "none" /\ t.seen # "none"

RowsOK ==
    /\ pos \in [Slot -> {"none", "valid", "expired", "ordered", "canceled"}]
    /\ vou \subseteq {p \in Slot : pos[p] # "none"}
    /\ status \in [Session -> Statuses \cup {"none"}]
    /\ \A p \in Slot : pos[p] \in {"ordered", "canceled"} => status[p[1]] # "none"

WorkOK ==
    /\ lock \in Worker \cup {None}
    /\ pc \in [Worker -> {"idle", "planned", "checking", "uncommitted"}]
    /\ task \in [Worker -> Task \cup {None}]
    /\ \A w \in Worker :
         /\ pc[w] # "idle" => task[w] \in Task /\ Sane(task[w])
         /\ pc[w] = "checking" => lock = w /\ task[w].kind = "checkout"
         /\ pc[w] = "uncommitted" => task[w].kind \in OrderKinds
         /\ lock = w => pc[w] \in {"checking", "uncommitted"}

IInv == RowsOK /\ WorkOK /\ redeemed \in Nat

-----------------------------------------------------------------------------
\* A part of the slots is finite and can be counted.
LEMMA Countable ==
    ASSUME NEW S, S \subseteq Slot
    PROVE  IsFiniteSet(S) /\ Cardinality(S) \in Nat
<1>1. IsFiniteSet(1..SlotsPer)
  BY FS_Interval, NumbersAssumption
<1>2. IsFiniteSet(Slot)
  BY <1>1, SessionsFinite, FS_Product DEF Slot
<1> QED
  BY <1>2, FS_Subset, FS_CardinalityType

\* The voucher count stays a natural number.
LEMMA CountRedeem ==
    ASSUME redeemed \in Nat, NEW S, S \subseteq Slot, Redeem(Cardinality(S))
    PROVE  redeemed' \in Nat
  BY Countable DEF Redeem

LEMMA CountUnredeem ==
    ASSUME redeemed \in Nat, NEW S, S \subseteq Slot, Unredeem(Cardinality(S))
    PROVE  redeemed' \in Nat
  BY Countable DEF Unredeem, NonNeg

\* A request that has just been read is in order.
LEMMA ReadIsTask ==
    ASSUME RowsOK, NEW s \in Session, NEW k \in Kinds
    PROVE  Read(s, k) \in Task
<1>1. 0 \in 0..MaxCart
  BY NumbersAssumption
<1>2. Own(s) \cap At("valid") \in SUBSET Slot /\ Own(s) \cap vou \in SUBSET Slot
  BY DEF Own, At, Slot
<1>3. status[s] \in Statuses \cup {"none"}
  BY DEF RowsOK
<1> QED
  BY <1>1, <1>2, <1>3 DEF Read, Task

\* ... and stays so when what is to be done is filled in.
LEMMA Amended ==
    ASSUME NEW t \in Task, NEW X \in SUBSET Slot, NEW Y \in SUBSET Slot
    PROVE  /\ \A n \in 0..MaxCart, v \in BOOLEAN :
                [t EXCEPT !.add = n, !.v = v, !.ext = X] \in Task
           /\ [t EXCEPT !.del = X, !.ext = Y] \in Task
           /\ \A n \in 0..MaxCart : [t EXCEPT !.del = X, !.add = n, !.ext = Y] \in Task
           /\ [t EXCEPT !.app = X, !.ext = Y] \in Task
           /\ [t EXCEPT !.want = X] \in Task
           /\ [t EXCEPT !.valid = X, !.vou = Y] \in Task
  BY DEF Task

\* A worker that has no more than planned does not hold the lock.
LEMMA PlannedHasNoLock ==
    ASSUME WorkOK, NEW w \in Worker, pc[w] = "planned"
    PROVE  LockWithout(w) = lock
  BY DEF WorkOK, LockWithout

\* A request begins.
LEMMA Starting ==
    ASSUME WorkOK, NEW w \in Worker, NEW t \in Task, Idle(w), Start(w, t), Sane(t)
    PROVE  WorkOK'
<1>1. lock' = lock /\ status' = status
  BY DEF Start
<1>2. pc' \in [Worker -> {"idle", "planned", "checking", "uncommitted"}]
  BY DEF Start, WorkOK
<1>3. task' \in [Worker -> Task \cup {None}]
  BY DEF Start, WorkOK
<1>4. ASSUME NEW x \in Worker
      PROVE  /\ pc'[x] # "idle" => task'[x] \in Task /\ Sane(task[x])'
             /\ pc'[x] = "checking" => lock' = x /\ task'[x].kind = "checkout"
             /\ pc'[x] = "uncommitted" => task'[x].kind \in OrderKinds
             /\ lock' = x => pc'[x] \in {"checking", "uncommitted"}
  <2>1. CASE x = w
    BY <1>1, <2>1 DEF Start, WorkOK, Sane, Own, Idle
  <2>2. CASE x # w
    <3>1. pc'[x] = pc[x] /\ task'[x] = task[x]
      BY <2>2 DEF Start, WorkOK
    <3> QED
      BY <1>1, <3>1 DEF WorkOK, Sane, Own
  <2> QED
    BY <2>1, <2>2
<1> QED
  BY <1>1, <1>2, <1>3, <1>4 DEF WorkOK

\* An order that exists goes on existing.
OrdersKept == \A s \in Session : status[s] # "none" => status'[s] # "none"

\* A request ends, whatever it was at.
LEMMA Ending ==
    ASSUME WorkOK, NEW w \in Worker, Finish(w), lock' = LockWithout(w), OrdersKept
    PROVE  WorkOK'
<1>1. lock' \in Worker \cup {None}
  BY DEF WorkOK, LockWithout
<1>2. pc' \in [Worker -> {"idle", "planned", "checking", "uncommitted"}]
  BY DEF Finish, WorkOK
<1>3. task' \in [Worker -> Task \cup {None}]
  BY DEF Finish, WorkOK
<1>4. ASSUME NEW x \in Worker
      PROVE  /\ pc'[x] # "idle" => task'[x] \in Task /\ Sane(task[x])'
             /\ pc'[x] = "checking" => lock' = x /\ task'[x].kind = "checkout"
             /\ pc'[x] = "uncommitted" => task'[x].kind \in OrderKinds
             /\ lock' = x => pc'[x] \in {"checking", "uncommitted"}
  <2>1. CASE x = w
    <3>1. pc'[x] = "idle"
      BY <2>1 DEF Finish, WorkOK
    <3>2. lock' # x
      BY <2>1, NobodyAssumption DEF LockWithout
    <3> QED
      BY <3>1, <3>2
  <2>2. CASE x # w
    <3>1. pc'[x] = pc[x] /\ task'[x] = task[x]
      BY <2>2 DEF Finish, WorkOK
    <3>2. lock' = x <=> lock = x
      BY <2>2, NobodyAssumption DEF LockWithout
    <3>3. pc[x] # "idle" => task[x].s \in Session
      BY DEF WorkOK, Task
    <3> QED
      BY <3>1, <3>2, <3>3 DEF WorkOK, Sane, Own, OrdersKept
  <2> QED
    BY <2>1, <2>2
<1> QED
  BY <1>1, <1>2, <1>3, <1>4 DEF WorkOK

-----------------------------------------------------------------------------
\* The planning reads leave the rows alone and carry what they read.
LEMMA PlanStep ==
    ASSUME IInv, NEW w \in Worker, NEW s \in Session, Plan(w, s)
    PROVE  IInv'
<1>1. \A k \in Kinds : Read(s, k) \in Task
  BY ReadIsTask DEF IInv
<1>2. {"add", "remove", "setAddons", "voucher", "checkout"} \cup OrderKinds \subseteq Kinds
  BY DEF Kinds, CartKinds
<1>3. Cart(s) \in SUBSET Slot /\ Expired(s) \in SUBSET Slot /\ Cart(s) \subseteq Own(s)
  BY DEF Cart, Expired, Own, At, Slot
<1>4. \E t \in Task : Start(w, t) /\ Sane(t) /\ Idle(w)
  <2>1. CASE PlanAdd(w, s)
    <3>1. PICK n \in 1..MaxCart, v \in BOOLEAN :
             Start(w, [Read(s, "add") EXCEPT !.add = n, !.v = v, !.ext = Expired(s)])
      BY <2>1 DEF PlanAdd
    <3> DEFINE t == [Read(s, "add") EXCEPT !.add = n, !.v = v, !.ext = Expired(s)]
    <3>2. t \in Task
      <4>1. n \in 0..MaxCart
        BY NumbersAssumption
      <4> QED
        BY <1>1, <1>2, <1>3, <4>1, Amended
    <3>3. Sane(t)
      BY DEF Sane, Read, OrderKinds
    <3> QED
      BY <3>1, <3>2, <3>3, <2>1 DEF PlanAdd, MayStart
  <2>2. CASE PlanRemove(w, s)
    <3>1. PICK D \in {Cart(s)} \cup {{p} : p \in Cart(s)} :
             Start(w, [Read(s, "remove") EXCEPT !.del = D, !.ext = Expired(s) \ D])
      BY <2>2 DEF PlanRemove
    <3> DEFINE t == [Read(s, "remove") EXCEPT !.del = D, !.ext = Expired(s) \ D]
    <3>2. t \in Task
      <4>1. D \in SUBSET Slot /\ Expired(s) \ D \in SUBSET Slot
        BY <1>3
      <4> QED
        BY <1>1, <1>2, <4>1, Amended
    <3>3. Sane(t)
      BY DEF Sane, Read, OrderKinds
    <3> QED
      BY <3>1, <3>2, <3>3, <2>2 DEF PlanRemove, MayStart
  <2>3. CASE PlanAddons(w, s)
    <3>1. PICK p \in Cart(s) :
             Start(w, [Read(s, "setAddons") EXCEPT !.del = {p}, !.add = 1, !.ext = Expired(s) \ {p}])
      BY <2>3 DEF PlanAddons
    <3> DEFINE t == [Read(s, "setAddons") EXCEPT !.del = {p}, !.add = 1, !.ext = Expired(s) \ {p}]
    <3>2. t \in Task
      <4>1. 1 \in 0..MaxCart
        BY NumbersAssumption
      <4>2. {p} \in SUBSET Slot /\ Expired(s) \ {p} \in SUBSET Slot
        BY <1>3
      <4> QED
        BY <1>1, <1>2, <4>1, <4>2, Amended
    <3>3. Sane(t)
      BY DEF Sane, Read, OrderKinds
    <3> QED
      BY <3>1, <3>2, <3>3, <2>3 DEF PlanAddons, MayStart
  <2>4. CASE PlanVoucher(w, s)
    <3> DEFINE t == [Read(s, "voucher") EXCEPT !.app = Cart(s) \ vou, !.ext = Expired(s)]
    <3>1. t \in Task
      <4>1. Cart(s) \ vou \in SUBSET Slot
        BY <1>3
      <4> QED
        BY <1>1, <1>2, <1>3, <4>1, Amended
    <3>2. Sane(t)
      BY DEF Sane, Read, OrderKinds
    <3> QED
      BY <3>1, <3>2, <2>4 DEF PlanVoucher, MayStart
  <2>5. CASE PlanCheckout(w, s)
    <3> DEFINE t == [Read(s, "checkout") EXCEPT !.want = Cart(s)]
    <3>1. t \in Task
      BY <1>1, <1>2, <1>3, Amended
    <3>2. Sane(t)
      BY <1>3 DEF Sane, Read, OrderKinds
    <3> QED
      BY <3>1, <3>2, <2>5 DEF PlanCheckout, MayStart
  <2>6. CASE PlanOrder(w, s)
    <3>1. PICK k \in OrderKinds :
             MayStart(w, s, k) /\ status[s] \in SeenBy[k] /\ Start(w, ReadOrder(s, k))
      BY <2>6 DEF PlanOrder
    <3>2. ReadOrder(s, k) \in Task
      BY <1>1, <1>2, Amended DEF ReadOrder
    <3>3. status[s] # "none"
      BY <3>1 DEF OrderKinds, SeenBy
    <3>4. Sane(ReadOrder(s, k))
      BY <3>3 DEF Sane, ReadOrder, Read
    <3> QED
      BY <3>1, <3>2, <3>4 DEF MayStart
  <2> QED
    BY <2>1, <2>2, <2>3, <2>4, <2>5, <2>6 DEF Plan
<1>5. WorkOK'
  BY <1>4, Starting DEF IInv
<1>6. UNCHANGED <<pos, vou, status, redeemed>>
  BY <1>4 DEF Start
<1> QED
  BY <1>5, <1>6 DEF IInv, RowsOK

-----------------------------------------------------------------------------
\* A request that leaves all rows alone and ends.
LEMMA RefuseStep ==
    ASSUME IInv, NEW w \in Worker, Refuse(w), pc[w] = "planned"
    PROVE  IInv'
<1>1. lock' = LockWithout(w)
  BY PlannedHasNoLock DEF IInv, Refuse
<1>2. WorkOK'
  BY <1>1, Ending DEF IInv, Refuse, OrdersKept
<1> QED
  BY <1>2 DEF IInv, RowsOK, Refuse

\* The cart is written: what is removed is neither renewed nor given the voucher.
LEMMA CartStep ==
    ASSUME IInv, NEW w \in Worker, CartCommit(w)
    PROVE  IInv'
<1> DEFINE t == task[w]
<1>1. t \in Task /\ Sane(t) /\ pc[w] = "planned"
  BY DEF CartCommit, IInv, WorkOK
<1>2. t.del \subseteq Slot /\ t.ext \subseteq Slot /\ t.app \subseteq Slot
  BY <1>1 DEF Task
<1>3. CartWrite(w, t)
  BY DEF CartCommit
<1>4. PICK keep \in SUBSET t.ext, new \in SUBSET Fresh(t.s), ghosts \in SUBSET Fresh(t.s) :
        /\ keep = InCart(keep)
        /\ CartRows(t, keep, new, ghosts)
        /\ Finish(w)
        /\ UNCHANGED <<lock, status, redeemed>>
  BY <1>3 DEF CartWrite
<1> DEFINE gone == InCart(t.del \cup (t.ext \ keep))
           app  == InCart(t.app \ t.ext)
<1>5. pos' \in [Slot -> {"none", "valid", "expired", "ordered", "canceled"}]
  BY <1>4 DEF IInv, RowsOK, CartRows
<1>6. ASSUME NEW p \in Slot
      PROVE  /\ p \in gone => pos'[p] = "none"
             /\ p \notin gone /\ p \in keep \cup new \cup ghosts => pos'[p] = "valid"
             /\ p \notin gone /\ p \notin keep \cup new \cup ghosts => pos'[p] = pos[p]
  BY <1>4 DEF CartRows
<1>7. ASSUME NEW p \in vou'
      PROVE  p \in Slot /\ pos'[p] # "none"
  <2>1. ASSUME NEW q \in new \cup ghosts
        PROVE  q \in Slot /\ q \notin gone
    <3>1. q \in Slot /\ pos[q] = "none"
      BY <1>1 DEF Fresh, Own, Slot, Task
    <3> QED
      BY <3>1 DEF InCart
  <2>2. ASSUME NEW q \in keep \cup app
        PROVE  q \in Slot /\ q \notin gone /\ (q \in app => pos[q] # "none")
    BY <1>1, <1>2 DEF Sane, InCart
  <2>3. CASE p \in vou \ (gone \cup keep)
    BY <2>3, <1>6 DEF IInv, RowsOK
  <2>4. CASE p \in keep \cup app
    BY <2>4, <2>2, <1>6
  <2>5. CASE p \in new \cup ghosts
    BY <2>5, <2>1, <1>6
  <2> QED
    BY <1>4, <2>3, <2>4, <2>5 DEF CartRows
<1>8. \A p \in Slot : pos'[p] \in {"ordered", "canceled"} => status'[p[1]] # "none"
  BY <1>4, <1>6 DEF IInv, RowsOK
<1>9. RowsOK'
  BY <1>4, <1>5, <1>7, <1>8 DEF IInv, RowsOK
<1>10. WorkOK'
  <2>1. lock' = LockWithout(w)
    BY <1>1, <1>4, PlannedHasNoLock DEF IInv
  <2> QED
    BY <1>4, <2>1, Ending DEF IInv, OrdersKept
<1> QED
  BY <1>4, <1>9, <1>10 DEF IInv

\* A request goes on with what it carries filled in, or takes or keeps the lock.
LEMMA GoingOn ==
    ASSUME WorkOK, NEW w \in Worker, NEW t \in Task, NEW c \in {"checking", "uncommitted"},
           pc' = [pc EXCEPT ![w] = c], task' = [task EXCEPT ![w] = t], status' = status,
           Sane(t),
           \/ lock = w /\ lock' = w
           \/ lock = None /\ lock' = w
           \/ lock' = lock /\ c = "uncommitted" /\ pc[w] = "planned",
           c = "checking" => lock' = w /\ t.kind = "checkout",
           c = "uncommitted" => t.kind \in OrderKinds
    PROVE  WorkOK'
<1>1. lock' \in Worker \cup {None}
  BY DEF WorkOK
<1>2. pc' \in [Worker -> {"idle", "planned", "checking", "uncommitted"}]
  BY DEF WorkOK
<1>3. task' \in [Worker -> Task \cup {None}]
  BY DEF WorkOK
<1>4. ASSUME NEW x \in Worker
      PROVE  /\ pc'[x] # "idle" => task'[x] \in Task /\ Sane(task[x])'
             /\ pc'[x] = "checking" => lock' = x /\ task'[x].kind = "checkout"
             /\ pc'[x] = "uncommitted" => task'[x].kind \in OrderKinds
             /\ lock' = x => pc'[x] \in {"checking", "uncommitted"}
  <2>1. CASE x = w
    <3>1. pc'[x] = c /\ task'[x] = t
      BY <2>1 DEF WorkOK
    <3>2. Sane(task[x])'
      BY <3>1 DEF Sane, Own
    <3> QED
      BY <2>1, <3>1, <3>2
  <2>2. CASE x # w
    <3>1. pc'[x] = pc[x] /\ task'[x] = task[x]
      BY <2>2 DEF WorkOK
    <3>2. Sane(task[x])' <=> Sane(task[x])
      BY <3>1 DEF Sane, Own
    <3>3. pc[x] = "checking" => lock = x
      BY DEF WorkOK
    <3>4. lock = x => lock' = x
      BY <2>2, NobodyAssumption
    <3>5. lock' = x => lock = x
      BY <2>2, NobodyAssumption
    <3> QED
      BY <3>1, <3>2, <3>3, <3>4, <3>5 DEF WorkOK
  <2> QED
    BY <2>1, <2>2
<1> QED
  BY <1>1, <1>2, <1>3, <1>4 DEF WorkOK

-----------------------------------------------------------------------------
\* Checkout: the lock is held from the first check to the order.
LEMMA CheckoutBeginStep ==
    ASSUME IInv, NEW w \in Worker, CheckoutBegin(w)
    PROVE  IInv'
<1>1. task[w] \in Task /\ Sane(task[w]) /\ pc[w] = "planned" /\ task[w].kind = "checkout"
  BY DEF CheckoutBegin, IInv, WorkOK
<1>2. CASE InCart(task[w].want) = task[w].want /\ status[task[w].s] = "none"
  <2> DEFINE t == [task[w] EXCEPT !.todo = task[w].want,
                                  !.valid = task[w].want \cap At("valid"),
                                  !.vou = task[w].want \cap vou]
  <2>1. /\ lock = None /\ lock' = w
        /\ pc' = [pc EXCEPT ![w] = "checking"]
        /\ task' = [task EXCEPT ![w].todo = task[w].want,
                                ![w].valid = task[w].want \cap At("valid"),
                                ![w].vou = task[w].want \cap vou]
        /\ UNCHANGED <<pos, vou, status, redeemed>>
    BY <1>2 DEF CheckoutBegin
  <2>2. task' = [task EXCEPT ![w] = t]
    BY <2>1 DEF IInv, WorkOK
  <2>3. t \in Task
    <3>1. task[w].want \in SUBSET Slot
      BY <1>1 DEF Task
    <3>2. task[w].want \cap At("valid") \in SUBSET Slot /\ task[w].want \cap vou \in SUBSET Slot
      BY <3>1
    <3> QED
      BY <1>1, <3>1, <3>2 DEF Task
  <2>4. t.kind = "checkout" /\ Sane(t)
    BY <1>1 DEF Sane, Task
  <2>5. WorkOK'
    BY <2>1, <2>2, <2>3, <2>4, GoingOn DEF IInv
  <2> QED
    BY <2>1, <2>5 DEF IInv, RowsOK
<1>3. CASE ~(InCart(task[w].want) = task[w].want /\ status[task[w].s] = "none")
  BY <1>1, <1>3, RefuseStep DEF CheckoutBegin
<1> QED
  BY <1>2, <1>3

LEMMA CheckPositionStep ==
    ASSUME IInv, NEW w \in Worker, CheckPosition(w)
    PROVE  IInv'
<1> DEFINE t == task[w]
<1>1. /\ t \in Task /\ Sane(t) /\ pc[w] = "checking" /\ lock = w /\ t.kind = "checkout"
      /\ pc \in [Worker -> {"idle", "planned", "checking", "uncommitted"}]
  BY DEF CheckPosition, IInv, WorkOK
<1>2. PICK p \in t.todo :
        /\ \/ pos' = pos /\ vou' = vou
           \/ pos' = [pos EXCEPT ![p] = "valid"] /\ (vou' = vou \/ vou' = vou \cup (t.vou \cap {p}))
           \/ pos' = [pos EXCEPT ![p] = "none"] /\ vou' = vou \ {p}
        /\ \/ task' = [task EXCEPT ![w].todo = @ \ {p}]
           \/ task' = [task EXCEPT ![w].todo = @ \ {p}, ![w].bad = TRUE]
  BY DEF CheckPosition
<1>3. UNCHANGED <<lock, status, redeemed, pc>>
  BY DEF CheckPosition
<1>4. p \in Slot
  BY <1>1 DEF Task
<1>5. RowsOK'
  BY <1>2, <1>3, <1>4 DEF IInv, RowsOK
<1>6. WorkOK'
  <2>1. \E u \in Task : task' = [task EXCEPT ![w] = u] /\ Sane(u) /\ u.kind = "checkout"
    <3> DEFINE u == [t EXCEPT !.todo = @ \ {p}]
               b == [u EXCEPT !.bad = TRUE]
    <3>1. t.todo \ {p} \in SUBSET Slot
      BY <1>1 DEF Task
    <3>2. u \in Task /\ Sane(u) /\ u.kind = "checkout"
      BY <1>1, <3>1 DEF Task, Sane
    <3>3. b \in Task /\ Sane(b) /\ b.kind = "checkout"
      BY <3>2 DEF Task, Sane
    <3>4. CASE task' = [task EXCEPT ![w].todo = @ \ {p}]
      <4>1. task' = [task EXCEPT ![w] = u]
        BY <3>4 DEF IInv, WorkOK
      <4> QED
        BY <4>1, <3>2
    <3>5. CASE task' = [task EXCEPT ![w].todo = @ \ {p}, ![w].bad = TRUE]
      <4>1. task' = [task EXCEPT ![w] = b]
        BY <3>5 DEF IInv, WorkOK
      <4> QED
        BY <4>1, <3>3
    <3> QED
      BY <1>2, <3>4, <3>5
  <2>2. pc' = [pc EXCEPT ![w] = "checking"]
    BY <1>1, <1>3
  <2> QED
    BY <1>1, <1>3, <2>1, <2>2, GoingOn DEF IInv
<1> QED
  BY <1>3, <1>5, <1>6 DEF IInv

LEMMA CheckoutEndStep ==
    ASSUME IInv, NEW w \in Worker, CheckoutEnd(w)
    PROVE  IInv'
<1> DEFINE t == task[w]
<1>1. t \in Task /\ Sane(t) /\ pc[w] = "checking" /\ lock = w
  BY DEF CheckoutEnd, IInv, WorkOK
<1>2. lock' = LockWithout(w) /\ Finish(w)
  BY <1>1 DEF CheckoutEnd, LockWithout
<1>3. CASE t.bad
  <2>1. UNCHANGED <<pos, vou, status, redeemed>>
    BY <1>3 DEF CheckoutEnd
  <2>2. WorkOK'
    BY <1>2, <2>1, Ending DEF IInv, OrdersKept
  <2> QED
    BY <2>1, <2>2 DEF IInv, RowsOK
<1>4. CASE ~t.bad
  <2>1. PICK st \in {"n", "p"} :
          /\ pos' = [p \in Slot |-> IF p \in t.want THEN "ordered" ELSE pos[p]]
          /\ vou' = vou \cup (t.want \cap t.vou)
          /\ status' = [status EXCEPT ![t.s] = st]
          /\ Redeem(Cardinality(t.want \cap t.vou))
    BY <1>4 DEF CheckoutEnd
  <2>2. t.s \in Session /\ t.want \subseteq Slot
    BY <1>1 DEF Task
  <2>3. \A p \in t.want : p[1] = t.s
    BY <1>1 DEF Sane, Own
  <2>4. RowsOK'
    <3>1. status' \in [Session -> Statuses \cup {"none"}]
      BY <2>1, <2>2 DEF IInv, RowsOK, Statuses
    <3>2. pos' \in [Slot -> {"none", "valid", "expired", "ordered", "canceled"}]
      BY <2>1 DEF IInv, RowsOK
    <3>3. vou' \subseteq {p \in Slot : pos'[p] # "none"}
      BY <2>1, <2>2 DEF IInv, RowsOK
    <3>4. ASSUME NEW p \in Slot, pos'[p] \in {"ordered", "canceled"}
          PROVE  status'[p[1]] # "none"
      <4>1. p[1] \in Session
        BY DEF Slot
      <4>2. CASE p \in t.want
        BY <2>1, <2>2, <2>3, <4>2 DEF IInv, RowsOK
      <4>3. CASE p \notin t.want
        BY <2>1, <2>2, <3>4, <4>1, <4>3 DEF IInv, RowsOK
      <4> QED
        BY <4>2, <4>3
    <3> QED
      BY <3>1, <3>2, <3>3, <3>4 DEF RowsOK
  <2>5. OrdersKept
    BY <2>1, <2>2 DEF OrdersKept, IInv, RowsOK
  <2>6. WorkOK'
    BY <1>2, <2>5, Ending DEF IInv
  <2>7. redeemed' \in Nat
    <3>1. t.want \cap t.vou \subseteq Slot
      BY <2>2
    <3> QED
      BY <2>1, <3>1, CountRedeem DEF IInv
  <2> QED
    BY <2>4, <2>6, <2>7 DEF IInv
<1> QED
  BY <1>3, <1>4

-----------------------------------------------------------------------------
\* Orders: a request that only changes the status of its order, and ends.
LEMMA SetStatusStep ==
    ASSUME IInv, NEW w \in Worker, pc[w] = "planned", task[w].kind \in OrderKinds,
           NEW st \in Statuses, SetStatus(w, st), lock' = lock
    PROVE  /\ WorkOK'
           /\ status' \in [Session -> Statuses \cup {"none"}]
           /\ OrdersKept
<1>1. task[w].s \in Session
  BY DEF IInv, WorkOK, Task
<1>2. OrdersKept /\ status' \in [Session -> Statuses \cup {"none"}]
  BY <1>1 DEF SetStatus, OrdersKept, IInv, RowsOK, Statuses
<1>3. lock' = LockWithout(w)
  BY PlannedHasNoLock DEF IInv
<1>4. WorkOK'
  BY <1>2, <1>3, Ending DEF IInv, SetStatus
<1> QED
  BY <1>2, <1>4

\* Saving an order as it was read, or with another status, keeps it in existence.
LEMMA ResaveKeeps ==
    ASSUME RowsOK, NEW w \in Worker, task[w] \in Task, Sane(task[w]),
           task[w].kind \in OrderKinds, NEW st \in Statuses, Resave(w, st)
    PROVE  OrdersKept /\ status' \in [Session -> Statuses \cup {"none"}]
<1>1. PICK new \in {task[w].seen, st} : status' = [status EXCEPT ![task[w].s] = new]
  BY DEF Resave
<1>2. task[w].s \in Session /\ task[w].seen \in Statuses
  BY DEF Task, Sane
<1>3. new \in Statuses
  BY <1>2
<1> QED
  BY <1>1, <1>2, <1>3 DEF RowsOK, OrdersKept, Statuses

\* Positions of an order that exists join or leave it.
LEMMA OrderRows ==
    ASSUME RowsOK, NEW s \in Session, status[s] # "none", OrdersKept,
           status' \in [Session -> Statuses \cup {"none"}],
           NEW P, P \subseteq Own(s), NEW st \in {"ordered", "canceled"},
           pos' = [p \in Slot |-> IF p \in P THEN st ELSE pos[p]], vou' = vou
    PROVE  RowsOK'
<1>1. pos' \in [Slot -> {"none", "valid", "expired", "ordered", "canceled"}]
  BY DEF RowsOK
<1>2. vou' \subseteq {p \in Slot : pos'[p] # "none"}
  BY DEF RowsOK
<1>3. ASSUME NEW p \in Slot, pos'[p] \in {"ordered", "canceled"}
      PROVE  status'[p[1]] # "none"
  <2>1. p[1] \in Session
    BY DEF Slot
  <2>2. CASE p \in P
    BY <2>2 DEF Own, OrdersKept
  <2>3. CASE p \notin P
    BY <1>3, <2>1, <2>3 DEF RowsOK, OrdersKept
  <2> QED
    BY <2>2, <2>3
<1> QED
  BY <1>1, <1>2, <1>3 DEF RowsOK

LEMMA StatusOnlyStep ==
    ASSUME IInv, NEW w \in Worker, pc[w] = "planned", task[w].kind \in OrderKinds,
           NEW st \in Statuses, SetStatus(w, st), UNCHANGED <<lock, pos, vou>>, redeemed' \in Nat
    PROVE  IInv'
<1>1. WorkOK' /\ status' \in [Session -> Statuses \cup {"none"}] /\ OrdersKept
  BY SetStatusStep
<1>2. \A p \in Slot : p[1] \in Session
  BY DEF Slot
<1> QED
  BY <1>1, <1>2 DEF IInv, RowsOK, OrdersKept

LEMMA OrderStep ==
    ASSUME IInv, NEW w \in Worker,
           \/ ExpireOrder(w) \/ ExtendOrder(w) \/ PayOrder(w) \/ CancelOrder(w)
           \/ ReactivateOrder(w) \/ ShrinkOrder(w)
    PROVE  IInv'
<1> DEFINE t == task[w]
<1>1. pc[w] = "planned" /\ t.kind \in OrderKinds
  BY DEF ExpireOrder, ExtendOrder, PayOrder, CancelOrder, ReactivateOrder, ShrinkOrder,
         AtWork, OrderKinds
<1>2. t \in Task /\ Sane(t)
  BY <1>1 DEF IInv, WorkOK
<1>3. t.s \in Session /\ status[t.s] # "none"
  BY <1>1, <1>2 DEF Task, Sane
<1>4. Ordered(t.s) \subseteq Own(t.s) /\ Own(t.s) \subseteq Slot
  BY <1>3 DEF Ordered, Own, Slot
<1>5. CASE Refuse(w)
  BY <1>1, <1>5, RefuseStep
<1>6. CASE ExpireOrder(w)
  <2>1. redeemed' \in Nat
    BY <1>6 DEF ExpireOrder, IInv
  <2> QED
    BY <1>1, <1>6, <2>1, StatusOnlyStep DEF ExpireOrder, Statuses
<1>7. CASE ExtendOrder(w) /\ ~Refuse(w)
  <2>1. redeemed' \in Nat
    BY <1>7 DEF ExtendOrder, IInv
  <2> QED
    BY <1>1, <1>7, <2>1, StatusOnlyStep DEF ExtendOrder, Statuses
<1>8. CASE PayOrder(w) /\ ~Refuse(w)
  <2>1. redeemed' \in Nat
    BY <1>8 DEF PayOrder, IInv
  <2> QED
    BY <1>1, <1>8, <2>1, StatusOnlyStep DEF PayOrder, Statuses
<1>9. CASE CancelOrder(w) /\ ~Refuse(w)
  <2>1. /\ \/ SetStatus(w, "c") /\ UNCHANGED pos
           \/ SetStatus(w, "p") /\ Withdraw(Ordered(t.s))
        /\ Unredeem(VouchersOf(t.s))
        /\ UNCHANGED <<lock, vou>>
    BY <1>9 DEF CancelOrder
  <2>2. redeemed' \in Nat
    <3>1. Ordered(t.s) \cap vou \subseteq Slot
      BY <1>4
    <3> QED
      BY <2>1, <3>1, CountUnredeem DEF VouchersOf, IInv
  <2>3. CASE SetStatus(w, "c") /\ UNCHANGED pos
    BY <1>1, <2>1, <2>2, <2>3, StatusOnlyStep DEF Statuses
  <2>4. CASE SetStatus(w, "p") /\ Withdraw(Ordered(t.s))
    <3>1. WorkOK' /\ status' \in [Session -> Statuses \cup {"none"}] /\ OrdersKept
      BY <1>1, <2>1, <2>4, SetStatusStep DEF Statuses
    <3>2. RowsOK'
      BY <1>3, <1>4, <2>1, <2>4, <3>1, OrderRows DEF Withdraw, IInv
    <3> QED
      BY <2>2, <3>1, <3>2 DEF IInv
  <2> QED
    BY <2>1, <2>3, <2>4
<1>10. CASE ReactivateOrder(w) /\ ~Refuse(w)
  <2>1. PICK st \in {"n", "p"} : SetStatus(w, st)
    BY <1>10 DEF ReactivateOrder
  <2>2. Redeem(VouchersOf(t.s)) /\ UNCHANGED <<lock, pos, vou>>
    BY <1>10 DEF ReactivateOrder
  <2>3. redeemed' \in Nat
    <3>1. Ordered(t.s) \cap vou \subseteq Slot
      BY <1>4
    <3> QED
      BY <2>2, <3>1, CountRedeem DEF VouchersOf, IInv
  <2> QED
    BY <1>1, <2>1, <2>2, <2>3, StatusOnlyStep DEF Statuses
<1>11. CASE ShrinkOrder(w)
  <2>1. PICK P \in SUBSET Ordered(t.s) :
          /\ Withdraw(P)
          /\ Unredeem(Cardinality(P \cap vou))
          /\ Resave(w, "p")
          /\ Finish(w)
          /\ UNCHANGED <<lock, vou>>
    BY <1>11 DEF ShrinkOrder
  <2>2. OrdersKept /\ status' \in [Session -> Statuses \cup {"none"}]
    BY <1>1, <1>2, <2>1, ResaveKeeps DEF IInv, Statuses
  <2>3. WorkOK'
    <3>1. lock' = LockWithout(w)
      BY <1>1, <2>1, PlannedHasNoLock DEF IInv
    <3> QED
      BY <2>1, <2>2, <3>1, Ending DEF IInv
  <2>4. RowsOK'
    BY <1>3, <1>4, <2>1, <2>2, OrderRows DEF Withdraw, IInv
  <2>5. redeemed' \in Nat
    <3>1. P \cap vou \subseteq Slot
      BY <1>4
    <3> QED
      BY <2>1, <3>1, CountUnredeem DEF IInv
  <2> QED
    BY <2>3, <2>4, <2>5 DEF IInv
<1> QED
  BY <1>5, <1>6, <1>7, <1>8, <1>9, <1>10, <1>11

LEMMA GrowStep ==
    ASSUME IInv, NEW w \in Worker, GrowOrder(w)
    PROVE  IInv'
<1> DEFINE t == task[w]
<1>1. pc[w] = "planned" /\ t.kind \in OrderKinds /\ lock = None
  BY DEF GrowOrder, AtWork, OrderKinds
<1>2. t \in Task /\ Sane(t)
  BY <1>1 DEF IInv, WorkOK
<1>3. CASE Refuse(w)
  BY <1>1, <1>3, RefuseStep
<1>4. CASE ~Refuse(w)
  <2>1. PICK P \in Joining(t) :
          /\ lock' = IF HasRedis THEN lock ELSE w
          /\ pc' = [pc EXCEPT ![w] = "uncommitted"]
          /\ task' = [task EXCEPT ![w].want = P]
          /\ UNCHANGED <<pos, vou, status, redeemed>>
    BY <1>4 DEF GrowOrder
  <2>2. P \subseteq Own(t.s)
    BY DEF Joining, Fresh
  <2> DEFINE u == [t EXCEPT !.want = P]
  <2>3. task' = [task EXCEPT ![w] = u]
    BY <2>1 DEF IInv, WorkOK
  <2>4. u \in Task
    <3>1. P \in SUBSET Slot
      BY <1>2, <2>2 DEF Own, Slot, Task
    <3> QED
      BY <1>2, <3>1, Amended
  <2>5. Sane(u) /\ u.kind \in OrderKinds
    BY <1>1, <1>2, <2>2 DEF Sane, Task
  <2>6. WorkOK'
    BY <1>1, <2>1, <2>3, <2>4, <2>5, GoingOn DEF IInv
  <2> QED
    BY <2>1, <2>6 DEF IInv, RowsOK
<1> QED
  BY <1>3, <1>4

LEMMA GrowCommitStep ==
    ASSUME IInv, NEW w \in Worker, GrowCommit(w)
    PROVE  IInv'
<1> DEFINE t == task[w]
<1>1. t \in Task /\ Sane(t) /\ t.kind \in OrderKinds
  BY DEF GrowCommit, IInv, WorkOK
<1>2. t.s \in Session /\ status[t.s] # "none" /\ t.want \subseteq Own(t.s)
  BY <1>1 DEF Task, Sane
<1>3. lock' = LockWithout(w) /\ Finish(w) /\ UNCHANGED vou
  BY DEF GrowCommit
<1>4. OrdersKept /\ status' \in [Session -> Statuses \cup {"none"}]
  <2>1. CASE UNCHANGED status
    BY <2>1 DEF OrdersKept, IInv, RowsOK
  <2>2. CASE Resave(w, "n")
    BY <1>1, <2>2, ResaveKeeps DEF IInv, Statuses
  <2> QED
    BY <2>1, <2>2 DEF GrowCommit
<1>5. WorkOK'
  BY <1>3, <1>4, Ending DEF IInv
<1>6. CASE UNCHANGED <<pos, status, redeemed>>
  BY <1>3, <1>5, <1>6 DEF IInv, RowsOK
<1>7. CASE /\ pos' = [p \in Slot |-> IF p \in t.want THEN "ordered" ELSE pos[p]]
           /\ Redeem(Cardinality(t.want \cap vou))
  <2>1. RowsOK'
    BY <1>2, <1>3, <1>4, <1>7, OrderRows DEF IInv
  <2>2. redeemed' \in Nat
    <3>1. t.want \cap vou \subseteq Slot
      BY <1>1 DEF Task
    <3> QED
      BY <1>7, <3>1, CountRedeem DEF IInv
  <2> QED
    BY <1>5, <2>1, <2>2 DEF IInv
<1> QED
  BY <1>6, <1>7 DEF GrowCommit

-----------------------------------------------------------------------------
\* The clock, the clean-up and failures.
LEMMA TimeStep ==
    ASSUME IInv, Lapse \/ CleanUp
    PROVE  IInv'
<1>1. UNCHANGED <<lock, status, redeemed, pc, task>>
  BY DEF Lapse, CleanUp
<1>2. WorkOK'
  BY <1>1 DEF IInv, WorkOK, Sane, Own
<1>3. CASE Lapse
  <2>1. PICK p \in At("valid") : pos' = [pos EXCEPT ![p] = "expired"] /\ vou' = vou
    BY <1>3 DEF Lapse
  <2>2. RowsOK'
    BY <1>1, <2>1 DEF IInv, RowsOK, At
  <2> QED
    BY <1>1, <1>2, <2>2 DEF IInv
<1>4. CASE CleanUp
  <2>1. PICK p \in At("expired") : pos' = [pos EXCEPT ![p] = "none"] /\ vou' = vou \ {p}
    BY <1>4 DEF CleanUp
  <2>2. RowsOK'
    BY <1>1, <2>1 DEF IInv, RowsOK, At
  <2> QED
    BY <1>1, <1>2, <2>2 DEF IInv
<1> QED
  BY <1>3, <1>4

LEMMA AbandonStep ==
    ASSUME IInv, NEW w \in Worker, Abandon(w)
    PROVE  IInv'
<1>1. WorkOK'
  BY Ending DEF IInv, Abandon, OrdersKept
<1> QED
  BY <1>1 DEF IInv, RowsOK, Abandon

-----------------------------------------------------------------------------
LEMMA InitStep == Init => IInv
<1> SUFFICES ASSUME Init PROVE IInv
  OBVIOUS
<1>1. RowsOK
  BY DEF Init, RowsOK
<1>2. WorkOK
  BY NobodyAssumption DEF Init, WorkOK
<1> QED
  BY <1>1, <1>2 DEF Init, IInv

LEMMA Stuttering ==
    ASSUME IInv, UNCHANGED vars
    PROVE  IInv'
  BY DEF IInv, RowsOK, WorkOK, vars, Sane, Own

\* Every reachable state is well formed: rows, orders, the lock and what each request
\* carries, with any number of carts, workers, tickets and usages.
THEOREM TypeCorrect == Spec => []TypeOK
<1>1. Init => IInv
  BY InitStep
<1>2. IInv /\ [Next]_vars => IInv'
  <2> SUFFICES ASSUME IInv, [Next]_vars PROVE IInv'
    OBVIOUS
  <2>1. CASE UNCHANGED vars
    BY <2>1, Stuttering
  <2>2. CASE Lapse \/ CleanUp
    BY <2>2, TimeStep
  <2>3. ASSUME NEW w \in Worker, NEW s \in Session, Plan(w, s) PROVE IInv'
    BY <2>3, PlanStep
  <2>4. ASSUME NEW w \in Worker, Abandon(w) PROVE IInv'
    BY <2>4, AbandonStep
  <2>5. ASSUME NEW w \in Worker, Act(w) PROVE IInv'
    <3>1. CASE CartCommit(w)
      BY <3>1, CartStep
    <3>2. CASE CartRefuse(w)
      BY <3>2, RefuseStep DEF CartRefuse
    <3>3. CASE CheckoutBegin(w)
      BY <3>3, CheckoutBeginStep
    <3>4. CASE CheckPosition(w)
      BY <3>4, CheckPositionStep
    <3>5. CASE CheckoutEnd(w)
      BY <3>5, CheckoutEndStep
    <3>6. CASE GrowOrder(w)
      BY <3>6, GrowStep
    <3>7. CASE GrowCommit(w)
      BY <3>7, GrowCommitStep
    <3>8. CASE \/ ExpireOrder(w) \/ ExtendOrder(w) \/ PayOrder(w) \/ CancelOrder(w)
               \/ ReactivateOrder(w) \/ ShrinkOrder(w)
      BY <3>8, OrderStep
    <3> QED
      BY <2>5, <3>1, <3>2, <3>3, <3>4, <3>5, <3>6, <3>7, <3>8 DEF Act
  <2> QED
    BY <2>1, <2>2, <2>3, <2>4, <2>5 DEF Next
<1>3. IInv => TypeOK
  BY DEF IInv, RowsOK, WorkOK, TypeOK
<1> QED
  BY <1>1, <1>2, <1>3, PTL DEF Spec
-----------------------------------------------------------------------------
(* Requests that do not overlap: whoever works on a cart or an order is alone *)
(* with it, so what it has read about it still holds when it writes.          *)

Alone == \A w, x \in Worker : w # x /\ ~Idle(w) /\ ~Idle(x) => task[w].s # task[x].s

\* A cart request knows the cart; what it saw valid is there, expired at worst.
CartLocal(t) ==
    /\ t.del \cup t.ext \cup t.app \cup t.valid \subseteq Own(t.s)
    /\ \A p \in t.valid : pos[p] \in {"valid", "expired"}
    /\ t.app \ t.ext \subseteq t.valid

\* Checkout: what is still to check is as it was when the lock was taken, but for expired
\* positions that were cleaned up; what was checked is valid and has its voucher.
CheckLocal(t) ==
    /\ status[t.s] = "none" /\ t.todo \subseteq t.want /\ t.want \cap vou \subseteq t.vou
    /\ \A p \in t.todo :
         /\ p \in t.valid <=> pos[p] = "valid"
         /\ pos[p] = "valid" /\ p \in t.vou => p \in vou
    /\ ~t.bad => \A p \in t.want \ t.todo : pos[p] = "valid" /\ (p \in t.vou => p \in vou)

\* The order has the status that was read; positions that will join it do not belong to it yet.
OrderLocal(t) == t.seen \in SeenBy[t.kind] /\ status[t.s] = t.seen
GrowLocal(t) ==
    /\ t.kind \in {"grow", "reinstate"}
    /\ \A p \in t.want : pos[p] = "none" \/ (t.kind = "reinstate" /\ pos[p] = "canceled")

Local(w) ==
    /\ pc[w] = "planned" /\ task[w].kind \in CartKinds => CartLocal(task[w])
    /\ pc[w] = "checking" => CheckLocal(task[w])
    /\ ~Idle(w) /\ task[w].kind \in OrderKinds => OrderLocal(task[w])
    /\ pc[w] = "uncommitted" => GrowLocal(task[w])

LInv == IInv /\ Alone /\ \A w \in Worker : Local(w)

\* Who is not concerned by a step goes on as before.
LEMMA Untouched ==
    ASSUME IInv, NEW x \in Worker, Local(x), pc'[x] = pc[x], task'[x] = task[x],
           ~Idle(x) => /\ \A p \in Own(task[x].s) : pos'[p] = pos[p] /\ (p \in vou' <=> p \in vou)
                       /\ status'[task[x].s] = status[task[x].s]
    PROVE  Local(x)'
<1> DEFINE t == task[x]
<1>1. CASE Idle(x)
  BY <1>1 DEF Idle, Local
<1>2. CASE ~Idle(x)
  <2>1. t \in Task /\ Sane(t)
    BY <1>2 DEF Idle, IInv, WorkOK
  <2>2. t.want \subseteq Own(t.s)
    BY <2>1 DEF Sane
  <2>3. \A p \in Own(t.s) : pos'[p] = pos[p] /\ (p \in vou' <=> p \in vou)
    BY <1>2
  <2>4. status'[t.s] = status[t.s]
    BY <1>2
  <2>5. CartLocal(t) => CartLocal(t)'
    BY <2>3 DEF CartLocal, Own
  <2>6. CheckLocal(t) => CheckLocal(t)'
    BY <2>2, <2>3, <2>4 DEF CheckLocal
  <2>7. OrderLocal(t) => OrderLocal(t)'
    BY <2>4 DEF OrderLocal
  <2>8. GrowLocal(t) => GrowLocal(t)'
    BY <2>2, <2>3 DEF GrowLocal
  <2> QED
    BY <2>5, <2>6, <2>7, <2>8 DEF Local, Idle
<1> QED
  BY <1>1, <1>2

\* The planning reads carry what is there.
LEMMA PlanLocal ==
    ASSUME LInv, ~Overlap, NEW w \in Worker, NEW s \in Session, Plan(w, s)
    PROVE  LInv'
<1>1. IInv'
  BY PlanStep DEF LInv
<1> DEFINE Begins(t) ==
      /\ Start(w, t) /\ t.s = s
      /\ t.kind \in CartKinds => CartLocal(t)
      /\ t.kind \in OrderKinds => OrderLocal(t)
<1>2. \E t : Begins(t)
  <2>a. "checkout" \notin CartKinds /\ "checkout" \notin OrderKinds /\ CartKinds \cap OrderKinds = {}
        /\ {"add", "remove", "setAddons", "voucher"} \subseteq CartKinds
    BY DEF CartKinds, OrderKinds
  <2>b. /\ Cart(s) \subseteq Own(s) /\ Expired(s) \subseteq Own(s)
        /\ \A p \in Own(s) \cap At("valid") : pos[p] \in {"valid", "expired"}
        /\ Cart(s) \ Expired(s) \subseteq Own(s) \cap At("valid")
    BY DEF Cart, Expired, At, Own, Slot
  <2>c. ASSUME NEW t, Start(w, t), t.s = s, t.kind \in CartKinds, t.valid = Own(s) \cap At("valid"),
               t.del \cup t.ext \cup t.app \subseteq Own(s), t.app \ t.ext \subseteq t.valid
        PROVE  \E u : Begins(u)
    <3>1. CartLocal(t)
      BY <2>b, <2>c DEF CartLocal
    <3>2. Begins(t)
      BY <2>a, <2>c, <3>1
    <3> QED
      BY <3>2
  <2>1. CASE PlanAdd(w, s)
    <3>1. PICK n \in 1..MaxCart, v \in BOOLEAN :
             Start(w, [Read(s, "add") EXCEPT !.add = n, !.v = v, !.ext = Expired(s)])
      BY <2>1 DEF PlanAdd
    <3> DEFINE t == [Read(s, "add") EXCEPT !.add = n, !.v = v, !.ext = Expired(s)]
    <3>2. t.s = s /\ t.kind = "add" /\ t.valid = Own(s) \cap At("valid") /\ t.del = {} /\ t.app = {}
          /\ t.ext = Expired(s)
      BY DEF Read
    <3> HIDE DEF Begins, t
    <3> QED
      BY <3>1, <3>2, <2>a, <2>b, <2>c DEF t
  <2>2. CASE PlanRemove(w, s)
    <3>1. PICK D \in {Cart(s)} \cup {{p} : p \in Cart(s)} :
             Start(w, [Read(s, "remove") EXCEPT !.del = D, !.ext = Expired(s) \ D])
      BY <2>2 DEF PlanRemove
    <3>2. D \subseteq Own(s)
      BY <2>b
    <3> DEFINE t == [Read(s, "remove") EXCEPT !.del = D, !.ext = Expired(s) \ D]
    <3>3. t.s = s /\ t.kind = "remove" /\ t.valid = Own(s) \cap At("valid") /\ t.del = D /\ t.app = {}
          /\ t.ext = Expired(s) \ D
      BY DEF Read
    <3> HIDE DEF Begins, t
    <3> QED
      BY <3>1, <3>2, <3>3, <2>a, <2>b, <2>c DEF t
  <2>3. CASE PlanAddons(w, s)
    <3>1. PICK p \in Cart(s) :
             Start(w, [Read(s, "setAddons") EXCEPT !.del = {p}, !.add = 1, !.ext = Expired(s) \ {p}])
      BY <2>3 DEF PlanAddons
    <3> DEFINE t == [Read(s, "setAddons") EXCEPT !.del = {p}, !.add = 1, !.ext = Expired(s) \ {p}]
    <3>2. t.s = s /\ t.kind = "setAddons" /\ t.valid = Own(s) \cap At("valid") /\ t.del = {p} /\ t.app = {}
          /\ t.ext = Expired(s) \ {p}
      BY DEF Read
    <3> HIDE DEF Begins, t
    <3> QED
      BY <3>1, <3>2, <2>a, <2>b, <2>c DEF t
  <2>4. CASE PlanVoucher(w, s)
    <3> DEFINE t == [Read(s, "voucher") EXCEPT !.app = Cart(s) \ vou, !.ext = Expired(s)]
    <3>1. Start(w, t)
      BY <2>4 DEF PlanVoucher
    <3>2. t.s = s /\ t.kind = "voucher" /\ t.valid = Own(s) \cap At("valid") /\ t.del = {}
          /\ t.app = Cart(s) \ vou /\ t.ext = Expired(s)
      BY DEF Read
    <3> HIDE DEF Begins, t
    <3> QED
      BY <3>1, <3>2, <2>a, <2>b, <2>c
  <2>5. CASE PlanCheckout(w, s)
    <3> DEFINE t == [Read(s, "checkout") EXCEPT !.want = Cart(s)]
    <3>1. Start(w, t)
      BY <2>5 DEF PlanCheckout
    <3>2. t.s = s /\ t.kind = "checkout"
      BY DEF Read
    <3>3. Begins(t)
      BY <3>1, <3>2, <2>a
    <3> QED
      BY <3>3
  <2>6. CASE PlanOrder(w, s)
    <3>1. PICK k \in OrderKinds :
             MayStart(w, s, k) /\ status[s] \in SeenBy[k] /\ Start(w, ReadOrder(s, k))
      BY <2>6 DEF PlanOrder
    <3>2. ReadOrder(s, k).s = s /\ ReadOrder(s, k).kind = k /\ ReadOrder(s, k).seen = status[s]
      BY DEF ReadOrder, Read
    <3>3. Begins(ReadOrder(s, k))
      BY <3>1, <3>2, <2>a DEF OrderLocal
    <3> QED
      BY <3>3
  <2> QED
    BY <2>1, <2>2, <2>3, <2>4, <2>5, <2>6 DEF Plan
<1>3. PICK t : Begins(t)
  BY <1>2
<1>4. pc \in [Worker -> {"idle", "planned", "checking", "uncommitted"}] /\ task \in [Worker -> Task \cup {None}]
  BY DEF LInv, IInv, WorkOK
<1>5. /\ pc'[w] = "planned" /\ task'[w] = t
      /\ \A x \in Worker \ {w} : pc'[x] = pc[x] /\ task'[x] = task[x]
      /\ UNCHANGED <<lock, pos, vou, status, redeemed>>
  BY <1>3, <1>4 DEF Start
<1>6. Idle(w) /\ \A x \in Worker : ~Idle(x) => task[x].s # s
  BY DEF Plan, PlanAdd, PlanRemove, PlanAddons, PlanVoucher, PlanCheckout, PlanOrder, MayStart
<1>7. Alone'
  BY <1>3, <1>5, <1>6 DEF LInv, Alone, Idle
<1>8. ASSUME NEW x \in Worker PROVE Local(x)'
  <2>1. CASE x = w
    <3>1. CartLocal(t) => CartLocal(t)'
      BY <1>5 DEF CartLocal, Own
    <3>2. OrderLocal(t) => OrderLocal(t)'
      BY <1>5 DEF OrderLocal
    <3> QED
      BY <2>1, <3>1, <3>2, <1>3, <1>5 DEF Local
  <2>2. CASE x # w
    BY <2>2, <1>5, Untouched DEF LInv
  <2> QED
    BY <2>1, <2>2
<1> QED
  BY <1>1, <1>7, <1>8 DEF LInv

\* A request touches the cart or the order of its own session, and no other request.
Aside(w) ==
    /\ ~Idle(w) /\ (pc'[w] = "idle" \/ task'[w].s = task[w].s)
    /\ \A x \in Worker \ {w} : pc'[x] = pc[x] /\ task'[x] = task[x]
    /\ \A p \in Slot \ Own(task[w].s) : pos'[p] = pos[p] /\ (p \in vou' <=> p \in vou)
    /\ \A r \in Session \ {task[w].s} : status'[r] = status[r]

\* A request that ends, having changed what is its own.
LEMMA EndsAside ==
    ASSUME IInv, NEW w \in Worker, ~Idle(w), Finish(w),
           \A p \in Slot \ Own(task[w].s) : pos'[p] = pos[p] /\ (p \in vou' <=> p \in vou),
           \A r \in Session \ {task[w].s} : status'[r] = status[r]
    PROVE  Aside(w) /\ pc'[w] = "idle"
  BY DEF IInv, WorkOK, Finish, Aside

LEMMA CartAside == ASSUME LInv, NEW w \in Worker, CartCommit(w) PROVE Aside(w) /\ pc'[w] = "idle"
<1> DEFINE t == task[w]
<1>1. ~Idle(w) /\ CartLocal(t)
  BY DEF CartCommit, Idle, LInv, Local
<1>2. PICK keep \in SUBSET t.ext, new \in SUBSET Fresh(t.s), ghosts \in SUBSET Fresh(t.s) :
        CartRows(t, keep, new, ghosts) /\ Finish(w) /\ UNCHANGED <<lock, status, redeemed>>
  BY DEF CartCommit, CartWrite
<1>3. t.del \subseteq Own(t.s) /\ t.ext \subseteq Own(t.s) /\ t.app \subseteq Own(t.s) /\ Fresh(t.s) \subseteq Own(t.s)
  BY <1>1 DEF CartLocal, Fresh
<1> HIDE DEF t
<1>4. ASSUME NEW p \in Slot \ Own(t.s) PROVE pos'[p] = pos[p] /\ (p \in vou' <=> p \in vou)
  BY <1>2, <1>3 DEF CartRows, InCart
<1> QED
  BY <1>1, <1>2, <1>4, EndsAside DEF LInv, t

LEMMA CheckAside == ASSUME LInv, NEW w \in Worker, CheckPosition(w) PROVE Aside(w)
<1> DEFINE t == task[w]
<1>1. ~Idle(w) /\ t.todo \subseteq Own(t.s) /\ pc[w] = "checking"
  BY DEF CheckPosition, Idle, LInv, Local, CheckLocal, IInv, WorkOK, Sane
<1>2. PICK p \in t.todo :
        /\ pos' = pos \/ pos' = [pos EXCEPT ![p] = "valid"] \/ pos' = [pos EXCEPT ![p] = "none"]
        /\ vou' = vou \/ vou' = vou \cup (t.vou \cap {p}) \/ vou' = vou \ {p}
        /\ task' = [task EXCEPT ![w].todo = @ \ {p}] \/ task' = [task EXCEPT ![w].todo = @ \ {p}, ![w].bad = TRUE]
        /\ UNCHANGED <<lock, status, redeemed, pc>>
  BY DEF CheckPosition
<1>3. t \in Task /\ task \in [Worker -> Task \cup {None}] /\ pos \in [Slot -> {"none", "valid", "expired", "ordered", "canceled"}]
  BY <1>1 DEF LInv, IInv, RowsOK, WorkOK
<1>4. task'[w].s = t.s /\ \A x \in Worker \ {w} : task'[x] = task[x]
  BY <1>2, <1>3 DEF Task
<1>5. \A q \in Slot \ Own(t.s) : pos'[q] = pos[q] /\ (q \in vou' <=> q \in vou)
  BY <1>1, <1>2, <1>3
<1> QED
  BY <1>1, <1>2, <1>4, <1>5 DEF Aside

LEMMA OrderAside ==
    ASSUME LInv, NEW w \in Worker,
           \/ ExpireOrder(w) \/ ExtendOrder(w) \/ PayOrder(w) \/ CancelOrder(w)
           \/ ReactivateOrder(w) \/ ShrinkOrder(w) \/ GrowCommit(w) \/ CheckoutEnd(w)
           \/ CartRefuse(w) \/ Abandon(w)
    PROVE  Aside(w) /\ pc'[w] = "idle"
<1> DEFINE t == task[w]
<1>1. ~Idle(w)
  BY DEF ExpireOrder, ExtendOrder, PayOrder, CancelOrder, ReactivateOrder, ShrinkOrder, GrowCommit,
         CheckoutEnd, CartRefuse, Abandon, AtWork, Idle
<1>2. t \in Task /\ t.want \subseteq Own(t.s) /\ Ordered(t.s) \subseteq Own(t.s)
  BY <1>1 DEF LInv, IInv, WorkOK, Sane, Idle, Ordered
<1>3. Finish(w)
  BY DEF ExpireOrder, ExtendOrder, PayOrder, CancelOrder, ReactivateOrder, ShrinkOrder, GrowCommit,
         CheckoutEnd, CartRefuse, Abandon, SetStatus, Refuse
<1>4. status' = status \/ \E st : status' = [status EXCEPT ![t.s] = st]
  BY DEF ExpireOrder, ExtendOrder, PayOrder, CancelOrder, ReactivateOrder, ShrinkOrder, GrowCommit,
         CheckoutEnd, CartRefuse, Abandon, SetStatus, Refuse, Resave
<1>5. \/ pos' = pos
      \/ \E P, st : P \subseteq Own(t.s) /\ pos' = [p \in Slot |-> IF p \in P THEN st ELSE pos[p]]
  <2>1. CASE CancelOrder(w)
    BY <2>1, <1>2 DEF CancelOrder, Withdraw, Refuse
  <2>2. CASE ShrinkOrder(w)
    BY <2>2, <1>2 DEF ShrinkOrder, Withdraw
  <2>3. CASE GrowCommit(w) \/ CheckoutEnd(w)
    BY <2>3, <1>2 DEF GrowCommit, CheckoutEnd
  <2> QED
    BY <2>1, <2>2, <2>3 DEF ExpireOrder, ExtendOrder, PayOrder, ReactivateOrder, CartRefuse, Abandon, SetStatus, Refuse
<1>6. vou' = vou \/ vou' = vou \cup (t.want \cap t.vou)
  BY DEF ExpireOrder, ExtendOrder, PayOrder, CancelOrder, ReactivateOrder, ShrinkOrder, GrowCommit,
         CheckoutEnd, CartRefuse, Abandon, SetStatus, Refuse
<1>7. \A p \in Slot \ Own(t.s) : pos'[p] = pos[p] /\ (p \in vou' <=> p \in vou)
  BY <1>2, <1>5, <1>6
<1>8. \A r \in Session \ {t.s} : status'[r] = status[r]
  BY <1>4 DEF LInv, IInv, RowsOK
<1> QED
  BY <1>1, <1>3, <1>7, <1>8, EndsAside DEF LInv

LEMMA OthersGoOn ==
    ASSUME LInv, NEW w \in Worker, Aside(w)
    PROVE  Alone' /\ \A x \in Worker \ {w} : Local(x)'
<1>1. Alone'
  BY DEF LInv, Alone, Aside, Idle
<1>2. ASSUME NEW x \in Worker \ {w} PROVE Local(x)'
  <2>1. CASE Idle(x)
    BY <2>1 DEF Aside, Local, Idle
  <2>2. CASE ~Idle(x)
    <3>1. task[x].s # task[w].s
      BY <2>2 DEF LInv, Alone, Aside
    <3>2. task[x].s \in Session
      BY <2>2 DEF LInv, IInv, WorkOK, Task, Idle
    <3>3. \A p \in Own(task[x].s) : p \in Slot \ Own(task[w].s)
      BY <3>1, <3>2 DEF Own, Slot
    <3>4. \A p \in Own(task[x].s) : pos'[p] = pos[p] /\ (p \in vou' <=> p \in vou)
      BY <3>3 DEF Aside
    <3>5. status'[task[x].s] = status[task[x].s] /\ pc'[x] = pc[x] /\ task'[x] = task[x]
      BY <3>1, <3>2 DEF Aside
    <3>6. IInv /\ Local(x)
      BY DEF LInv
    <3> QED
      BY <3>4, <3>5, <3>6, Untouched
  <2> QED
    BY <2>1, <2>2
<1> QED
  BY <1>1, <1>2

LEMMA EndLocal ==
    ASSUME LInv, NEW w \in Worker, Aside(w), pc'[w] = "idle", IInv'
    PROVE  LInv'
<1>1. Local(w)'
  BY DEF Local, Idle
<1> QED
  BY <1>1, OthersGoOn DEF LInv

LEMMA RefuseLocal ==
    ASSUME LInv, NEW w \in Worker, pc[w] = "planned", Refuse(w)
    PROVE  LInv'
<1>1. Aside(w) /\ pc'[w] = "idle"
  BY EndsAside DEF Refuse, LInv, Idle
<1> QED
  BY <1>1, EndLocal, RefuseStep DEF LInv

LEMMA BeginLocal ==
    ASSUME LInv, NEW w \in Worker, CheckoutBegin(w)
    PROVE  LInv'
<1> DEFINE t == task[w]
<1>1. pc[w] = "planned" /\ t \in Task /\ t.want \subseteq Own(t.s) /\ Own(t.s) \subseteq Slot /\ t.kind = "checkout"
  BY DEF CheckoutBegin, LInv, IInv, WorkOK, Sane, Task, Own, Slot
<1>2. CASE Refuse(w)
  BY <1>1, <1>2, RefuseLocal
<1>3. CASE ~Refuse(w)
  <2>1. /\ status[t.s] = "none" /\ pc' = [pc EXCEPT ![w] = "checking"]
        /\ task' = [task EXCEPT ![w].todo = t.want, ![w].valid = t.want \cap At("valid"), ![w].vou = t.want \cap vou]
        /\ UNCHANGED <<pos, vou, status, redeemed>>
    BY <1>3 DEF CheckoutBegin
  <2>2. pc \in [Worker -> {"idle", "planned", "checking", "uncommitted"}] /\ task \in [Worker -> Task \cup {None}]
    BY DEF LInv, IInv, WorkOK
  <2>3. /\ pc'[w] = "checking" /\ task'[w].todo = t.want /\ task'[w].valid = t.want \cap At("valid")
        /\ task'[w].vou = t.want \cap vou /\ task'[w].want = t.want /\ task'[w].s = t.s /\ task'[w].kind = t.kind
    BY <1>1, <2>1, <2>2 DEF Task
  <2>4. \A x \in Worker \ {w} : pc'[x] = pc[x] /\ task'[x] = task[x]
    BY <2>1, <2>2
  <2>5. Aside(w)
    BY <1>1, <2>1, <2>3, <2>4 DEF Aside, Idle
  <2>6. CheckLocal(task[w])'
    BY <1>1, <2>1, <2>3 DEF CheckLocal, At
  <2>7. Local(w)'
    BY <1>1, <2>3, <2>6 DEF Local, CartKinds, OrderKinds
  <2> QED
    BY <2>5, <2>7, OthersGoOn, CheckoutBeginStep DEF LInv
<1> QED
  BY <1>2, <1>3

\* The cases of one round of _check_positions.
LEMMA CheckCases ==
    ASSUME LInv, NEW w \in Worker, CheckPosition(w)
    PROVE  \E p \in task[w].todo :
             /\ p \in Slot
             /\ task'[w].todo = task[w].todo \ {p}
             /\ task'[w].want = task[w].want /\ task'[w].s = task[w].s /\ task'[w].kind = task[w].kind
             /\ task'[w].valid = task[w].valid /\ task'[w].vou = task[w].vou
             /\ UNCHANGED <<lock, status, redeemed, pc>>
             /\ \/ /\ p \in task[w].valid \ task[w].vou /\ UNCHANGED <<pos, vou>> /\ task'[w].bad = task[w].bad
                \/ /\ p \in task[w].vou => VoucherFree(p)
                   /\ QuotaFree(task[w], p)
                   /\ pos' = [pos EXCEPT ![p] = "valid"] /\ vou' = vou \cup (task[w].vou \cap {p})
                   /\ task'[w].bad = task[w].bad
                \/ /\ ~((p \in task[w].vou => VoucherFree(p)) /\ QuotaFree(task[w], p))
                   /\ pos' = [pos EXCEPT ![p] = "none"] /\ vou' = vou \ {p}
                   /\ task'[w].bad
                \/ UNCHANGED <<pos, vou>> /\ task'[w].bad
<1> DEFINE t == task[w]
<1>1. pc[w] = "checking" /\ t \in Task /\ task \in [Worker -> Task \cup {None}]
  BY DEF CheckPosition, LInv, IInv, WorkOK
<1>2. UNCHANGED <<lock, status, redeemed, pc>>
  BY DEF CheckPosition
<1>3. PICK p \in t.todo :
        LET trusted == p \in t.valid \ t.vou
            ok == (p \in t.vou => VoucherFree(p)) /\ QuotaFree(t, p)
        IN \/ /\ trusted \/ ok
              /\ pos' = IF trusted THEN pos ELSE [pos EXCEPT ![p] = "valid"]
              /\ vou' = IF trusted THEN vou ELSE vou \cup (t.vou \cap {p})
              /\ task' = [task EXCEPT ![w].todo = @ \ {p}]
           \/ /\ ~trusted
              /\ \/ ~ok /\ pos' = [pos EXCEPT ![p] = "none"] /\ vou' = vou \ {p}
                 \/ (p \in t.vou => VoucherFree(p)) /\ UNCHANGED <<pos, vou>>
              /\ task' = [task EXCEPT ![w].todo = @ \ {p}, ![w].bad = TRUE]
  BY DEF CheckPosition
<1>4. p \in Slot
  BY <1>1 DEF Task
<1>5. /\ task'[w].todo = t.todo \ {p}
      /\ task'[w].want = t.want /\ task'[w].s = t.s /\ task'[w].kind = t.kind
      /\ task'[w].valid = t.valid /\ task'[w].vou = t.vou
  BY <1>1, <1>3 DEF Task
<1> DEFINE trusted == p \in t.valid \ t.vou
           ok == (p \in t.vou => VoucherFree(p)) /\ QuotaFree(t, p)
           Result ==
             \/ trusted /\ UNCHANGED <<pos, vou>> /\ task'[w].bad = t.bad
             \/ /\ ok /\ pos' = [pos EXCEPT ![p] = "valid"] /\ vou' = vou \cup (t.vou \cap {p})
                /\ task'[w].bad = t.bad
             \/ ~ok /\ pos' = [pos EXCEPT ![p] = "none"] /\ vou' = vou \ {p} /\ task'[w].bad
             \/ UNCHANGED <<pos, vou>> /\ task'[w].bad
<1>6. Result
  <2>1. task' = [task EXCEPT ![w].todo = @ \ {p}] => task'[w].bad = t.bad
    BY <1>1 DEF Task
  <2>2. task' = [task EXCEPT ![w].todo = @ \ {p}, ![w].bad = TRUE] => task'[w].bad
    BY <1>1 DEF Task
  <2> HIDE DEF ok, trusted, t
  <2>3. \/ trusted /\ UNCHANGED <<pos, vou>> /\ task' = [task EXCEPT ![w].todo = @ \ {p}]
        \/ /\ ok /\ pos' = [pos EXCEPT ![p] = "valid"] /\ vou' = vou \cup (t.vou \cap {p})
           /\ task' = [task EXCEPT ![w].todo = @ \ {p}]
        \/ /\ ~ok /\ pos' = [pos EXCEPT ![p] = "none"] /\ vou' = vou \ {p}
           /\ task' = [task EXCEPT ![w].todo = @ \ {p}, ![w].bad = TRUE]
        \/ UNCHANGED <<pos, vou>> /\ task' = [task EXCEPT ![w].todo = @ \ {p}, ![w].bad = TRUE]
    BY <1>3 DEF ok, trusted
  <2> QED
    BY <2>1, <2>2, <2>3
<1> HIDE DEF Result
<1>7. /\ p \in Slot /\ task'[w].todo = t.todo \ {p}
      /\ task'[w].want = t.want /\ task'[w].s = t.s /\ task'[w].kind = t.kind
      /\ task'[w].valid = t.valid /\ task'[w].vou = t.vou
      /\ UNCHANGED <<lock, status, redeemed, pc>> /\ Result
  BY <1>2, <1>4, <1>5, <1>6
<1> QED
  BY <1>7 DEF Result

LEMMA CheckStep ==
    ASSUME LInv, NEW w \in Worker, CheckPosition(w)
    PROVE  LInv'
<1> DEFINE t == task[w]
           u == task'[w]
<1>1. pc[w] = "checking" /\ CheckLocal(t) /\ t.kind = "checkout" /\ t.want \subseteq Own(t.s)
  BY DEF CheckPosition, LInv, Local, IInv, WorkOK, Sane
<1>2. PICK p \in t.todo :
        /\ p \in Slot
        /\ u.todo = t.todo \ {p} /\ u.want = t.want /\ u.s = t.s /\ u.kind = t.kind
        /\ u.valid = t.valid /\ u.vou = t.vou
        /\ UNCHANGED <<lock, status, redeemed, pc>>
        /\ \/ p \in t.valid \ t.vou /\ UNCHANGED <<pos, vou>> /\ u.bad = t.bad
           \/ pos' = [pos EXCEPT ![p] = "valid"] /\ vou' = vou \cup (t.vou \cap {p}) /\ u.bad = t.bad
           \/ pos' = [pos EXCEPT ![p] = "none"] /\ vou' = vou \ {p} /\ u.bad
           \/ UNCHANGED <<pos, vou>> /\ u.bad
  BY CheckCases
<1>3. \A q \in Slot \ {p} : pos'[q] = pos[q] /\ (q \in vou' <=> q \in vou)
  BY <1>2 DEF LInv, IInv, RowsOK
<1>4. t.want \subseteq Slot
  BY <1>1 DEF LInv, IInv, WorkOK, Task
<1>5. status'[u.s] = "none" /\ u.todo \subseteq u.want
  BY <1>1, <1>2 DEF CheckLocal
<1>6. u.want \cap vou' \subseteq u.vou
  BY <1>1, <1>2 DEF CheckLocal
<1>7. \A q \in u.todo :
        /\ q \in u.valid <=> pos'[q] = "valid"
        /\ pos'[q] = "valid" /\ q \in u.vou => q \in vou'
  BY <1>1, <1>2, <1>3, <1>4 DEF CheckLocal
<1>8. ~u.bad => \A q \in u.want \ u.todo : pos'[q] = "valid" /\ (q \in u.vou => q \in vou')
  <2> SUFFICES ASSUME ~u.bad, NEW q \in u.want \ u.todo
               PROVE  pos'[q] = "valid" /\ (q \in u.vou => q \in vou')
    OBVIOUS
  <2>1. CASE q # p
    BY <2>1, <1>1, <1>2, <1>3, <1>4 DEF CheckLocal
  <2>2. CASE q = p
    <3>1. CASE p \in t.valid \ t.vou /\ UNCHANGED <<pos, vou>>
      BY <2>2, <3>1, <1>1, <1>2 DEF CheckLocal
    <3>2. CASE pos' = [pos EXCEPT ![p] = "valid"] /\ vou' = vou \cup (t.vou \cap {p})
      BY <2>2, <3>2, <1>2 DEF LInv, IInv, RowsOK
    <3> QED
      BY <3>1, <3>2, <1>2
  <2> QED
    BY <2>1, <2>2
<1>9. CheckLocal(task[w])'
  BY <1>5, <1>6, <1>7, <1>8 DEF CheckLocal
<1>10. Local(w)'
  BY <1>1, <1>2, <1>9 DEF Local, CartKinds, OrderKinds
<1> QED
  BY <1>10, CheckAside, OthersGoOn, CheckPositionStep DEF LInv

LEMMA GrowLocalStep ==
    ASSUME LInv, NEW w \in Worker, GrowOrder(w)
    PROVE  LInv'
<1> DEFINE t == task[w]
<1>1. pc[w] = "planned" /\ t \in Task /\ t.kind \in {"grow", "reinstate"} /\ OrderLocal(t)
  BY DEF GrowOrder, AtWork, LInv, IInv, WorkOK, Local, Idle, OrderKinds
<1>2. CASE Refuse(w)
  BY <1>1, <1>2, RefuseLocal
<1>3. CASE ~Refuse(w)
  <2>1. PICK P \in Joining(t) :
          /\ pc' = [pc EXCEPT ![w] = "uncommitted"]
          /\ task' = [task EXCEPT ![w].want = P]
          /\ UNCHANGED <<pos, vou, status, redeemed>>
    BY <1>3 DEF GrowOrder
  <2>2. pc \in [Worker -> {"idle", "planned", "checking", "uncommitted"}] /\ task \in [Worker -> Task \cup {None}]
    BY DEF LInv, IInv, WorkOK
  <2>3. pc'[w] = "uncommitted" /\ task'[w].want = P /\ task'[w].s = t.s /\ task'[w].kind = t.kind /\ task'[w].seen = t.seen
    BY <1>1, <2>1, <2>2 DEF Task
  <2>4. \A x \in Worker \ {w} : pc'[x] = pc[x] /\ task'[x] = task[x]
    BY <2>1, <2>2
  <2>5. Aside(w)
    BY <1>1, <2>1, <2>3, <2>4 DEF Aside, Idle
  <2>6. GrowLocal(task[w])'
    BY <1>1, <2>1, <2>3 DEF GrowLocal, Joining, Fresh
  <2>7. OrderLocal(task[w])'
    BY <1>1, <2>1, <2>3 DEF OrderLocal
  <2>8. Local(w)'
    BY <2>3, <2>6, <2>7 DEF Local
  <2> QED
    BY <2>5, <2>8, OthersGoOn, GrowStep DEF LInv
<1> QED
  BY <1>2, <1>3

\* Time goes on for all.
LEMMA TimeLocal ==
    ASSUME LInv, Lapse \/ CleanUp
    PROVE  LInv'
<1>1. UNCHANGED <<lock, status, redeemed, pc, task>>
  BY DEF Lapse, CleanUp
<1>2. Alone'
  BY <1>1 DEF LInv, Alone, Idle
<1>3. ASSUME NEW x \in Worker PROVE Local(x)'
  <2> DEFINE t == task[x]
  <2>0. Local(x) /\ pos \in [Slot -> {"none", "valid", "expired", "ordered", "canceled"}]
        /\ (pc[x] = "checking" => lock = x) /\ (pc[x] # "idle" => t \in Task)
    BY DEF LInv, IInv, RowsOK, WorkOK
  <2>1. CASE Lapse
    <3>1. PICK p \in At("valid") : pos' = [pos EXCEPT ![p] = "expired"]
      BY <2>1 DEF Lapse
    <3>2. lock = None /\ vou' = vou
      BY <2>1 DEF Lapse
    <3>3. pc[x] # "checking"
      BY <2>0, <3>2, NobodyAssumption
    <3>4. CartLocal(t) => CartLocal(t)'
      BY <1>1, <2>0, <3>1 DEF CartLocal, Own, At
    <3>5. OrderLocal(t) => OrderLocal(t)'
      BY <1>1 DEF OrderLocal
    <3>6. GrowLocal(t) => GrowLocal(t)'
      BY <1>1, <2>0, <3>1 DEF GrowLocal, At
    <3> QED
      BY <1>1, <2>0, <3>3, <3>4, <3>5, <3>6 DEF Local, Idle
  <2>2. CASE CleanUp
    <3>1. PICK p \in At("expired") :
            /\ \A w \in Worker : ~Idle(w) => p \notin task[w].valid
            /\ pos' = [pos EXCEPT ![p] = "none"]
            /\ vou' = vou \ {p}
      BY <2>2 DEF CleanUp
    <3>2. pc[x] # "idle" => p \notin t.valid
      BY <3>1 DEF Idle
    <3>3. pc[x] # "idle" /\ CartLocal(t) => CartLocal(t)'
      BY <1>1, <2>0, <3>1, <3>2 DEF CartLocal, Own, At
    <3>4. pc[x] # "idle" /\ CheckLocal(t) => CheckLocal(t)'
      <4> SUFFICES ASSUME t \in Task, CheckLocal(t) PROVE CheckLocal(t)'
        BY <2>0
      <4>1. t.want \subseteq Slot /\ t.todo \subseteq t.want
        BY DEF Task, CheckLocal
      <4> QED
        BY <1>1, <2>0, <3>1, <4>1 DEF CheckLocal, At
    <3>5. OrderLocal(t) => OrderLocal(t)'
      BY <1>1 DEF OrderLocal
    <3>6. GrowLocal(t) => GrowLocal(t)'
      BY <1>1, <2>0, <3>1 DEF GrowLocal, At
    <3> QED
      BY <1>1, <2>0, <3>3, <3>4, <3>5, <3>6 DEF Local, Idle
  <2> QED
    BY <2>1, <2>2
<1> QED
  BY <1>2, <1>3, TimeStep DEF LInv

LEMMA LocalStep == ASSUME LInv, ~Overlap, [Next]_vars PROVE LInv'
<1>1. CASE UNCHANGED vars
  <2>1. UNCHANGED <<lock, pos, vou, status, redeemed, pc, task>>
    BY <1>1 DEF vars
  <2>2. \A x \in Worker : Local(x)'
    BY <2>1, Untouched DEF LInv
  <2>3. Alone'
    BY <2>1 DEF LInv, Alone, Idle
  <2> QED
    BY <1>1, <2>2, <2>3, Stuttering DEF LInv
<1>2. CASE Lapse \/ CleanUp
  BY <1>2, TimeLocal
<1>3. ASSUME NEW w \in Worker, NEW s \in Session, Plan(w, s) PROVE LInv'
  BY <1>3, PlanLocal
<1>4. ASSUME NEW w \in Worker, Act(w) \/ Abandon(w) PROVE LInv'
  <2>1. CASE CartCommit(w)
    BY <2>1, CartAside, CartStep, EndLocal DEF LInv
  <2>2. CASE CheckoutBegin(w)
    BY <2>2, BeginLocal
  <2>3. CASE CheckPosition(w)
    BY <2>3, CheckStep
  <2>4. CASE GrowOrder(w)
    BY <2>4, GrowLocalStep
  <2>5. CASE \/ ExpireOrder(w) \/ ExtendOrder(w) \/ PayOrder(w) \/ CancelOrder(w)
             \/ ReactivateOrder(w) \/ ShrinkOrder(w)
    BY <2>5, OrderAside, OrderStep, EndLocal DEF LInv
  <2>6. CASE GrowCommit(w)
    BY <2>6, OrderAside, GrowCommitStep, EndLocal DEF LInv
  <2>7. CASE CheckoutEnd(w)
    BY <2>7, OrderAside, CheckoutEndStep, EndLocal DEF LInv
  <2>8. CASE CartRefuse(w)
    BY <2>8, RefuseLocal DEF CartRefuse
  <2>9. CASE Abandon(w)
    BY <2>9, OrderAside, AbandonStep, EndLocal DEF LInv
  <2> QED
    BY <1>4, <2>1, <2>2, <2>3, <2>4, <2>5, <2>6, <2>7, <2>8, <2>9 DEF Act
<1> QED
  BY <1>1, <1>2, <1>3, <1>4 DEF Next

LEMMA LocalInit == Init => LInv
  BY InitStep DEF Init, LInv, Alone, Local, Idle

LEMMA LocalInvariant == ASSUME ~Overlap PROVE Spec => []LInv
  BY LocalInit, LocalStep, PTL DEF Spec

-----------------------------------------------------------------------------
(* Counting positions                                                        *)

LEMMA Fewer ==
    ASSUME NEW S, NEW T, S \subseteq T, T \subseteq Slot
    PROVE  Cardinality(S) \in Nat /\ Cardinality(T) \in Nat /\ Cardinality(S) <= Cardinality(T)
<1>1. IsFiniteSet(T) /\ Cardinality(T) \in Nat /\ Cardinality(S) \in Nat
  BY Countable
<1> QED
  BY <1>1, FS_Subset

LEMMA Together ==
    ASSUME NEW A, NEW B, A \subseteq Slot, B \subseteq Slot
    PROVE  /\ Cardinality(A) \in Nat /\ Cardinality(B) \in Nat /\ Cardinality(A \cup B) \in Nat
           /\ Cardinality(A \cup B) <= Cardinality(A) + Cardinality(B)
           /\ A \cap B = {} => Cardinality(A \cup B) = Cardinality(A) + Cardinality(B)
<1>1. /\ IsFiniteSet(A) /\ IsFiniteSet(B) /\ Cardinality(A) \in Nat /\ Cardinality(B) \in Nat
      /\ Cardinality(A \cap B) \in Nat /\ Cardinality(A \cup B) \in Nat
  <2>1. A \cap B \subseteq Slot /\ A \cup B \subseteq Slot
    OBVIOUS
  <2> QED
    BY <2>1, Countable
<1>2. Cardinality(A \cup B) = Cardinality(A) + Cardinality(B) - Cardinality(A \cap B)
  BY <1>1, FS_Union
<1>3. A \cap B = {} => Cardinality(A \cap B) = 0
  BY FS_EmptySet
<1> QED
  BY <1>1, <1>2, <1>3

LEMMA AtMost ==
    ASSUME NEW S, NEW A, NEW B, A \subseteq Slot, B \subseteq Slot, S \subseteq A \cup B
    PROVE  /\ Cardinality(S) \in Nat /\ Cardinality(A) \in Nat /\ Cardinality(B) \in Nat
           /\ Cardinality(S) <= Cardinality(A) + Cardinality(B)
<1>1. Cardinality(S) \in Nat /\ Cardinality(S) <= Cardinality(A \cup B)
  <2>1. A \cup B \subseteq Slot
    OBVIOUS
  <2> QED
    BY <2>1, Fewer
<1>2. /\ Cardinality(A) \in Nat /\ Cardinality(B) \in Nat /\ Cardinality(A \cup B) \in Nat
      /\ Cardinality(A \cup B) <= Cardinality(A) + Cardinality(B)
  BY Together
<1> QED
  BY <1>1, <1>2

LEMMA Without ==
    ASSUME NEW A, NEW B, A \subseteq B, B \subseteq Slot
    PROVE  /\ Cardinality(A) \in Nat /\ Cardinality(B) \in Nat /\ Cardinality(B \ A) \in Nat
           /\ Cardinality(B) = Cardinality(A) + Cardinality(B \ A)
<1>1. A \subseteq Slot /\ (B \ A) \subseteq Slot /\ A \cap (B \ A) = {} /\ A \cup (B \ A) = B
  OBVIOUS
<1> HIDE DEF Slot
<1> QED
  BY <1>1, Together

\* One position more is at most one more.
LEMMA OneMore ==
    ASSUME NEW S, NEW A, NEW p \in Slot, A \subseteq Slot, S \subseteq A \cup {p}
    PROVE  Cardinality(S) \in Nat /\ Cardinality(A) \in Nat /\ Cardinality(S) <= Cardinality(A) + 1
<1>1. {p} \subseteq Slot /\ Cardinality({p}) = 1
  BY FS_Singleton
<1> QED
  BY <1>1, AtMost

\* Nothing is none.
LEMMA Empty == ASSUME NEW S, S \subseteq Slot PROVE Cardinality(S) = 0 <=> S = {}
  BY Countable, FS_EmptySet

-----------------------------------------------------------------------------
(* What a cart request writes                                                *)

Gone(t, keep) == InCart(t.del \cup (t.ext \ keep))

CartFacts(t, keep, new) ==
    /\ keep \subseteq t.ext /\ new \subseteq Fresh(t.s) /\ keep = InCart(keep)
    /\ \A p \in Slot : pos'[p] = IF p \in Gone(t, keep) THEN "none"
                                 ELSE IF p \in keep \cup new THEN "valid" ELSE pos[p]
    /\ vou' = (vou \ (Gone(t, keep) \cup keep)) \cup (keep \cap t.vou) \cup (t.app \ t.ext)
                \cup (IF t.v THEN new ELSE {})
    /\ t.app \ t.ext \subseteq InCart(t.app)
    /\ Cardinality(keep \cap ExtQuota(t)) = Least(Cardinality(ExtQuota(t)), Granted(t))
    /\ t.ext \ ExtQuota(t) \subseteq keep
    /\ Cardinality(new) = IF AddQuota(t) = 0 THEN t.add
                          ELSE Least(t.add, Granted(t) - Cardinality(keep \cap ExtQuota(t)))
    /\ UNCHANGED <<lock, status, redeemed>>

\* As the request is alone with its cart, no row that it writes has gone meanwhile.
LEMMA CartEffect ==
    ASSUME LInv, NEW w \in Worker, CartCommit(w)
    PROVE  \E keep, new : CartFacts(task[w], keep, new)
<1> DEFINE t == task[w]
<1>1. t \in Task /\ CartLocal(t)
  BY DEF CartCommit, LInv, Local, IInv, WorkOK
<1>2. PICK keep \in SUBSET t.ext, new \in SUBSET Fresh(t.s), ghosts \in SUBSET Fresh(t.s) :
        /\ Cardinality(keep \cap ExtQuota(t)) = Least(Cardinality(ExtQuota(t)), Granted(t))
        /\ t.ext \ ExtQuota(t) \subseteq keep
        /\ keep = InCart(keep)
        /\ Cardinality(new) = IF AddQuota(t) = 0 THEN t.add
                              ELSE Least(t.add, Granted(t) - Cardinality(keep \cap ExtQuota(t)))
        /\ Cardinality(ghosts) = Cardinality((t.app \ t.ext) \ InCart(t.app \ t.ext))
        /\ CartRows(t, keep, new, ghosts)
        /\ UNCHANGED <<lock, status, redeemed>>
  BY DEF CartCommit, CartWrite
<1>3. t.app \ t.ext = InCart(t.app \ t.ext) /\ t.app \ t.ext \subseteq InCart(t.app)
  BY <1>1 DEF CartLocal, InCart
<1>4. ghosts = {}
  <2>1. (t.app \ t.ext) \ InCart(t.app \ t.ext) = {}
    BY <1>3
  <2>2. ghosts \subseteq Slot
    BY <1>1 DEF Fresh, Own, Slot, Task
  <2>3. Cardinality(ghosts) = 0
    BY <1>2, <2>1, FS_EmptySet
  <2> QED
    BY <2>2, <2>3, Empty
<1>5. CartRows(t, keep, new, {})
  BY <1>2, <1>4
<1>6. \A p \in Slot : pos'[p] = IF p \in Gone(t, keep) THEN "none" ELSE IF p \in keep \cup new THEN "valid" ELSE pos[p]
  BY <1>5 DEF CartRows, Gone
<1>7. vou' = (vou \ (Gone(t, keep) \cup keep)) \cup (keep \cap t.vou) \cup (t.app \ t.ext) \cup (IF t.v THEN new ELSE {})
  BY <1>3, <1>5 DEF CartRows, Gone
<1> HIDE DEF t
<1>8. CartFacts(t, keep, new)
  BY <1>2, <1>3, <1>6, <1>7 DEF CartFacts
<1> QED
  BY <1>8 DEF t

-----------------------------------------------------------------------------
(* Voucher usages                                                            *)

\* The usages that unexpired reservations take.
Usages == At("valid") \cap vou

LEMMA UsagesCount == VoucherInCarts({}) = Cardinality(Usages) /\ Usages \subseteq Slot /\ Cardinality(Usages) \in Nat
<1>1. (At("valid") \cap vou) \ {} = Usages /\ Usages \subseteq Slot
  BY DEF Usages, At
<1> QED
  BY <1>1, Fewer DEF VoucherInCarts

\* Fewer reservations with the voucher need fewer usages.
LEMMA FewerUsages ==
    ASSUME redeemed \in Nat, redeemed' \in Nat, redeemed' <= redeemed, Usages' \subseteq Usages,
           VoucherPromisesKept
    PROVE  VoucherPromisesKept'
<1>1. Usages \subseteq Slot /\ VoucherInCarts({}) = Cardinality(Usages)
  BY UsagesCount
<1>2. VoucherInCarts({})' = Cardinality(Usages')
  <2>1. (At("valid")' \cap vou') \ {} = Usages'
    BY DEF Usages
  <2> QED
    BY <2>1 DEF VoucherInCarts, At
<1>3. /\ Cardinality(Usages') \in Nat /\ Cardinality(Usages) \in Nat
      /\ Cardinality(Usages') <= Cardinality(Usages)
  BY <1>1, Fewer
<1> QED
  BY <1>1, <1>2, <1>3, NumbersAssumption DEF VoucherPromisesKept

\* What a cart request reserves with the voucher fits beside all other usages.
LEMMA CartUsages ==
    ASSUME LInv, NEW w \in Worker, CartCommit(w), VoucherPromisesKept
    PROVE  VoucherPromisesKept'
<1> DEFINE t == task[w]
<1>1. t \in Task /\ vou \subseteq {p \in Slot : pos[p] # "none"} /\ redeemed \in Nat
  BY DEF CartCommit, LInv, IInv, WorkOK, RowsOK
<1>2. PICK keep, new : CartFacts(t, keep, new)
  BY CartEffect
<1>3. redeemed' = redeemed
  BY <1>2 DEF CartFacts
<1>4. t.ext \subseteq Slot /\ t.app \subseteq Slot /\ t.vou \subseteq Slot /\ t.add \in Nat /\ new \subseteq Slot
      /\ (\A p \in new : pos[p] = "none")
  BY <1>1, <1>2, NumbersAssumption DEF Task, CartFacts, Fresh, Own, Slot
<1> DEFINE A == Usages \ t.ext
           B == t.ext \cap t.vou
           C == t.app
           D == IF t.v THEN new ELSE {}
<1>5. Usages' \subseteq (A \cup B) \cup (C \cup D)
  <2> SUFFICES ASSUME NEW p \in Slot, p \in Usages' PROVE p \in (A \cup B) \cup (C \cup D)
    BY DEF Usages, At
  <2>1. pos'[p] = "valid" /\ p \in vou'
    BY DEF Usages, At
  <2>2. p \notin Gone(t, keep)
    BY <1>2, <2>1 DEF CartFacts
  <2>3. CASE p \in vou \ (Gone(t, keep) \cup keep)
    <3>1. p \notin new
      BY <1>1, <1>4, <2>3
    <3>2. pos[p] = "valid"
      BY <1>2, <2>1, <2>2, <2>3, <3>1 DEF CartFacts
    <3>3. p \notin t.ext
      BY <2>2, <2>3, <3>2 DEF Gone, InCart
    <3> QED
      BY <2>3, <3>2, <3>3 DEF Usages, At
  <2>4. CASE p \in keep \cap t.vou
    BY <2>4, <1>2 DEF CartFacts
  <2>5. CASE p \in (t.app \ t.ext) \cup D
    BY <2>5
  <2> QED
    BY <1>2, <2>1, <2>3, <2>4, <2>5 DEF CartFacts
<1>6. A \subseteq Slot /\ B \subseteq Slot /\ C \subseteq Slot /\ D \subseteq Slot /\ A \subseteq Usages /\ Usages \subseteq Slot
  BY <1>4 DEF Usages, At
<1>7. /\ Cardinality(A) \in Nat /\ Cardinality(B) \in Nat /\ Cardinality(C) \in Nat /\ Cardinality(D) \in Nat
      /\ Cardinality(Usages') \in Nat
      /\ Cardinality(Usages') <= Cardinality(A) + Cardinality(B) + Cardinality(C) + Cardinality(D)
  <2> HIDE DEF A, B, C, D
  <2>1. (A \cup B) \subseteq Slot /\ (C \cup D) \subseteq Slot
    BY <1>6
  <2>2. /\ Cardinality(Usages') \in Nat /\ Cardinality(A \cup B) \in Nat /\ Cardinality(C \cup D) \in Nat
        /\ Cardinality(Usages') <= Cardinality(A \cup B) + Cardinality(C \cup D)
    BY <1>5, <2>1, AtMost
  <2>3. /\ Cardinality(A) \in Nat /\ Cardinality(B) \in Nat
        /\ Cardinality(A \cup B) <= Cardinality(A) + Cardinality(B)
    BY <1>6, Together
  <2>4. /\ Cardinality(C) \in Nat /\ Cardinality(D) \in Nat
        /\ Cardinality(C \cup D) <= Cardinality(C) + Cardinality(D)
    BY <1>6, Together
  <2> QED
    BY <2>2, <2>3, <2>4
<1>8. Cardinality(D) <= IF t.v THEN t.add ELSE 0
  <2>1. CASE t.v
    <3>1. Cardinality(new) <= t.add
      <4>1. Cardinality(new) = t.add \/ Cardinality(new) = Least(t.add, Granted(t) - Cardinality(keep \cap ExtQuota(t)))
        BY <1>2 DEF CartFacts
      <4>2. Cardinality(new) \in Nat
        BY <1>4, Fewer
      <4> QED
        BY <1>4, <4>1, <4>2 DEF Least
    <3> QED
      BY <2>1, <3>1
  <2>2. CASE ~t.v
    BY <2>2, FS_EmptySet
  <2> QED
    BY <2>1, <2>2
<1>9. VoucherInCarts(t.ext) = Cardinality(A)
  BY DEF VoucherInCarts, Usages
<1>10. VoucherDiff(t) = Cardinality(B) + (IF t.v THEN t.add ELSE 0) + Cardinality(C)
  BY DEF VoucherDiff
<1>11. VoucherOk(t)
  BY DEF CartCommit
<1>12. VoucherInCarts({})' = Cardinality(Usages') /\ VoucherInCarts({}) = Cardinality(Usages)
  <2>1. (At("valid")' \cap vou') \ {} = Usages'
    BY DEF Usages
  <2> QED
    BY <2>1, UsagesCount DEF VoucherInCarts, At
<1>13. Cardinality(A) <= Cardinality(Usages) /\ Cardinality(Usages) \in Nat
  BY <1>6, Fewer
<1> HIDE DEF A, B, C, D, t
<1>14. CASE VoucherDiff(t) > 0
  <2>1. VoucherLeft(t.ext) >= VoucherDiff(t)
    BY <1>11, <1>14 DEF VoucherOk
  <2> QED
    BY <2>1, <1>1, <1>3, <1>4, <1>7, <1>8, <1>9, <1>10, <1>12, NumbersAssumption DEF VoucherLeft, VoucherPromisesKept
<1>15. CASE ~(VoucherDiff(t) > 0)
  BY <1>15, <1>1, <1>3, <1>4, <1>7, <1>8, <1>10, <1>12, <1>13, NumbersAssumption DEF VoucherPromisesKept
<1> QED
  BY <1>14, <1>15

\* Checkout finds a usage left for a position besides all other reservations.
LEMMA AcceptUsages ==
    ASSUME IInv, NEW p \in Slot, VoucherFree(p), redeemed' = redeemed, Usages' \subseteq Usages \cup {p}
    PROVE  VoucherPromisesKept'
<1>1. VoucherInCarts({p}) = Cardinality(Usages \ {p}) /\ redeemed \in Nat
  BY DEF VoucherInCarts, Usages, IInv
<1>2. VoucherInCarts({})' = Cardinality(Usages')
  <2>1. (At("valid")' \cap vou') \ {} = Usages'
    BY DEF Usages
  <2> QED
    BY <2>1 DEF VoucherInCarts, At
<1>3. Usages \ {p} \subseteq Slot /\ Usages' \subseteq (Usages \ {p}) \cup {p}
  BY DEF Usages, At
<1>4. /\ Cardinality(Usages') \in Nat /\ Cardinality(Usages \ {p}) \in Nat
      /\ Cardinality(Usages') <= Cardinality(Usages \ {p}) + 1
  BY <1>3, OneMore
<1> QED
  BY <1>1, <1>2, <1>4, NumbersAssumption DEF VoucherFree, VoucherLeft, VoucherPromisesKept

LEMMA CheckUsages ==
    ASSUME LInv, NEW w \in Worker, CheckPosition(w)
    PROVE  /\ VoucherPromisesKept => VoucherPromisesKept'
           /\ ~task'[w].bad /\ (task[w].want \cap task[w].vou) \ task'[w].todo # (task[w].want \cap task[w].vou) \ task[w].todo
                => VoucherPromisesKept'
<1> DEFINE t == task[w]
           u == task'[w]
<1>1. CheckLocal(t) /\ IInv /\ pos \in [Slot -> {"none", "valid", "expired", "ordered", "canceled"}] /\ redeemed \in Nat
  BY DEF CheckPosition, LInv, Local, IInv, RowsOK
<1>2. PICK p \in t.todo :
        /\ p \in Slot /\ u.todo = t.todo \ {p} /\ redeemed' = redeemed
        /\ \/ p \in t.valid \ t.vou /\ UNCHANGED <<pos, vou>> /\ u.bad = t.bad
           \/ /\ p \in t.vou => VoucherFree(p)
              /\ pos' = [pos EXCEPT ![p] = "valid"] /\ vou' = vou \cup (t.vou \cap {p})
              /\ u.bad = t.bad
           \/ pos' = [pos EXCEPT ![p] = "none"] /\ vou' = vou \ {p} /\ u.bad
           \/ UNCHANGED <<pos, vou>> /\ u.bad
  BY CheckCases
<1>3. p \in vou => p \in t.vou
  BY <1>1, <1>2 DEF CheckLocal
<1>4. p \notin t.vou => (t.want \cap t.vou) \ u.todo = (t.want \cap t.vou) \ t.todo
  BY <1>2
<1> HIDE DEF t, u
<1>5. CASE UNCHANGED <<pos, vou>>
  <2>1. Usages' \subseteq Usages /\ redeemed' <= redeemed
    BY <1>1, <1>2, <1>5 DEF Usages, At
  <2>2. VoucherPromisesKept => VoucherPromisesKept'
    BY <1>1, <1>2, <2>1, FewerUsages
  <2>3. CASE u.bad
    BY <2>2, <2>3 DEF t, u
  <2>4. CASE p \notin t.vou
    BY <2>2, <2>4, <1>4 DEF t, u
  <2>5. CASE /\ p \in t.vou => VoucherFree(p)
             /\ pos' = [pos EXCEPT ![p] = "valid"] /\ vou' = vou \cup (t.vou \cap {p})
    <3>1. p \in t.vou => VoucherPromisesKept'
      BY <2>1, <2>5, <1>1, <1>2, AcceptUsages
    <3> QED
      BY <3>1, <2>2, <2>4 DEF t, u
  <2> QED
    BY <1>2, <2>3, <2>4, <2>5
<1>6. CASE pos' = [pos EXCEPT ![p] = "none"] /\ vou' = vou \ {p} /\ u.bad
  <2>1. Usages' \subseteq Usages /\ redeemed' <= redeemed
    BY <1>1, <1>2, <1>6 DEF Usages, At
  <2>2. VoucherPromisesKept => VoucherPromisesKept'
    BY <1>1, <1>2, <2>1, FewerUsages
  <2> QED
    BY <1>6, <2>2 DEF t, u
<1>7. CASE /\ p \in t.vou => VoucherFree(p)
           /\ pos' = [pos EXCEPT ![p] = "valid"] /\ vou' = vou \cup (t.vou \cap {p})
  <2>1. Usages' \subseteq Usages \cup {p}
    BY <1>1, <1>2, <1>7 DEF Usages, At
  <2>2. CASE p \in t.vou
    <3>1. VoucherPromisesKept'
      BY <2>1, <2>2, <1>1, <1>2, <1>7, AcceptUsages
    <3> QED
      BY <3>1
  <2>3. CASE p \notin t.vou
    <3>1. Usages' \subseteq Usages /\ redeemed' <= redeemed
      BY <1>1, <1>2, <1>3, <1>7, <2>3 DEF Usages, At
    <3>2. VoucherPromisesKept => VoucherPromisesKept'
      BY <1>1, <1>2, <3>1, FewerUsages
    <3> QED
      BY <3>2, <2>3, <1>4 DEF t, u
  <2> QED
    BY <2>2, <2>3
<1> QED
  BY <1>2, <1>5, <1>6, <1>7

\* The order redeems what its positions had reserved.
LEMMA EndUsages ==
    ASSUME LInv, NEW w \in Worker, CheckoutEnd(w), VoucherPromisesKept
    PROVE  VoucherPromisesKept'
<1> DEFINE t == task[w]
           N == t.want \cap t.vou
<1>1. CheckLocal(t) /\ t \in Task /\ IInv /\ redeemed \in Nat /\ t.todo = {}
      /\ vou \subseteq Slot
  BY DEF CheckoutEnd, LInv, Local, IInv, RowsOK, WorkOK
<1>2. CASE t.bad
  <2>1. Usages' \subseteq Usages /\ redeemed' <= redeemed /\ redeemed' = redeemed
    BY <1>1, <1>2 DEF CheckoutEnd, Usages, At
  <2> QED
    BY <1>1, <2>1, FewerUsages
<1>3. CASE ~t.bad
  <2>1. /\ pos' = [p \in Slot |-> IF p \in t.want THEN "ordered" ELSE pos[p]]
        /\ vou' = vou \cup N /\ redeemed' = redeemed + Cardinality(N)
    BY <1>3 DEF CheckoutEnd, Redeem
  <2>2. t.want \subseteq Slot
    BY <1>1 DEF Task
  <2>3. N \subseteq Usages /\ Usages \subseteq Slot
    BY <1>1, <1>3, <2>2 DEF CheckLocal, Usages, At
  <2>4. Usages' \subseteq Usages \ N
    BY <2>1, <2>2 DEF Usages, At
  <2>5. VoucherInCarts({})' = Cardinality(Usages')
    <3>1. (At("valid")' \cap vou') \ {} = Usages'
      BY DEF Usages
    <3> QED
      BY <3>1 DEF VoucherInCarts, At
  <2> HIDE DEF N, t
  <2>6. /\ Cardinality(N) \in Nat /\ Cardinality(Usages) \in Nat /\ Cardinality(Usages \ N) \in Nat
        /\ Cardinality(Usages) = Cardinality(N) + Cardinality(Usages \ N)
    BY <2>3, Without
  <2>7. Cardinality(Usages') \in Nat /\ Cardinality(Usages') <= Cardinality(Usages \ N)
    <3>1. Usages \ N \subseteq Slot
      BY <2>3
    <3> QED
      BY <3>1, <2>4, Fewer
  <2> QED
    BY <1>1, <2>1, <2>5, <2>6, <2>7, UsagesCount, NumbersAssumption DEF VoucherPromisesKept
<1> QED
  BY <1>2, <1>3

\* Steps of orders leave the carts alone.
LEMMA OrderUsages ==
    ASSUME LInv, NEW w \in Worker,
           \/ ExpireOrder(w) \/ ExtendOrder(w) \/ PayOrder(w) \/ CancelOrder(w) \/ ShrinkOrder(w)
           \/ ReactivateOrder(w) \/ GrowOrder(w)
    PROVE  /\ Usages' = Usages /\ At("valid")' = At("valid") /\ vou' = vou
           /\ redeemed' \in Nat
           /\ ~ReactivateOrder(w) => redeemed' <= redeemed
<1> DEFINE t == task[w]
<1>1. redeemed \in Nat /\ pos \in [Slot -> {"none", "valid", "expired", "ordered", "canceled"}]
  BY DEF LInv, IInv, RowsOK
<1>2. vou' = vou
  BY DEF ExpireOrder, ExtendOrder, PayOrder, CancelOrder, ReactivateOrder, ShrinkOrder, GrowOrder, Refuse
<1>3. pos' = pos \/ \E P \in SUBSET Ordered(t.s) : pos' = [p \in Slot |-> IF p \in P THEN "canceled" ELSE pos[p]]
  BY DEF ExpireOrder, ExtendOrder, PayOrder, CancelOrder, ReactivateOrder, ShrinkOrder, GrowOrder, Refuse, Withdraw
<1>4. At("valid")' = At("valid")
  BY <1>1, <1>3 DEF At, Ordered
<1>5. Usages' = Usages
  BY <1>2, <1>4 DEF Usages
<1>6. redeemed' \in Nat
  BY OrderStep, GrowStep DEF LInv, IInv
<1>7. ASSUME ~ReactivateOrder(w) PROVE redeemed' <= redeemed
  <2>1. CASE CancelOrder(w)
    <3>1. Ordered(t.s) \cap vou \subseteq Slot
      BY DEF LInv, IInv, RowsOK
    <3>2. VouchersOf(t.s) \in Nat
      BY <3>1, Fewer DEF VouchersOf
    <3> QED
      BY <1>1, <2>1, <3>2 DEF CancelOrder, Unredeem, NonNeg, Refuse
  <2>2. CASE ShrinkOrder(w)
    <3>1. PICK P : Unredeem(Cardinality(P \cap vou))
      BY <2>2 DEF ShrinkOrder
    <3>2. P \cap vou \subseteq Slot
      BY DEF LInv, IInv, RowsOK
    <3>3. Cardinality(P \cap vou) \in Nat
      BY <3>2, Fewer
    <3> QED
      BY <1>1, <3>1, <3>3 DEF Unredeem, NonNeg
  <2>3. CASE \/ ExpireOrder(w) \/ ExtendOrder(w) \/ PayOrder(w) \/ GrowOrder(w)
    BY <1>1, <2>3 DEF ExpireOrder, ExtendOrder, PayOrder, GrowOrder, Refuse
  <2> QED
    BY <1>7, <2>1, <2>2, <2>3
<1> QED
  BY <1>2, <1>4, <1>5, <1>6, <1>7

\* A position that is new has no voucher.
LEMMA GrowUsages ==
    ASSUME LInv, NEW w \in Worker, GrowCommit(w), task[w].kind = "grow"
    PROVE  Usages' \subseteq Usages /\ redeemed' = redeemed
<1> DEFINE t == task[w]
<1>1. GrowLocal(t) /\ t \in Task /\ vou \subseteq {p \in Slot : pos[p] # "none"} /\ redeemed \in Nat
  BY DEF GrowCommit, LInv, Local, IInv, RowsOK, WorkOK
<1>2. t.want \cap vou = {}
  BY <1>1 DEF GrowLocal
<1>3. vou' = vou /\ (pos' = pos \/ pos' = [p \in Slot |-> IF p \in t.want THEN "ordered" ELSE pos[p]])
  BY DEF GrowCommit
<1>4. redeemed' = redeemed \/ redeemed' = redeemed + Cardinality(t.want \cap vou)
  BY DEF GrowCommit, Redeem
<1>5. Cardinality(t.want \cap vou) = 0
  BY <1>2, FS_EmptySet
<1> QED
  BY <1>1, <1>3, <1>4, <1>5 DEF Usages, At

\* Nothing but a reactivation or a reinstatement takes promised usages away.
LEMMA KeptStep ==
    ASSUME LInv, [Next]_vars, VoucherPromisesKept,
           \A w \in Worker : ~ReactivateOrder(w) /\ ~(GrowCommit(w) /\ task[w].kind = "reinstate")
    PROVE  VoucherPromisesKept'
<1>0. redeemed \in Nat
  BY DEF LInv, IInv
<1>1. ASSUME UNCHANGED <<pos, vou, redeemed>> PROVE VoucherPromisesKept'
  BY <1>1 DEF VoucherPromisesKept, VoucherInCarts, At
<1>2. CASE UNCHANGED vars
  BY <1>1, <1>2 DEF vars
<1>3. CASE Lapse \/ CleanUp
  <2>1. redeemed' = redeemed
    BY <1>3 DEF Lapse, CleanUp
  <2>2. pos \in [Slot -> {"none", "valid", "expired", "ordered", "canceled"}]
    BY DEF LInv, IInv, RowsOK
  <2>3. Usages' \subseteq Usages
    BY <1>3, <2>2 DEF Lapse, CleanUp, Usages, At
  <2> QED
    BY <1>0, <2>1, <2>3, FewerUsages
<1>4. ASSUME NEW w \in Worker, NEW s \in Session, Plan(w, s) PROVE VoucherPromisesKept'
  BY <1>1, <1>4 DEF Plan, PlanAdd, PlanRemove, PlanAddons, PlanVoucher, PlanCheckout, PlanOrder, Start
<1>5. ASSUME NEW w \in Worker, Act(w) \/ Abandon(w) PROVE VoucherPromisesKept'
  <2>1. CASE CartCommit(w)
    BY <2>1, CartUsages
  <2>2. CASE CartRefuse(w) \/ CheckoutBegin(w) \/ Abandon(w)
    BY <1>1, <2>2 DEF CartRefuse, CheckoutBegin, Abandon, Refuse
  <2>3. CASE CheckPosition(w)
    BY <2>3, CheckUsages
  <2>4. CASE CheckoutEnd(w)
    BY <2>4, EndUsages
  <2>5. CASE \/ ExpireOrder(w) \/ ExtendOrder(w) \/ PayOrder(w) \/ CancelOrder(w) \/ ShrinkOrder(w)
             \/ GrowOrder(w)
    <3>1. Usages' = Usages /\ redeemed' \in Nat /\ redeemed' <= redeemed
      BY <2>5, OrderUsages
    <3> QED
      BY <1>0, <3>1, FewerUsages
  <2>6. CASE GrowCommit(w)
    <3>1. task[w].kind \in {"grow", "reinstate"}
      BY <2>6 DEF GrowCommit, LInv, Local, GrowLocal
    <3>2. Usages' \subseteq Usages /\ redeemed' = redeemed
      BY <2>6, <3>1, GrowUsages
    <3> QED
      BY <1>0, <3>2, FewerUsages
  <2> QED
    BY <1>5, <2>1, <2>2, <2>3, <2>4, <2>5, <2>6 DEF Act
<1> QED
  BY <1>2, <1>3, <1>4, <1>5 DEF Next

\* Only what is asked for happens, and only two requests remove something.
Asked ==
    \A w \in Worker : ~Idle(w) =>
      task[w].kind \in Ops /\ (task[w].del = {} \/ task[w].kind \in {"remove", "setAddons"})

LEMMA AskedStep == ASSUME IInv, Asked, [Next]_vars PROVE Asked'
<1>0. pc \in [Worker -> {"idle", "planned", "checking", "uncommitted"}] /\ task \in [Worker -> Task \cup {None}]
      /\ \A w \in Worker : pc[w] # "idle" => task[w] \in Task
  BY DEF IInv, WorkOK
<1>1. CASE UNCHANGED <<pc, task>>
  BY <1>1 DEF Asked, Idle
<1>2. ASSUME NEW w \in Worker, NEW s \in Session, Plan(w, s) PROVE Asked'
  <2>1. \E t : Start(w, t) /\ t.kind \in Ops /\ (t.del = {} \/ t.kind \in {"remove", "setAddons"})
    <3> DEFINE Of(k) == k \in Ops /\ \E t : Start(w, t) /\ t.kind = k /\ (t.del = {} \/ k \in {"remove", "setAddons"})
    <3>1. PlanAdd(w, s) => Of("add")
      <4>1. \A n, v : [Read(s, "add") EXCEPT !.add = n, !.v = v, !.ext = Expired(s)].kind = "add"
                    /\ [Read(s, "add") EXCEPT !.add = n, !.v = v, !.ext = Expired(s)].del = {}
        BY DEF Read
      <4> QED
        BY <4>1 DEF PlanAdd, MayStart
    <3>2. PlanRemove(w, s) => Of("remove")
      <4>1. \A D : [Read(s, "remove") EXCEPT !.del = D, !.ext = Expired(s) \ D].kind = "remove"
        BY DEF Read
      <4> QED
        BY <4>1 DEF PlanRemove, MayStart
    <3>3. PlanAddons(w, s) => Of("setAddons")
      <4>1. \A p : [Read(s, "setAddons") EXCEPT !.del = {p}, !.add = 1, !.ext = Expired(s) \ {p}].kind = "setAddons"
        BY DEF Read
      <4> QED
        BY <4>1 DEF PlanAddons, MayStart
    <3>4. PlanVoucher(w, s) => Of("voucher")
      <4>1. [Read(s, "voucher") EXCEPT !.app = Cart(s) \ vou, !.ext = Expired(s)].kind = "voucher"
            /\ [Read(s, "voucher") EXCEPT !.app = Cart(s) \ vou, !.ext = Expired(s)].del = {}
        BY DEF Read
      <4> QED
        BY <4>1 DEF PlanVoucher, MayStart
    <3>5. PlanCheckout(w, s) => Of("checkout")
      <4>1. [Read(s, "checkout") EXCEPT !.want = Cart(s)].kind = "checkout"
            /\ [Read(s, "checkout") EXCEPT !.want = Cart(s)].del = {}
        BY DEF Read
      <4> QED
        BY <4>1 DEF PlanCheckout, MayStart
    <3>6. PlanOrder(w, s) => \E k : Of(k)
      <4>1. \A k : ReadOrder(s, k).kind = k /\ ReadOrder(s, k).del = {}
        BY DEF ReadOrder, Read
      <4> QED
        BY <4>1 DEF PlanOrder, MayStart
    <3> QED
      BY <1>2, <3>1, <3>2, <3>3, <3>4, <3>5, <3>6 DEF Plan
  <2> QED
    BY <1>0, <2>1 DEF Start, Asked, Idle
<1>3. ASSUME NEW w \in Worker, Finish(w) PROVE Asked'
  BY <1>0, <1>3 DEF Finish, Asked, Idle
<1>4. ASSUME NEW w \in Worker, ~Idle(w), task'[w].kind = task[w].kind /\ task'[w].del = task[w].del,
             \A x \in Worker \ {w} : pc'[x] = pc[x] /\ task'[x] = task[x]
      PROVE  Asked'
  BY <1>4 DEF Asked, Idle
<1>5. ASSUME NEW w \in Worker, Act(w) \/ Abandon(w) PROVE Asked'
  <2>1. CASE CheckoutBegin(w)
    <3>1. pc[w] = "planned"
      BY <2>1 DEF CheckoutBegin
    <3>2. Finish(w) \/ (task'[w].kind = task[w].kind /\ task'[w].del = task[w].del /\ \A x \in Worker \ {w} : pc'[x] = pc[x] /\ task'[x] = task[x])
      BY <1>0, <2>1, <3>1 DEF CheckoutBegin, Refuse, Task
    <3> QED
      BY <1>3, <1>4, <3>1, <3>2 DEF Idle
  <2>2. CASE CheckPosition(w)
    <3>1. pc[w] = "checking" /\ pc' = pc
      BY <2>2 DEF CheckPosition
    <3>2. \E p : task' = [task EXCEPT ![w].todo = @ \ {p}] \/ task' = [task EXCEPT ![w].todo = @ \ {p}, ![w].bad = TRUE]
      BY <2>2 DEF CheckPosition
    <3>3. task'[w].kind = task[w].kind /\ task'[w].del = task[w].del /\ \A x \in Worker \ {w} : task'[x] = task[x]
      BY <1>0, <3>1, <3>2 DEF Task
    <3> QED
      BY <1>4, <3>1, <3>3 DEF Idle
  <2>3. CASE GrowOrder(w)
    <3>1. pc[w] = "planned"
      BY <2>3 DEF GrowOrder, AtWork
    <3>2. Finish(w) \/ \E P : pc' = [pc EXCEPT ![w] = "uncommitted"] /\ task' = [task EXCEPT ![w].want = P]
      BY <2>3 DEF GrowOrder, Refuse
    <3>3. Finish(w) \/ (task'[w].kind = task[w].kind /\ task'[w].del = task[w].del /\ \A x \in Worker \ {w} : pc'[x] = pc[x] /\ task'[x] = task[x])
      BY <1>0, <3>1, <3>2 DEF Task
    <3> QED
      BY <1>3, <1>4, <3>1, <3>3 DEF Idle
  <2>4. CASE Finish(w)
    BY <1>3, <2>4
  <2> QED
    BY <1>5, <2>1, <2>2, <2>3, <2>4 DEF Act, Abandon, CartCommit, CartWrite, CartRefuse, CheckoutEnd, ExpireOrder, ExtendOrder,
       PayOrder, CancelOrder, ReactivateOrder, GrowCommit, ShrinkOrder, SetStatus, Refuse
<1> QED
  BY <1>1, <1>2, <1>5 DEF Next, Lapse, CleanUp, vars

LEMMA AskedInvariant == ASSUME ~Overlap PROVE Spec => [](LInv /\ Asked)
<1>1. Init => Asked
  BY DEF Init, Asked, Idle
<1>2. LInv /\ Asked /\ [Next]_vars => Asked'
  BY AskedStep DEF LInv
<1> QED
  BY <1>1, <1>2, LocalInvariant, PTL DEF Spec

\* What is still free of the voucher covers all unexpired reservations that carry it, where
\* orders that were canceled do not come back and the requests of a cart do not overlap.
THEOREM PromisesAreKept ==
    ASSUME ~Overlap, {"reactivate", "reinstate"} \cap Ops = {}
    PROVE  Spec => []VoucherPromisesKept
<1>1. Init => VoucherPromisesKept
  <2> SUFFICES ASSUME Init PROVE VoucherPromisesKept
    OBVIOUS
  <2>1. (At("valid") \cap vou) \ {} = {} /\ redeemed = 0
    BY DEF Init
  <2>2. VoucherInCarts({}) = 0
    BY <2>1, FS_EmptySet DEF VoucherInCarts
  <2> QED
    BY <2>1, <2>2, NumbersAssumption DEF VoucherPromisesKept
<1>2. LInv /\ Asked /\ VoucherPromisesKept /\ [Next]_vars => VoucherPromisesKept'
  <2> SUFFICES ASSUME LInv, Asked, VoucherPromisesKept, [Next]_vars PROVE VoucherPromisesKept'
    OBVIOUS
  <2>1. ASSUME NEW w \in Worker PROVE ~ReactivateOrder(w) /\ ~(GrowCommit(w) /\ task[w].kind = "reinstate")
    BY DEF Asked, Idle, ReactivateOrder, AtWork, GrowCommit
  <2> QED
    BY <2>1, KeptStep
<1> QED
  BY <1>1, <1>2, AskedInvariant, PTL DEF Spec

\* How a worker comes to be at what it is at.
LEMMA Moves ==
    ASSUME LInv, NEW w \in Worker, [Next]_vars
    PROVE  \/ pc'[w] = pc[w] /\ task'[w] = task[w]
           \/ pc'[w] \in {"idle", "planned"}
           \/ CheckoutBegin(w) /\ pc'[w] = "checking" /\ task'[w].todo = task'[w].want
           \/ CheckPosition(w)
           \/ GrowOrder(w) /\ pc'[w] = "uncommitted"
<1>0. pc \in [Worker -> {"idle", "planned", "checking", "uncommitted"}] /\ task \in [Worker -> Task \cup {None}]
      /\ \A x \in Worker : pc[x] # "idle" => task[x] \in Task
  BY DEF LInv, IInv, WorkOK
<1> DEFINE Same(x) == pc'[x] = pc[x] /\ task'[x] = task[x]
<1>1. CASE UNCHANGED <<pc, task>>
  BY <1>1
<1>2. ASSUME NEW x \in Worker, NEW s \in Session, Plan(x, s) PROVE pc'[x] = "planned" /\ \A y \in Worker \ {x} : Same(y)
  <2>1. \E t : Start(x, t)
    BY <1>2 DEF Plan, PlanAdd, PlanRemove, PlanAddons, PlanVoucher, PlanCheckout, PlanOrder
  <2> QED
    BY <1>0, <2>1 DEF Start
<1>3. ASSUME NEW x \in Worker, Finish(x) PROVE pc'[x] = "idle" /\ \A y \in Worker \ {x} : Same(y)
  BY <1>0, <1>3 DEF Finish
<1>4. ASSUME NEW x \in Worker, CheckPosition(x) PROVE \A y \in Worker \ {x} : Same(y)
  <2>1. Aside(x)
    BY <1>4, CheckAside
  <2> QED
    BY <2>1 DEF Aside
<1>5. ASSUME NEW x \in Worker, CheckoutBegin(x), ~Finish(x)
      PROVE  pc'[x] = "checking" /\ task'[x].todo = task'[x].want /\ \A y \in Worker \ {x} : Same(y)
  <2>1. /\ task' = [task EXCEPT ![x].todo = task[x].want, ![x].valid = task[x].want \cap At("valid"),
                                ![x].vou = task[x].want \cap vou]
        /\ pc' = [pc EXCEPT ![x] = "checking"] /\ pc[x] = "planned"
    BY <1>5 DEF CheckoutBegin, Refuse
  <2> QED
    BY <1>0, <2>1 DEF Task
<1>6. ASSUME NEW x \in Worker, GrowOrder(x), ~Finish(x)
      PROVE  pc'[x] = "uncommitted" /\ \A y \in Worker \ {x} : Same(y)
  <2>1. \E P : task' = [task EXCEPT ![x].want = P] /\ pc' = [pc EXCEPT ![x] = "uncommitted"]
    BY <1>6 DEF GrowOrder, Refuse
  <2> QED
    BY <1>0, <2>1
<1>7. ASSUME NEW x \in Worker, Act(x) \/ Abandon(x)
      PROVE  Finish(x) \/ CheckPosition(x) \/ CheckoutBegin(x) \/ GrowOrder(x)
  BY <1>7 DEF Act, Abandon, CartCommit, CartWrite, CartRefuse, CheckoutEnd, ExpireOrder, ExtendOrder,
       PayOrder, CancelOrder, ReactivateOrder, GrowCommit, ShrinkOrder, SetStatus, Refuse
<1> HIDE DEF Same
<1>8. ASSUME NEW x \in Worker, Act(x) \/ Abandon(x)
      PROVE  \/ Same(w)
             \/ pc'[w] \in {"idle", "planned"}
             \/ CheckoutBegin(w) /\ pc'[w] = "checking" /\ task'[w].todo = task'[w].want
             \/ CheckPosition(w)
             \/ GrowOrder(w) /\ pc'[w] = "uncommitted"
  BY <1>3, <1>4, <1>5, <1>6, <1>7, <1>8
<1>9. CASE \E x \in Worker, s \in Session : Plan(x, s)
  BY <1>2, <1>9 DEF Same
<1> QED
  BY <1>1, <1>8, <1>9 DEF Next, Lapse, CleanUp, vars, Same

\* Who can act on what checkout carries is checkout itself.
LEMMA OwnTask ==
    ASSUME LInv, NEW w \in Worker, [Next]_vars, pc[w] = "checking", pc'[w] = "checking",
           task'[w] # task[w]
    PROVE  CheckPosition(w)
<1>1. ~CheckoutBegin(w) /\ ~GrowOrder(w)
  BY DEF CheckoutBegin, GrowOrder, AtWork
<1> QED
  BY <1>1, Moves

\* The position's own reservation frees the usage it takes.
LEMMA OwnUsage ==
    ASSUME LInv, VoucherPromisesKept, NEW p \in Usages
    PROVE  VoucherFree(p)
<1>1. Usages \subseteq Slot /\ redeemed \in Nat /\ {p} \subseteq Usages
  BY UsagesCount DEF LInv, IInv
<1>2. VoucherInCarts({p}) = Cardinality(Usages \ {p})
  BY DEF VoucherInCarts, Usages
<1>3. /\ Cardinality({p}) = 1 /\ Cardinality(Usages \ {p}) \in Nat
      /\ Cardinality(Usages) = Cardinality({p}) + Cardinality(Usages \ {p})
  BY <1>1, Without, FS_Singleton
<1> QED
  BY <1>1, <1>2, <1>3, UsagesCount, NumbersAssumption DEF VoucherFree, VoucherLeft, VoucherPromisesKept

\* Checkout does not refuse what is reserved and has not run out.
THEOREM ReservationsAreHonoured ==
    ASSUME ~Overlap, {"reactivate", "reinstate"} \cap Ops = {}
    PROVE  Spec => ReservationHonoured
<1> DEFINE Honoured ==
      \A w \in Worker, p \in Slot :
         pc[w] = "checking" /\ pc'[w] = "checking" /\ pos[p] = "valid"
           /\ p \in task[w].todo /\ p \notin task'[w].todo
         => pos'[p] = "valid"
<1>1. LInv /\ VoucherPromisesKept /\ [Next]_vars => Honoured
  <2> SUFFICES ASSUME LInv, VoucherPromisesKept, [Next]_vars, NEW w \in Worker, NEW p \in Slot,
                      pc[w] = "checking", pc'[w] = "checking", pos[p] = "valid",
                      p \in task[w].todo, p \notin task'[w].todo
               PROVE  pos'[p] = "valid"
    OBVIOUS
  <2>1. CheckPosition(w)
    BY OwnTask
  <2>2. PICK q \in task[w].todo :
           /\ task'[w].todo = task[w].todo \ {q}
           /\ \/ UNCHANGED pos \/ pos' = [pos EXCEPT ![q] = "valid"]
              \/ ~((q \in task[w].vou => VoucherFree(q)) /\ QuotaFree(task[w], q))
    BY <2>1, CheckCases
  <2>3. p = q
    BY <2>2
  <2>4. p \in task[w].valid /\ (p \in task[w].vou => p \in vou)
    BY DEF LInv, Local, CheckLocal
  <2>5. QuotaFree(task[w], p)
    BY <2>4 DEF QuotaFree
  <2>6. p \in task[w].vou => VoucherFree(p)
    BY <2>4, OwnUsage DEF Usages, At
  <2>7. UNCHANGED pos \/ pos' = [pos EXCEPT ![p] = "valid"]
    BY <2>2, <2>3, <2>5, <2>6
  <2> QED
    BY <2>7 DEF LInv, IInv, RowsOK
<1> HIDE DEF Honoured
<1>2. Spec => [][Honoured]_vars
  BY <1>1, LocalInvariant, PromisesAreKept, PTL DEF Spec
<1> QED
  BY <1>2 DEF ReservationHonoured, Honoured

-----------------------------------------------------------------------------
(* Orders                                                                    *)

LEMMA Owner == \A p \in Slot : p[1] \in Session /\ \A s \in Session : p \in Own(s) <=> p[1] = s
  BY DEF Slot, Own

\* A step that no order takes part in.
OrdersStay ==
    /\ \A p \in Slot : /\ pos'[p] \in {"ordered", "canceled"} => pos'[p] = pos[p]
                       /\ pos[p] \in {"ordered", "canceled"} => pos'[p] = pos[p] /\ (p \in vou' <=> p \in vou)
    /\ UNCHANGED <<status, redeemed>>

LEMMA CartStays == ASSUME LInv, NEW w \in Worker, CartCommit(w) PROVE OrdersStay
<1> DEFINE t == task[w]
<1>1. PICK keep, new : CartFacts(t, keep, new)
  BY CartEffect
<1>2. \A p \in keep \cup new \cup Gone(t, keep) \cup (t.app \ t.ext) : p \in Slot => pos[p] \notin {"ordered", "canceled"}
  BY <1>1 DEF CartFacts, InCart, Gone, Fresh
<1>3. keep \cup new \cup Gone(t, keep) \subseteq keep \cup new \cup Gone(t, keep) \cup (t.app \ t.ext)
  OBVIOUS
<1>4. UNCHANGED <<status, redeemed>>
  BY <1>1 DEF CartFacts
<1> HIDE DEF t
<1>5. ASSUME NEW p \in Slot
      PROVE  /\ pos'[p] \in {"ordered", "canceled"} => pos'[p] = pos[p]
             /\ pos[p] \in {"ordered", "canceled"} => pos'[p] = pos[p] /\ (p \in vou' <=> p \in vou)
  BY <1>1, <1>2 DEF CartFacts
<1> QED
  BY <1>4, <1>5 DEF OrdersStay

LEMMA CheckStays == ASSUME LInv, NEW w \in Worker, CheckPosition(w) PROVE OrdersStay
<1> DEFINE t == task[w]
<1>1. /\ status[t.s] = "none" /\ t.todo \subseteq Own(t.s) /\ t.s \in Session
      /\ pos \in [Slot -> {"none", "valid", "expired", "ordered", "canceled"}]
  BY DEF CheckPosition, LInv, Local, CheckLocal, IInv, RowsOK, WorkOK, Sane, Task
<1>2. PICK p \in t.todo :
        /\ p \in Slot /\ UNCHANGED <<status, redeemed>>
        /\ \/ UNCHANGED <<pos, vou>>
           \/ pos' = [pos EXCEPT ![p] = "valid"] /\ vou' = vou \cup (t.vou \cap {p})
           \/ pos' = [pos EXCEPT ![p] = "none"] /\ vou' = vou \ {p}
  BY CheckCases
<1>3. pos[p] \notin {"ordered", "canceled"}
  <2>1. p[1] = t.s
    BY <1>1, <1>2, Owner
  <2> QED
    BY <1>1, <1>2, <2>1 DEF LInv, IInv, RowsOK
<1> QED
  BY <1>1, <1>2, <1>3 DEF OrdersStay

LEMMA RestStays ==
    ASSUME LInv,
           \/ UNCHANGED vars \/ Lapse \/ CleanUp
           \/ \E w \in Worker : CheckoutBegin(w) \/ CartRefuse(w) \/ Abandon(w) \/ Refuse(w) \/ GrowOrder(w)
           \/ \E w \in Worker, s \in Session : Plan(w, s)
           \/ \E w \in Worker : CheckoutEnd(w) /\ task[w].bad
    PROVE  OrdersStay
<1>1. CASE UNCHANGED <<pos, vou, status, redeemed>>
  BY <1>1 DEF OrdersStay
<1>2. CASE Lapse \/ CleanUp
  <2>1. pos \in [Slot -> {"none", "valid", "expired", "ordered", "canceled"}]
    BY DEF LInv, IInv, RowsOK
  <2> QED
    BY <1>2, <2>1 DEF Lapse, CleanUp, At, OrdersStay
<1>3. ASSUME NEW w \in Worker, NEW s \in Session, Plan(w, s) PROVE UNCHANGED <<pos, vou, status, redeemed>>
  BY <1>3 DEF Plan, PlanAdd, PlanRemove, PlanAddons, PlanVoucher, PlanCheckout, PlanOrder, Start
<1>4. ASSUME NEW w \in Worker, CheckoutBegin(w) \/ CartRefuse(w) \/ Abandon(w) \/ Refuse(w) \/ GrowOrder(w)
      PROVE  UNCHANGED <<pos, vou, status, redeemed>>
  BY <1>4 DEF CheckoutBegin, CartRefuse, Abandon, Refuse, GrowOrder
<1>5. ASSUME NEW w \in Worker, CheckoutEnd(w), task[w].bad
      PROVE  UNCHANGED <<pos, vou, status, redeemed>>
  BY <1>5 DEF CheckoutEnd
<1> QED
  BY <1>1, <1>2, <1>3, <1>4, <1>5 DEF vars

LEMMA StaysIn == ASSUME OrdersStay, NEW S PROVE OrderedIn(S)' = OrderedIn(S)
  BY Owner DEF OrdersStay, OrderedIn

\* An order changes: what it reads it is, and what happens to its positions.
LEMMA OrderKnown ==
    ASSUME LInv, NEW w \in Worker, ~Idle(w), task[w].kind \in OrderKinds
    PROVE  /\ task[w].s \in Session /\ status[task[w].s] = task[w].seen /\ task[w].seen \in SeenBy[task[w].kind]
           /\ task[w].seen \in Statuses
           /\ Ordered(task[w].s) = {p \in Slot : p[1] = task[w].s /\ pos[p] = "ordered"}
<1>1. task[w].s \in Session /\ status[task[w].s] = task[w].seen /\ task[w].seen \in SeenBy[task[w].kind] /\ task[w].seen \in Statuses
  BY DEF LInv, Local, OrderLocal, IInv, WorkOK, Task, Sane, Idle
<1>2. Own(task[w].s) \subseteq Slot
  BY <1>1 DEF Own, Slot
<1>3. Ordered(task[w].s) = {p \in Slot : p[1] = task[w].s /\ pos[p] = "ordered"}
  BY <1>1, <1>2, Owner DEF Ordered
<1> QED
  BY <1>1, <1>3

\* What a step makes of the order of a session: its positions, its status, the usages redeemed.
Becomes(s, P, st, n) == Ordered(s)' = P /\ status'[s] = st /\ redeemed' = n

LEMMA StatusFacts ==
    ASSUME LInv, NEW w \in Worker, NEW s \in Session, s = task[w].s, NEW st, SetStatus(w, st), UNCHANGED pos
    PROVE  Becomes(s, Ordered(s), st, redeemed')
<1>1. status' = [status EXCEPT ![s] = st] /\ status \in [Session -> Statuses \cup {"none"}]
  BY DEF SetStatus, LInv, IInv, RowsOK
<1>2. Ordered(s)' = Ordered(s)
  BY DEF Ordered
<1> QED
  BY <1>1, <1>2 DEF Becomes

\* Requests that only set a status.
LEMMA SetFacts ==
    ASSUME LInv, NEW w \in Worker, ~Refuse(w), NEW s \in Session, s = task[w].s
    PROVE  /\ ExpireOrder(w) => Becomes(s, Ordered(s), "e", redeemed) /\ status[s] = "n"
           /\ ExtendOrder(w) => /\ Becomes(s, Ordered(s), "n", redeemed) /\ StillAvailable(s) /\ lock = None
                                /\ status[s] = "e" \/ task[w].kind = "extendAny"
           /\ PayOrder(w) => /\ Becomes(s, Ordered(s), "p", redeemed)
                             /\ status[s] = "n" \/ (status[s] = "e" /\ StillAvailable(s) /\ lock = None)
           /\ ReactivateOrder(w) => /\ \E st \in {"n", "p"} : Becomes(s, Ordered(s), st, redeemed + VouchersOf(s))
                                    /\ status[s] = "c" /\ StillAvailable(s) /\ UsagesLeft(VouchersOf(s)) /\ lock = None
<1>1. ASSUME ExpireOrder(w) \/ ExtendOrder(w) \/ PayOrder(w) \/ ReactivateOrder(w)
      PROVE  ~Idle(w) /\ task[w].kind \in {"expire", "extend", "extendAny", "pay", "reactivate"}
             /\ status[s] = task[w].seen /\ task[w].seen \in SeenBy[task[w].kind]
  <2>1. ~Idle(w) /\ task[w].kind \in {"expire", "extend", "extendAny", "pay", "reactivate"}
    BY <1>1 DEF ExpireOrder, ExtendOrder, PayOrder, ReactivateOrder, AtWork, Idle
  <2>2. task[w].kind \in OrderKinds
    BY <2>1 DEF OrderKinds
  <2> QED
    BY <2>1, <2>2, OrderKnown
<1>2. ASSUME ExpireOrder(w) PROVE Becomes(s, Ordered(s), "e", redeemed) /\ status[s] = "n"
  <2>1. SetStatus(w, "e") /\ UNCHANGED <<pos, redeemed>> /\ task[w].kind = "expire"
    BY <1>2 DEF ExpireOrder, AtWork
  <2> QED
    BY <1>1, <1>2, <2>1, StatusFacts DEF SeenBy
<1>3. ASSUME ExtendOrder(w)
      PROVE  /\ Becomes(s, Ordered(s), "n", redeemed) /\ StillAvailable(s) /\ lock = None
             /\ status[s] = "e" \/ task[w].kind = "extendAny"
  <2>1. SetStatus(w, "n") /\ UNCHANGED <<pos, redeemed>> /\ StillAvailable(s) /\ lock = None /\ task[w].seen # "n"
        /\ task[w].kind \in {"extend", "extendAny"}
    BY <1>3 DEF ExtendOrder, AtWork
  <2> QED
    BY <1>1, <1>3, <2>1, StatusFacts DEF SeenBy
<1>4. ASSUME PayOrder(w)
      PROVE  /\ Becomes(s, Ordered(s), "p", redeemed)
             /\ status[s] = "n" \/ (status[s] = "e" /\ StillAvailable(s) /\ lock = None)
  <2>1. SetStatus(w, "p") /\ UNCHANGED <<pos, redeemed>> /\ (task[w].seen = "n" \/ (StillAvailable(s) /\ lock = None))
        /\ task[w].kind = "pay"
    BY <1>4 DEF PayOrder, AtWork
  <2> QED
    BY <1>1, <1>4, <2>1, StatusFacts DEF SeenBy
<1>5. ASSUME ReactivateOrder(w)
      PROVE  /\ \E st \in {"n", "p"} : Becomes(s, Ordered(s), st, redeemed + VouchersOf(s))
             /\ status[s] = "c" /\ StillAvailable(s) /\ UsagesLeft(VouchersOf(s)) /\ lock = None
  <2>1. PICK st \in {"n", "p"} : SetStatus(w, st)
    BY <1>5 DEF ReactivateOrder
  <2>2. redeemed' = redeemed + VouchersOf(s) /\ UNCHANGED pos /\ StillAvailable(s) /\ UsagesLeft(VouchersOf(s))
        /\ lock = None /\ task[w].kind = "reactivate"
    BY <1>5 DEF ReactivateOrder, Redeem, AtWork
  <2> QED
    BY <1>1, <1>5, <2>1, <2>2, StatusFacts DEF SeenBy
<1> QED
  BY <1>2, <1>3, <1>4, <1>5

\* Requests that change positions.
LEMMA CancelFacts ==
    ASSUME LInv, NEW w \in Worker, NEW s \in Session, s = task[w].s, CancelOrder(w), ~Refuse(w)
    PROVE  /\ status[s] \in {"n", "p", "e"}
           /\ \/ Becomes(s, Ordered(s), "c", NonNeg(redeemed - VouchersOf(s)))
              \/ Becomes(s, {}, "p", NonNeg(redeemed - VouchersOf(s)))
<1>1. status[s] \in {"n", "p", "e"} /\ redeemed' = NonNeg(redeemed - VouchersOf(s))
  BY DEF CancelOrder, Unredeem
<1>2. CASE SetStatus(w, "c") /\ UNCHANGED pos
  BY <1>1, <1>2, StatusFacts
<1>3. CASE SetStatus(w, "p") /\ Withdraw(Ordered(s))
  <2>1. status' = [status EXCEPT ![s] = "p"] /\ status \in [Session -> Statuses \cup {"none"}] /\ Own(s) \subseteq Slot
    BY <1>3 DEF SetStatus, LInv, IInv, RowsOK, Own, Slot
  <2>2. Ordered(s)' = {}
    BY <1>3, <2>1 DEF Withdraw, Ordered
  <2> QED
    BY <1>1, <2>1, <2>2 DEF Becomes
<1> QED
  BY <1>1, <1>2, <1>3 DEF CancelOrder

LEMMA ShrinkFacts ==
    ASSUME LInv, NEW w \in Worker, NEW s \in Session, s = task[w].s, ShrinkOrder(w)
    PROVE  /\ status[s] \in {"n", "p"}
           /\ \E P \in SUBSET Ordered(s), st \in {"n", "p"} :
                Becomes(s, Ordered(s) \ P, st, NonNeg(redeemed - Cardinality(P \cap vou)))
<1>1. status[s] = task[w].seen /\ task[w].seen \in {"n", "p"} /\ Own(s) \subseteq Slot
  <2>1. ~Idle(w) /\ task[w].kind = "shrink" /\ task[w].kind \in OrderKinds
    BY DEF ShrinkOrder, AtWork, Idle, OrderKinds
  <2> QED
    BY <2>1, OrderKnown DEF SeenBy, Own, Slot
<1>2. PICK P \in SUBSET Ordered(s) : Withdraw(P) /\ Unredeem(Cardinality(P \cap vou)) /\ Resave(w, "p")
  BY DEF ShrinkOrder
<1>3. PICK st \in {"n", "p"} : status' = [status EXCEPT ![s] = st]
  BY <1>1, <1>2 DEF Resave
<1>4. status'[s] = st
  BY <1>3 DEF LInv, IInv, RowsOK
<1>5. Ordered(s)' = Ordered(s) \ P
  BY <1>1, <1>2 DEF Withdraw, Ordered
<1> QED
  BY <1>1, <1>2, <1>4, <1>5 DEF Becomes, Unredeem

LEMMA GrowFacts ==
    ASSUME LInv, NEW w \in Worker, NEW s \in Session, s = task[w].s, GrowCommit(w)
    PROVE  /\ status[s] \in {"n", "p"} /\ vou' = vou
           /\ task[w].want \subseteq Own(s) /\ task[w].want \cap Ordered(s) = {}
           /\ \A p \in task[w].want : pos[p] \in {"none", "canceled"}
           /\ \/ OrdersStay /\ pos' = pos
              \/ /\ \E st \in {"n", "p"} :
                      Becomes(s, Ordered(s) \cup task[w].want, st, redeemed + Cardinality(task[w].want \cap vou))
                 /\ pos' = [p \in Slot |-> IF p \in task[w].want THEN "ordered" ELSE pos[p]]
                 /\ task[w].want \cap vou = {} \/ redeemed < MaxUsages
<1> DEFINE P == task[w].want
<1>1. /\ status[s] = task[w].seen /\ task[w].seen \in {"n", "p"} /\ Own(s) \subseteq Slot
      /\ P \subseteq Own(s) /\ \A p \in P : pos[p] \in {"none", "canceled"}
  <2>1. ~Idle(w) /\ pc[w] = "uncommitted" /\ GrowLocal(task[w])
    BY DEF GrowCommit, Idle, LInv, Local
  <2>2. task[w].kind \in {"grow", "reinstate"} /\ task[w].kind \in OrderKinds
    BY <2>1 DEF GrowLocal, OrderKinds
  <2>3. P \subseteq Own(s)
    BY <2>1 DEF LInv, IInv, WorkOK, Sane, Idle
  <2> QED
    BY <2>1, <2>2, <2>3, OrderKnown DEF SeenBy, Own, Slot, GrowLocal
<1>2. P \cap Ordered(s) = {} /\ vou' = vou
  BY <1>1 DEF Ordered, GrowCommit
<1>3. CASE UNCHANGED <<pos, vou, status, redeemed>>
  BY <1>1, <1>2, <1>3 DEF OrdersStay
<1>4. CASE /\ ~(P \cap vou # {} /\ redeemed >= MaxUsages)
           /\ pos' = [p \in Slot |-> IF p \in P THEN "ordered" ELSE pos[p]]
           /\ Redeem(Cardinality(P \cap vou)) /\ Resave(w, "n")
  <2>1. PICK st \in {"n", "p"} : status' = [status EXCEPT ![s] = st]
    BY <1>1, <1>4 DEF Resave
  <2>2. status'[s] = st
    BY <2>1 DEF LInv, IInv, RowsOK
  <2>3. Ordered(s)' = Ordered(s) \cup P
    BY <1>1, <1>4 DEF Ordered
  <2>4. Becomes(s, Ordered(s) \cup P, st, redeemed + Cardinality(P \cap vou))
    BY <1>4, <2>2, <2>3 DEF Becomes, Redeem
  <2>5. redeemed \in Nat
    BY DEF LInv, IInv
  <2> QED
    BY <1>1, <1>2, <1>4, <2>4, <2>5, NumbersAssumption
<1> QED
  BY <1>3, <1>4 DEF GrowCommit

LEMMA EndFacts ==
    ASSUME LInv, NEW w \in Worker, NEW s \in Session, s = task[w].s, CheckoutEnd(w), ~task[w].bad
    PROVE  /\ status[s] = "none" /\ Ordered(s) = {} /\ task[w].want \subseteq Own(s)
           /\ task[w].want \subseteq At("valid") /\ task[w].want \cap vou = task[w].want \cap task[w].vou
           /\ pos' = [p \in Slot |-> IF p \in task[w].want THEN "ordered" ELSE pos[p]]
           /\ vou' = vou
           /\ \E st \in {"n", "p"} :
                Becomes(s, task[w].want, st, redeemed + Cardinality(task[w].want \cap vou))
<1> DEFINE t == task[w]
<1>1. CheckLocal(t) /\ t.todo = {} /\ t.want \subseteq Own(s) /\ Own(s) \subseteq Slot
  BY DEF CheckoutEnd, LInv, Local, IInv, WorkOK, Sane, Own, Slot
<1>2. Ordered(s) = {} /\ status[s] = "none"
  BY <1>1, Owner DEF CheckLocal, Ordered, LInv, IInv, RowsOK
<1>3. t.want \subseteq At("valid") /\ t.want \cap vou = t.want \cap t.vou
  BY <1>1 DEF CheckLocal, At
<1>4. /\ pos' = [p \in Slot |-> IF p \in t.want THEN "ordered" ELSE pos[p]]
      /\ vou' = vou \cup (t.want \cap t.vou) /\ redeemed' = redeemed + Cardinality(t.want \cap t.vou)
      /\ \E st \in {"n", "p"} : status' = [status EXCEPT ![s] = st]
  BY DEF CheckoutEnd, Redeem
<1>5. PICK st \in {"n", "p"} : status'[s] = st
  BY <1>4 DEF LInv, IInv, RowsOK
<1>6. Ordered(s)' = t.want
  BY <1>1, <1>2, <1>4 DEF Ordered
<1>7. vou' = vou
  BY <1>3, <1>4
<1>8. Becomes(s, t.want, st, redeemed + Cardinality(t.want \cap vou))
  BY <1>3, <1>4, <1>5, <1>6 DEF Becomes
<1> QED
  BY <1>1, <1>2, <1>3, <1>4, <1>7, <1>8

-----------------------------------------------------------------------------
(* Usages redeemed by orders                                                 *)

\* The positions of all orders but one, and those of that one.
LEMMA OrderParts ==
    ASSUME LInv, NEW w \in Worker, Aside(w), NEW s \in Session, s = task[w].s, NEW S
    PROVE  \E A \in SUBSET Slot :
             /\ A \cap Own(s) = {}
             /\ OrderedIn(S) = A \cup (IF status[s] \in S THEN Ordered(s) ELSE {})
             /\ OrderedIn(S)' = A \cup (IF status'[s] \in S THEN Ordered(s)' ELSE {})
<1> DEFINE A == {p \in Slot : pos[p] = "ordered" /\ status[p[1]] \in S /\ p[1] # s}
<1>1. Ordered(s) = {p \in Slot : p[1] = s /\ pos[p] = "ordered"} /\ Own(s) \subseteq Slot
  BY Owner DEF Ordered, Own, Slot
<1>2. Ordered(s)' = {p \in Slot : p[1] = s /\ pos'[p] = "ordered"}
  BY <1>1, Owner DEF Ordered
<1>3. \A p \in Slot : p[1] # s => pos'[p] = pos[p] /\ status'[p[1]] = status[p[1]]
  BY Owner DEF Aside
<1>4. A \cap Own(s) = {} /\ A \in SUBSET Slot
  BY <1>1, Owner
<1>5. OrderedIn(S) = A \cup (IF status[s] \in S THEN Ordered(s) ELSE {})
  BY <1>1 DEF OrderedIn
<1>6. OrderedIn(S)' = A \cup (IF status'[s] \in S THEN Ordered(s)' ELSE {})
  BY <1>2, <1>3 DEF OrderedIn
<1> QED
  BY <1>4, <1>5, <1>6

LEMMA CountParts ==
    ASSUME NEW A, NEW B, A \subseteq Slot, B \subseteq Slot, A \cap B = {}, NEW V
    PROVE  /\ Cardinality(V \cap A) \in Nat /\ Cardinality(V \cap B) \in Nat
           /\ Cardinality(V \cap (A \cup B)) = Cardinality(V \cap A) + Cardinality(V \cap B)
<1>1. V \cap A \subseteq Slot /\ V \cap B \subseteq Slot /\ (V \cap A) \cap (V \cap B) = {}
      /\ V \cap (A \cup B) = (V \cap A) \cup (V \cap B)
  OBVIOUS
<1> QED
  BY <1>1, Together

\* An order whose positions are counted has them counted beside the others.
Live == {"n", "p", "e"}
LEMMA CountedBy ==
    ASSUME LInv, NEW w \in Worker, Aside(w), vou' = vou, NEW s \in Session, s = task[w].s, VoucherCounted
    PROVE  \E r \in Nat :
             /\ redeemed = r + (IF status[s] \in Live THEN VouchersOf(s) ELSE 0)
             /\ VouchersOf(s) \in Nat
             /\ \A P, st, n : /\ Becomes(s, P, st, n) /\ P \subseteq Own(s)
                              /\ n = r + (IF st \in Live THEN Cardinality(P \cap vou) ELSE 0)
                              => VoucherCounted'
<1>1. PICK A \in SUBSET Slot :
             /\ A \cap Own(s) = {}
             /\ OrderedIn(Live) = A \cup (IF status[s] \in Live THEN Ordered(s) ELSE {})
             /\ OrderedIn(Live)' = A \cup (IF status'[s] \in Live THEN Ordered(s)' ELSE {})
  BY OrderParts
<1> DEFINE r == Cardinality(vou \cap A)
<1>2. Own(s) \subseteq Slot /\ Ordered(s) \subseteq Own(s) /\ A \cap {} = {} /\ {} \subseteq Slot /\ vou \cap {} = {}
      /\ vou \cap Ordered(s) = Ordered(s) \cap vou
  BY DEF Own, Slot, Ordered
<1>3. ASSUME NEW P, P \subseteq Own(s), NEW b \in BOOLEAN
      PROVE  /\ Cardinality(vou \cap (A \cup (IF b THEN P ELSE {}))) = r + (IF b THEN Cardinality(P \cap vou) ELSE 0)
             /\ r \in Nat /\ Cardinality(P \cap vou) \in Nat
  <2>1. A \cap P = {} /\ P \subseteq Slot /\ vou \cap P = P \cap vou /\ A \subseteq Slot /\ A \cup {} = A
    BY <1>1, <1>2, <1>3
  <2>2. r \in Nat /\ Cardinality(vou \cap P) \in Nat /\ Cardinality(vou \cap (A \cup P)) = r + Cardinality(vou \cap P)
    BY <2>1, CountParts
  <2> HIDE DEF r
  <2>3. CASE b
    BY <2>1, <2>2, <2>3
  <2>4. CASE ~b
    <3>1. Cardinality(vou \cap A) = r
      BY DEF r
    <3>2. vou \cap (A \cup (IF b THEN P ELSE {})) = vou \cap A /\ (IF b THEN Cardinality(P \cap vou) ELSE 0) = 0
      BY <2>4
    <3>3. Cardinality(vou \cap (A \cup (IF b THEN P ELSE {}))) = r
      BY <3>1, <3>2
    <3>4. Cardinality(P \cap vou) = Cardinality(vou \cap P)
      BY <2>1
    <3> QED
      BY <2>2, <3>2, <3>3, <3>4
  <2> QED
    BY <2>3, <2>4
<1>4. /\ redeemed = r + (IF status[s] \in Live THEN VouchersOf(s) ELSE 0)
      /\ r \in Nat /\ VouchersOf(s) \in Nat
  <2>1. redeemed = Cardinality(vou \cap OrderedIn(Live))
    BY DEF VoucherCounted, Live
  <2> HIDE DEF r
  <2> DEFINE b == status[s] \in Live
  <2>2. b \in BOOLEAN
    OBVIOUS
  <2>3. OrderedIn(Live) = A \cup (IF b THEN Ordered(s) ELSE {})
    BY <1>1
  <2> HIDE DEF b
  <2>4. /\ Cardinality(vou \cap (A \cup (IF b THEN Ordered(s) ELSE {}))) = r + (IF b THEN VouchersOf(s) ELSE 0)
        /\ r \in Nat /\ VouchersOf(s) \in Nat
    BY <1>2, <1>3, <2>2 DEF VouchersOf
  <2> QED
    BY <2>1, <2>3, <2>4 DEF b
<1>5. ASSUME NEW P, NEW st, NEW n, Becomes(s, P, st, n), P \subseteq Own(s),
             n = r + (IF st \in Live THEN Cardinality(P \cap vou) ELSE 0)
      PROVE  VoucherCounted'
  <2> HIDE DEF r
  <2> DEFINE b == st \in Live
  <2>1. b \in BOOLEAN
    OBVIOUS
  <2>2. vou' \cap OrderedIn(Live)' = vou \cap (A \cup (IF b THEN P ELSE {}))
    BY <1>1, <1>5 DEF Becomes
  <2>3. redeemed' = r + (IF b THEN Cardinality(P \cap vou) ELSE 0)
    BY <1>5 DEF Becomes
  <2> HIDE DEF b
  <2>4. Cardinality(vou \cap (A \cup (IF b THEN P ELSE {}))) = r + (IF b THEN Cardinality(P \cap vou) ELSE 0)
    BY <1>3, <1>5, <2>1
  <2>5. redeemed' = Cardinality(vou' \cap OrderedIn(Live)')
    BY <2>2, <2>3, <2>4
  <2> QED
    BY <2>5 DEF VoucherCounted, Live
<1> HIDE DEF r
<1> QED
  BY <1>4, <1>5

\* Steps of no order change neither side.
LEMMA CountedStays == ASSUME LInv, OrdersStay, VoucherCounted PROVE VoucherCounted'
<1>1. OrderedIn(Live)' = OrderedIn(Live)
  BY StaysIn
<1>2. vou' \cap OrderedIn(Live) = vou \cap OrderedIn(Live)
  BY DEF OrdersStay, OrderedIn
<1>3. redeemed' = redeemed
  BY DEF OrdersStay
<1>4. redeemed' = Cardinality(vou' \cap OrderedIn(Live)')
  BY <1>1, <1>2, <1>3 DEF VoucherCounted, Live
<1> QED
  BY <1>4 DEF VoucherCounted, Live

\* One step: what an order redeems or gives back is what its positions count.
LEMMA CountedStep ==
    ASSUME LInv, Asked, "extendAny" \notin Ops, [Next]_vars, VoucherCounted
    PROVE  VoucherCounted'
<1>1. CASE OrdersStay
  BY <1>1, CountedStays
<1>2. ASSUME NEW w \in Worker, Act(w), ~OrdersStay PROVE VoucherCounted'
  <2> DEFINE s == task[w].s
  <2>0. ~CartCommit(w) /\ ~CheckPosition(w) /\ ~CheckoutBegin(w) /\ ~CartRefuse(w) /\ ~GrowOrder(w) /\ ~Refuse(w)
        /\ (CheckoutEnd(w) => ~task[w].bad)
    BY <1>2, CartStays, CheckStays, RestStays
  <2>1. ~Idle(w)
    BY <1>2, <2>0 DEF Act, Idle, CheckoutEnd, ExpireOrder, ExtendOrder, PayOrder, CancelOrder, ReactivateOrder,
       GrowCommit, ShrinkOrder, AtWork
  <2>2. s \in Session /\ redeemed \in Nat /\ Ordered(s) \subseteq Own(s) /\ Own(s) \subseteq Slot
    BY <2>1 DEF LInv, IInv, WorkOK, Task, Idle, Ordered, Own, Slot
  <2>3. Aside(w) /\ vou' = vou
    <3>1. vou' = vou
      <4>1. CASE CheckoutEnd(w)
        BY <2>0, <2>2, <4>1, EndFacts
      <4>2. CASE ~CheckoutEnd(w)
        BY <1>2, <2>0, <4>2 DEF Act, ExpireOrder, ExtendOrder, PayOrder, CancelOrder, ReactivateOrder,
           GrowCommit, ShrinkOrder, Refuse
      <4> QED
        BY <4>1, <4>2
    <3> QED
      BY <1>2, <2>0, <3>1, OrderAside DEF Act
  <2>4. PICK r \in Nat :
             /\ redeemed = r + (IF status[s] \in Live THEN VouchersOf(s) ELSE 0)
             /\ VouchersOf(s) \in Nat
             /\ \A P, st, n : /\ Becomes(s, P, st, n) /\ P \subseteq Own(s)
                              /\ n = r + (IF st \in Live THEN Cardinality(P \cap vou) ELSE 0)
                              => VoucherCounted'
    BY <2>2, <2>3, CountedBy
  <2>5. VouchersOf(s) = Cardinality(Ordered(s) \cap vou)
    BY DEF VouchersOf
  <2> HIDE DEF s
  <2>6. ASSUME NEW st \in Live, status[s] \in Live, Becomes(s, Ordered(s), st, redeemed) PROVE VoucherCounted'
    BY <2>2, <2>4, <2>5, <2>6
  <2>7. CASE ExpireOrder(w)
    BY <2>0, <2>2, <2>6, <2>7, SetFacts DEF s, Live
  <2>8. CASE ExtendOrder(w)
    <3>1. task[w].kind # "extendAny"
      BY <2>1 DEF Asked
    <3> QED
      BY <2>0, <2>2, <2>6, <2>8, <3>1, SetFacts DEF s, Live
  <2>9. CASE PayOrder(w)
    BY <2>0, <2>2, <2>6, <2>9, SetFacts DEF s, Live
  <2>10. CASE ReactivateOrder(w)
    <3>1. status[s] = "c" /\ \E st \in {"n", "p"} : Becomes(s, Ordered(s), st, redeemed + VouchersOf(s))
      BY <2>0, <2>2, <2>10, SetFacts DEF s
    <3>2. PICK st \in {"n", "p"} : Becomes(s, Ordered(s), st, redeemed + VouchersOf(s))
      BY <3>1
    <3>3. redeemed = r /\ st \in Live
      BY <2>4, <3>1 DEF Live
    <3> QED
      BY <2>2, <2>4, <2>5, <3>2, <3>3
  <2>11. CASE CancelOrder(w)
    <3>1. /\ status[s] \in Live
          /\ \/ Becomes(s, Ordered(s), "c", NonNeg(redeemed - VouchersOf(s)))
             \/ Becomes(s, {}, "p", NonNeg(redeemed - VouchersOf(s)))
      BY <2>0, <2>2, <2>11, CancelFacts DEF s, Live
    <3>2. NonNeg(redeemed - VouchersOf(s)) = r
      BY <2>2, <2>4, <3>1 DEF NonNeg
    <3>3. Cardinality({} \cap vou) = 0 /\ {} \subseteq Own(s)
      BY FS_EmptySet
    <3>4. CASE Becomes(s, Ordered(s), "c", r)
      <4>1. r = r + (IF "c" \in Live THEN Cardinality(Ordered(s) \cap vou) ELSE 0)
        BY DEF Live
      <4> QED
        BY <2>2, <2>4, <3>4, <4>1, Zenon
    <3>5. CASE Becomes(s, {}, "p", r)
      <4>1. r = r + (IF "p" \in Live THEN Cardinality({} \cap vou) ELSE 0)
        BY <3>3
      <4>2. ASSUME NEW E, E = {} PROVE VoucherCounted'
        <5>1. Becomes(s, E, "p", r) /\ E \subseteq Own(s)
              /\ r = r + (IF "p" \in Live THEN Cardinality(E \cap vou) ELSE 0)
          BY <3>5, <4>1, <4>2
        <5> QED
          BY <2>4, <5>1, Zenon
      <4> QED
        BY <4>2
    <3> QED
      BY <3>1, <3>2, <3>4, <3>5
  <2>12. CASE ShrinkOrder(w)
    <3>1. /\ status[s] \in Live
          /\ \E P \in SUBSET Ordered(s), st \in Live :
               Becomes(s, Ordered(s) \ P, st, NonNeg(redeemed - Cardinality(P \cap vou)))
      BY <2>2, <2>12, ShrinkFacts DEF s, Live
    <3>2. PICK P \in SUBSET Ordered(s), st \in Live :
               Becomes(s, Ordered(s) \ P, st, NonNeg(redeemed - Cardinality(P \cap vou)))
      BY <3>1
    <3>3. /\ P \cap vou \subseteq Ordered(s) \cap vou /\ Ordered(s) \cap vou \subseteq Slot
          /\ (Ordered(s) \cap vou) \ (P \cap vou) = (Ordered(s) \ P) \cap vou
      BY <2>2
    <3>4. /\ Cardinality(P \cap vou) \in Nat /\ Cardinality((Ordered(s) \ P) \cap vou) \in Nat
          /\ VouchersOf(s) = Cardinality(P \cap vou) + Cardinality((Ordered(s) \ P) \cap vou)
      BY <2>5, <3>3, Without
    <3>5. NonNeg(redeemed - Cardinality(P \cap vou)) = r + Cardinality((Ordered(s) \ P) \cap vou)
      BY <2>2, <2>4, <3>1, <3>4 DEF NonNeg
    <3>6. Ordered(s) \ P \subseteq Own(s)
      BY <2>2
    <3> QED
      BY <2>4, <3>2, <3>5, <3>6
  <2>13. CASE GrowCommit(w)
    <3> DEFINE P == task[w].want
    <3>1. /\ status[s] \in Live /\ P \subseteq Own(s) /\ P \cap Ordered(s) = {}
          /\ \E st \in Live : Becomes(s, Ordered(s) \cup P, st, redeemed + Cardinality(P \cap vou))
      BY <1>2, <2>2, <2>13, GrowFacts DEF s, Live
    <3>2. PICK st \in Live : Becomes(s, Ordered(s) \cup P, st, redeemed + Cardinality(P \cap vou))
      BY <3>1
    <3> HIDE DEF P
    <3>3. /\ Cardinality(vou \cap P) \in Nat
          /\ Cardinality(vou \cap (Ordered(s) \cup P)) = Cardinality(vou \cap Ordered(s)) + Cardinality(vou \cap P)
      BY <2>2, <3>1, CountParts
    <3>4. /\ Cardinality(vou \cap P) = Cardinality(P \cap vou)
          /\ Cardinality(vou \cap Ordered(s)) = VouchersOf(s)
          /\ Cardinality(vou \cap (Ordered(s) \cup P)) = Cardinality((Ordered(s) \cup P) \cap vou)
      <4>1. vou \cap P = P \cap vou /\ vou \cap Ordered(s) = Ordered(s) \cap vou
            /\ vou \cap (Ordered(s) \cup P) = (Ordered(s) \cup P) \cap vou
        OBVIOUS
      <4> QED
        BY <2>5, <4>1
    <3>5. redeemed + Cardinality(P \cap vou) = r + Cardinality((Ordered(s) \cup P) \cap vou)
      BY <2>4, <3>1, <3>3, <3>4
    <3>6. Ordered(s) \cup P \subseteq Own(s)
      BY <2>2, <3>1
    <3> QED
      BY <2>4, <3>2, <3>5, <3>6
  <2>14. CASE CheckoutEnd(w)
    <3>1. /\ status[s] = "none" /\ task[w].want \subseteq Own(s)
          /\ \E st \in Live : Becomes(s, task[w].want, st, redeemed + Cardinality(task[w].want \cap vou))
      BY <2>0, <2>2, <2>14, EndFacts DEF s, Live
    <3>2. redeemed = r
      BY <2>4, <3>1 DEF Live
    <3> QED
      BY <2>4, <3>1, <3>2
  <2> QED
    BY <1>2, <2>0, <2>7, <2>8, <2>9, <2>10, <2>11, <2>12, <2>13, <2>14 DEF Act
<1> QED
  BY <1>1, <1>2, RestStays DEF Next

\* The voucher counts the positions of all orders that were not canceled, where the requests of
\* a cart or order do not overlap and canceled orders are not extended.
THEOREM VoucherIsCounted ==
    ASSUME ~Overlap, "extendAny" \notin Ops
    PROVE  Spec => []VoucherCounted
<1>1. Init => VoucherCounted
  <2> SUFFICES ASSUME Init PROVE VoucherCounted
    OBVIOUS
  <2>1. vou \cap OrderedIn({"n", "p", "e"}) = {} /\ redeemed = 0
    BY DEF Init
  <2> QED
    BY <2>1, FS_EmptySet DEF VoucherCounted
<1>2. LInv /\ Asked /\ VoucherCounted /\ [Next]_vars => VoucherCounted'
  BY CountedStep
<1> QED
  BY <1>1, <1>2, AskedInvariant, PTL DEF Spec

-----------------------------------------------------------------------------
(* The limit of the voucher                                                  *)

\* Who takes the lock, and who gives it back.
LEMMA LockMoves ==
    ASSUME LInv, [Next]_vars
    PROVE  \/ lock' = lock
           \/ \E x \in Worker : lock = None /\ lock' = x /\ (CheckoutBegin(x) \/ GrowOrder(x))
           \/ \E x \in Worker : lock = x /\ lock' = None /\ pc'[x] = "idle"
<1>1. CASE UNCHANGED lock
  BY <1>1
<1>2. ASSUME NEW x \in Worker, CheckoutEnd(x)
      PROVE  lock = x /\ lock' = None /\ pc'[x] = "idle"
  <2>1. pc'[x] = "idle"
    BY <1>2, OrderAside
  <2> QED
    BY <1>2, <2>1 DEF CheckoutEnd, LInv, IInv, WorkOK
<1>3. ASSUME NEW x \in Worker, GrowCommit(x) \/ Abandon(x)
      PROVE  lock' = lock \/ (lock = x /\ lock' = None /\ pc'[x] = "idle")
  <2>1. pc'[x] = "idle"
    BY <1>3, OrderAside
  <2> QED
    BY <1>3, <2>1 DEF GrowCommit, Abandon, LockWithout
<1>4. ASSUME NEW x \in Worker, CheckoutBegin(x) \/ GrowOrder(x)
      PROVE  lock' = lock \/ (lock = None /\ lock' = x /\ (CheckoutBegin(x) \/ GrowOrder(x)))
  BY <1>4 DEF CheckoutBegin, GrowOrder, Refuse
<1>5. ASSUME NEW x \in Worker,
             \/ CartCommit(x) \/ CartRefuse(x) \/ CheckPosition(x) \/ ExpireOrder(x) \/ ExtendOrder(x) \/ PayOrder(x)
             \/ CancelOrder(x) \/ ReactivateOrder(x) \/ ShrinkOrder(x)
      PROVE  lock' = lock
  BY <1>5 DEF CartCommit, CartWrite, CartRefuse, CheckPosition, ExpireOrder, ExtendOrder, PayOrder, CancelOrder,
     ReactivateOrder, ShrinkOrder, Refuse
<1>6. ASSUME NEW x \in Worker, NEW s \in Session, Plan(x, s) PROVE lock' = lock
  BY <1>6 DEF Plan, PlanAdd, PlanRemove, PlanAddons, PlanVoucher, PlanCheckout, PlanOrder, Start
<1> QED
  BY <1>1, <1>2, <1>3, <1>4, <1>5, <1>6 DEF Next, Act, Lapse, CleanUp, vars

\* The database lock is kept until the change of the order is committed.
Held == ~HasRedis => \A w \in Worker : pc[w] = "uncommitted" => lock = w

LEMMA HeldStep == ASSUME LInv, Held, [Next]_vars PROVE Held'
<1> SUFFICES ASSUME ~HasRedis, NEW w \in Worker, pc'[w] = "uncommitted" PROVE lock' = w
  BY DEF Held
<1>1. CASE GrowOrder(w)
  BY <1>1 DEF GrowOrder, Refuse, Finish, LInv, IInv, WorkOK
<1>2. CASE ~GrowOrder(w)
  <2>1. ~CheckPosition(w)
    BY DEF CheckPosition, LInv, IInv, WorkOK
  <2>2. pc[w] = "uncommitted"
    BY <1>2, <2>1, Moves
  <2>3. lock = w
    BY <2>2 DEF Held
  <2> QED
    BY <2>3, LockMoves, NobodyAssumption
<1> QED
  BY <1>1, <1>2

\* Checkout has found usages for all positions it has accepted so far.
Claim(t) == ~t.bad /\ (t.want \cap t.vou) \ t.todo # {} => VoucherPromisesKept
Claims == \A w \in Worker : pc[w] = "checking" => Claim(task[w])

\* As long as it has the lock nobody takes them away.
LEMMA ClaimsStep ==
    ASSUME LInv, Asked, Held, Claims, "reinstate" \in Ops => ~HasRedis, [Next]_vars
    PROVE  Claims'
<1> SUFFICES ASSUME NEW w \in Worker, pc'[w] = "checking",
                    ~task'[w].bad, (task'[w].want \cap task'[w].vou) \ task'[w].todo # {}
             PROVE  VoucherPromisesKept'
  BY DEF Claims, Claim
<1>1. ~CheckoutBegin(w) \/ task'[w].todo # task'[w].want
  OBVIOUS
<1>2. pc[w] = "checking" /\ (CheckPosition(w) \/ task'[w] = task[w])
  <2>1. ~GrowOrder(w) \/ pc'[w] # "uncommitted"
    OBVIOUS
  <2> QED
    BY <1>1, <2>1, Moves DEF CheckPosition
<1>3. ASSUME NEW x \in Worker PROVE ~ReactivateOrder(x) /\ ~(GrowCommit(x) /\ task[x].kind = "reinstate")
  <2>1. lock = w /\ lock # None
    BY <1>2, NobodyAssumption DEF LInv, IInv, WorkOK
  <2>2. GrowCommit(x) => pc[x] = "uncommitted" /\ ~Idle(x)
    BY DEF GrowCommit, Idle
  <2>3. ~(GrowCommit(x) /\ task[x].kind = "reinstate")
    BY <1>2, <2>1, <2>2 DEF Asked, Held
  <2> QED
    BY <2>1, <2>3 DEF ReactivateOrder
<1>4. VoucherPromisesKept => VoucherPromisesKept'
  BY <1>3, KeptStep
<1>5. CASE task'[w] = task[w]
  BY <1>2, <1>4, <1>5 DEF Claims, Claim
<1>6. CASE CheckPosition(w)
  <2>1. ~task[w].bad /\ task'[w].want = task[w].want /\ task'[w].vou = task[w].vou
    BY <1>6, CheckCases
  <2>2. CASE (task[w].want \cap task[w].vou) \ task'[w].todo = (task[w].want \cap task[w].vou) \ task[w].todo
    BY <1>2, <1>4, <2>1, <2>2 DEF Claims, Claim
  <2>3. CASE (task[w].want \cap task[w].vou) \ task'[w].todo # (task[w].want \cap task[w].vou) \ task[w].todo
    BY <1>6, <2>3, CheckUsages
  <2> QED
    BY <2>2, <2>3
<1> QED
  BY <1>2, <1>5, <1>6

\* The positions a customer ever bought with the voucher are not more than its usages.
Bought(s) == {p \in Own(s) : pos[p] \in {"ordered", "canceled"}}
BoughtOK == \A s \in Session : Cardinality(Bought(s) \cap vou) <= MaxUsages

\* The order is placed only if the voucher covers it.
LEMMA EndCovered ==
    ASSUME LInv, Claims, NEW w \in Worker, CheckoutEnd(w), ~task[w].bad
    PROVE  /\ Cardinality(task[w].want \cap vou) \in Nat
           /\ redeemed' = redeemed + Cardinality(task[w].want \cap vou)
           /\ Cardinality(task[w].want \cap vou) = 0 \/ redeemed' <= MaxUsages
<1> DEFINE t == task[w]
<1>0. /\ pc[w] = "checking" /\ t.todo = {} /\ ~t.bad /\ redeemed \in Nat /\ vou \subseteq Slot
      /\ t.s \in Session
  BY DEF CheckoutEnd, LInv, IInv, RowsOK, WorkOK, Task
<1>1. /\ t.want \cap vou = t.want \cap t.vou
      /\ redeemed' = redeemed + Cardinality(t.want \cap vou)
  BY <1>0, EndFacts DEF Becomes
<1>2. Cardinality(t.want \cap vou) \in Nat
  BY <1>0, Countable
<1>3. CASE t.want \cap t.vou = {}
  <2>1. Cardinality(t.want \cap vou) = 0
    BY <1>1, <1>3, FS_EmptySet
  <2> QED
    BY <1>1, <1>2, <2>1
<1>4. CASE t.want \cap t.vou # {}
  <2>1. VoucherPromisesKept
    BY <1>0, <1>4 DEF Claims, Claim
  <2>2. VoucherPromisesKept'
    BY <2>1, EndUsages
  <2>3. VoucherInCarts({})' \in Nat
    <3>1. ((At("valid") \cap vou) \ {})' \subseteq Slot
      BY DEF At
    <3> QED
      BY <3>1, Countable DEF VoucherInCarts
  <2> QED
    BY <1>0, <1>1, <1>2, <2>2, <2>3, NumbersAssumption DEF VoucherPromisesKept
<1> QED
  BY <1>3, <1>4

LEMMA EndWithin ==
    ASSUME LInv, Claims, VoucherWithinLimit, NEW w \in Worker, CheckoutEnd(w), ~task[w].bad
    PROVE  redeemed' <= MaxUsages /\ Cardinality(task[w].want \cap vou) \in Nat
  BY EndCovered DEF VoucherWithinLimit, LInv, IInv

LEMMA BoughtStep ==
    ASSUME LInv, Claims, VoucherWithinLimit, BoughtOK, [Next]_vars
    PROVE  BoughtOK'
<1>0. redeemed \in Nat /\ vou \subseteq {p \in Slot : pos[p] # "none"} /\ \A s \in Session : Own(s) \subseteq Slot
  BY DEF LInv, IInv, RowsOK, Own, Slot
<1>1. ASSUME NEW s \in Session, Bought(s)' \cap vou' \subseteq Bought(s) \cap vou
      PROVE  Cardinality(Bought(s)' \cap vou') <= MaxUsages
  <2>1. Bought(s) \cap vou \subseteq Slot
    BY <1>0
  <2>2. /\ Cardinality(Bought(s)' \cap vou') \in Nat /\ Cardinality(Bought(s) \cap vou) \in Nat
        /\ Cardinality(Bought(s)' \cap vou') <= Cardinality(Bought(s) \cap vou)
    BY <1>1, <2>1, Fewer
  <2> QED
    BY <2>2, NumbersAssumption DEF BoughtOK
<1>2. CASE OrdersStay
  <2>1. \A s \in Session : Bought(s)' \cap vou' \subseteq Bought(s) \cap vou
    BY <1>0, <1>2 DEF OrdersStay, Bought, Own
  <2> QED
    BY <1>1, <2>1 DEF BoughtOK
<1>3. ASSUME NEW w \in Worker, CheckoutEnd(w), ~task[w].bad PROVE BoughtOK'
  <2>1. task[w].s \in Session
    BY <1>3 DEF CheckoutEnd, LInv, IInv, WorkOK, Task
  <2> PICK s \in Session : s = task[w].s
    BY <2>1
  <2> DEFINE P == task[w].want
  <2>2. /\ P \subseteq Own(s) /\ vou' = vou /\ status[s] = "none"
        /\ pos' = [p \in Slot |-> IF p \in P THEN "ordered" ELSE pos[p]]
        /\ redeemed' = redeemed + Cardinality(P \cap vou)
    BY <1>3, <2>1, EndFacts DEF Becomes
  <2>3. Cardinality(P \cap vou) <= MaxUsages
    <3>1. redeemed' <= MaxUsages /\ Cardinality(P \cap vou) \in Nat
      BY <1>3, EndWithin
    <3> HIDE DEF P
    <3> QED
      BY <1>0, <2>2, <3>1, NumbersAssumption
  <2>4. Bought(s)' = P
    <3>1. \A p \in Own(s) : pos[p] \notin {"ordered", "canceled"}
      BY <1>0, <2>1, <2>2, Owner DEF LInv, IInv, RowsOK
    <3>2. Own(s) \subseteq Slot
      BY <1>0, <2>1
    <3> HIDE DEF P
    <3>3. \A p \in Own(s) : pos'[p] \in {"ordered", "canceled"} <=> p \in P
      BY <2>2, <3>1, <3>2
    <3>4. Bought(s)' = {p \in Own(s) : pos'[p] \in {"ordered", "canceled"}}
      BY DEF Bought, Own
    <3> QED
      BY <2>2, <3>3, <3>4
  <2> HIDE DEF P
  <2>5. ASSUME NEW r \in Session, r # s PROVE Bought(r)' \cap vou' \subseteq Bought(r) \cap vou
    <3>1. \A p \in Own(r) : p \notin P /\ p \in Slot
      BY <1>0, <2>2, <2>5, Owner
    <3> QED
      BY <2>2, <3>1 DEF Bought
  <2>6. ASSUME NEW r \in Session PROVE Cardinality(Bought(r)' \cap vou') <= MaxUsages
    <3>1. CASE r = s
      BY <2>2, <2>3, <2>4, <3>1
    <3>2. CASE r # s
      BY <1>1, <2>5, <3>2
    <3> QED
      BY <3>1, <3>2
  <2> QED
    BY <2>6 DEF BoughtOK
<1>4. ASSUME NEW w \in Worker, GrowCommit(w) PROVE BoughtOK'
  <2>1. task[w].s \in Session
    BY <1>4 DEF GrowCommit, LInv, IInv, WorkOK, Task
  <2>2. CASE pos' = pos /\ vou' = vou
    BY <1>1, <2>2 DEF Bought, BoughtOK
  <2>3. CASE /\ vou' = vou /\ \A p \in task[w].want : pos[p] \in {"none", "canceled"}
             /\ pos' = [p \in Slot |-> IF p \in task[w].want THEN "ordered" ELSE pos[p]]
    <3>1. \A s \in Session : Bought(s)' \cap vou' \subseteq Bought(s) \cap vou
      BY <1>0, <2>3 DEF Bought, Own
    <3> QED
      BY <1>1, <3>1 DEF BoughtOK
  <2> QED
    BY <1>4, <2>1, <2>2, <2>3, GrowFacts
<1>5. ASSUME NEW w \in Worker,
             \/ ExpireOrder(w) \/ ExtendOrder(w) \/ PayOrder(w) \/ CancelOrder(w) \/ ShrinkOrder(w) \/ ReactivateOrder(w)
      PROVE  BoughtOK'
  <2>1. vou' = vou
    BY <1>5, OrderUsages
  <2>2. pos' = pos \/ \E P \in SUBSET Ordered(task[w].s) : pos' = [p \in Slot |-> IF p \in P THEN "canceled" ELSE pos[p]]
    BY <1>5 DEF ExpireOrder, ExtendOrder, PayOrder, CancelOrder, ReactivateOrder, ShrinkOrder, Refuse, Withdraw
  <2>3. \A s \in Session : Bought(s)' \cap vou' \subseteq Bought(s) \cap vou
    BY <1>0, <2>1, <2>2 DEF Bought, Own, Ordered
  <2> QED
    BY <1>1, <2>3 DEF BoughtOK
<1>6. ASSUME NEW w \in Worker, Act(w) PROVE BoughtOK'
  <2>1. CartCommit(w) \/ CheckPosition(w) \/ CheckoutBegin(w) \/ CartRefuse(w) \/ GrowOrder(w)
        \/ (CheckoutEnd(w) /\ task[w].bad) => OrdersStay
    BY CartStays, CheckStays, RestStays
  <2> QED
    BY <1>2, <1>3, <1>4, <1>5, <1>6, <2>1 DEF Act
<1> QED
  BY <1>2, <1>6, RestStays DEF Next

\* One step: whoever redeems usages has made sure of them.
LEMMA WithinStep ==
    ASSUME LInv, Asked, Claims, BoughtOK, "reinstate" \in Ops => MaxUsages <= 1, VoucherWithinLimit, [Next]_vars
    PROVE  VoucherWithinLimit'
<1>0. redeemed \in Nat /\ vou \subseteq {p \in Slot : pos[p] # "none"}
  BY DEF LInv, IInv, RowsOK
<1>1. ASSUME redeemed' \in Nat, redeemed' <= redeemed PROVE VoucherWithinLimit'
  BY <1>0, <1>1, NumbersAssumption DEF VoucherWithinLimit
<1>2. CASE OrdersStay
  BY <1>0, <1>1, <1>2 DEF OrdersStay
<1>3. ASSUME NEW w \in Worker, CheckoutEnd(w), ~task[w].bad PROVE VoucherWithinLimit'
  BY <1>3, EndWithin DEF VoucherWithinLimit
<1>4. ASSUME NEW w \in Worker, GrowCommit(w), ~OrdersStay PROVE VoucherWithinLimit'
  <2>1. task[w].s \in Session /\ task[w].kind \in {"grow", "reinstate"} /\ task[w].kind \in Ops
    BY <1>4 DEF GrowCommit, LInv, IInv, WorkOK, Task, Local, GrowLocal, Asked, Idle
  <2> PICK s \in Session : s = task[w].s
    BY <2>1
  <2> DEFINE P == task[w].want
  <2>2. CASE task[w].kind = "grow"
    BY <1>0, <1>1, <1>4, <2>2, GrowUsages
  <2>3. CASE task[w].kind = "reinstate"
    <3>1. /\ P \subseteq Own(s) /\ \A p \in P : pos[p] \in {"none", "canceled"}
          /\ redeemed' = redeemed + Cardinality(P \cap vou)
          /\ P \cap vou = {} \/ redeemed < MaxUsages
      BY <1>4, GrowFacts DEF Becomes
    <3> HIDE DEF P
    <3>2. P \cap vou \subseteq Bought(s) \cap vou /\ Bought(s) \cap vou \subseteq Slot
      BY <1>0, <3>1 DEF Bought
    <3>3. /\ Cardinality(P \cap vou) \in Nat /\ Cardinality(Bought(s) \cap vou) \in Nat
          /\ Cardinality(P \cap vou) <= Cardinality(Bought(s) \cap vou)
      BY <3>2, Fewer
    <3>4. CASE P \cap vou = {}
      <4>1. Cardinality(P \cap vou) = 0
        BY <3>4, FS_EmptySet
      <4> QED
        BY <1>0, <1>1, <3>1, <4>1
    <3>5. CASE redeemed < MaxUsages
      <4>1. MaxUsages <= 1 /\ redeemed = 0 /\ Cardinality(Bought(s) \cap vou) <= MaxUsages
        BY <1>0, <2>1, <2>3, <3>5, NumbersAssumption DEF BoughtOK
      <4> QED
        BY <3>1, <3>3, <4>1, NumbersAssumption DEF VoucherWithinLimit
    <3> QED
      BY <3>1, <3>4, <3>5
  <2> QED
    BY <2>1, <2>2, <2>3
<1>5. ASSUME NEW w \in Worker, ReactivateOrder(w) PROVE VoucherWithinLimit'
  <2>1. CASE UNCHANGED redeemed
    BY <1>0, <1>1, <2>1
  <2>2. CASE ~UNCHANGED redeemed
    BY <1>5, <2>2 DEF ReactivateOrder, Refuse, Redeem, UsagesLeft, VoucherWithinLimit
  <2> QED
    BY <2>1, <2>2
<1>6. ASSUME NEW w \in Worker,
             \/ ExpireOrder(w) \/ ExtendOrder(w) \/ PayOrder(w) \/ CancelOrder(w) \/ ShrinkOrder(w)
      PROVE  VoucherWithinLimit'
  <2>1. redeemed' = redeemed \/ ~ReactivateOrder(w)
    BY <1>6 DEF ReactivateOrder, ExpireOrder, ExtendOrder, PayOrder, CancelOrder, ShrinkOrder, AtWork
  <2> QED
    BY <1>0, <1>1, <1>6, <2>1, OrderUsages
<1>7. ASSUME NEW w \in Worker, Act(w) PROVE VoucherWithinLimit'
  <2>1. CartCommit(w) \/ CheckPosition(w) \/ CheckoutBegin(w) \/ CartRefuse(w) \/ GrowOrder(w)
        \/ (CheckoutEnd(w) /\ task[w].bad) => OrdersStay
    BY CartStays, CheckStays, RestStays
  <2> QED
    BY <1>2, <1>3, <1>4, <1>5, <1>6, <1>7, <2>1 DEF Act
<1> QED
  BY <1>2, <1>7, RestStays DEF Next

\* What checkout has been promised stays, where canceled positions are reinstated under the
\* database lock, which is kept until the commit.
LEMMA ClaimsInvariant ==
    ASSUME ~Overlap, "reinstate" \in Ops => ~HasRedis
    PROVE  Spec => [](LInv /\ Asked /\ Held /\ Claims)
<1>1. Init => Held /\ Claims
  BY DEF Init, Held, Claims
<1>2. LInv /\ Asked /\ Held /\ Claims /\ [Next]_vars => Held' /\ Claims'
  BY HeldStep, ClaimsStep
<1> QED
  BY <1>1, <1>2, AskedInvariant, PTL DEF Spec

\* The voucher is not used more often than it may be, whatever happens to orders: where requests
\* for one cart or order do not overlap and, if positions are reinstated, it is under the database
\* lock and a voucher that can be used once.
THEOREM VoucherIsWithinLimit ==
    ASSUME ~Overlap, "reinstate" \in Ops => ~HasRedis /\ MaxUsages <= 1
    PROVE  Spec => []VoucherWithinLimit
<1>1. Init => VoucherWithinLimit /\ BoughtOK
  <2> SUFFICES ASSUME Init PROVE VoucherWithinLimit /\ BoughtOK
    OBVIOUS
  <2>1. \A s \in Session : Bought(s) \cap vou = {}
    BY DEF Init
  <2>2. \A s \in Session : Cardinality(Bought(s) \cap vou) = 0
    BY <2>1, FS_EmptySet
  <2> QED
    BY <2>2, NumbersAssumption DEF Init, VoucherWithinLimit, BoughtOK
<1>2. LInv /\ Asked /\ Claims /\ VoucherWithinLimit /\ BoughtOK /\ [Next]_vars => VoucherWithinLimit' /\ BoughtOK'
  BY WithinStep, BoughtStep
<1> QED
  BY <1>1, <1>2, ClaimsInvariant, PTL DEF Spec

-----------------------------------------------------------------------------
(* The quota                                                                 *)

\* Unexpired reservations that no blocking voucher covers.
Uncovered == At("valid") \ (IF Blocking THEN vou ELSE {})
Taking == {"n", "p"}

LEMMA UseTypes ==
    ASSUME redeemed \in Nat
    PROVE  OrderUse \in Nat /\ VoucherUse \in Nat /\ CartUse \in Nat /\ Used \in Nat
           /\ CartUse = Cardinality(Uncovered) /\ Uncovered \subseteq Slot
           /\ (NoOverbooking => Availability = Size - Used)
<1>1. OrderedIn({"n", "p"}) \subseteq Slot /\ Uncovered \subseteq Slot
  BY DEF OrderedIn, Uncovered, At
<1>2. OrderUse \in Nat
  BY <1>1, Countable DEF OrderUse
<1>3. CartUse = Cardinality(Uncovered) /\ CartUse \in Nat
  BY <1>1, Countable DEF CartUse, Uncovered
<1>4. VoucherUse \in Nat
  BY NumbersAssumption DEF VoucherUse, NonNeg
<1> QED
  BY <1>1, <1>2, <1>3, <1>4, NumbersAssumption DEF Used, NoOverbooking, Availability, NonNeg

\* What a blocking voucher of which n usages are redeemed holds back.
HeldBack(n) == IF Blocking THEN NonNeg(MaxUsages - n) ELSE 0

LEMMA VoucherUseIs == VoucherUse = HeldBack(redeemed) /\ VoucherUse' = HeldBack(redeemed')
  BY DEF VoucherUse, HeldBack

\* It goes down with every usage that it has left.
LEMMA HeldBackFacts ==
    ASSUME NEW m \in Nat, NEW n \in Nat
    PROVE  /\ HeldBack(m) \in Nat /\ HeldBack(n) \in Nat
           /\ n >= m => HeldBack(n) <= HeldBack(m)
           /\ \A k \in Nat : m <= n + k => HeldBack(n) <= HeldBack(m) + (IF Blocking THEN k ELSE 0)
           /\ \A k \in Nat : n = m + k /\ (k = 0 \/ n <= MaxUsages)
                              => HeldBack(n) + (IF Blocking THEN k ELSE 0) = HeldBack(m)
<1>1. CASE Blocking
  BY <1>1, NumbersAssumption DEF HeldBack, NonNeg
<1>2. CASE ~Blocking
  BY <1>2 DEF HeldBack
<1> QED
  BY <1>1, <1>2

\* The same of the next state.
LEMMA UseTypesNext ==
    ASSUME redeemed' \in Nat
    PROVE  OrderUse' \in Nat /\ VoucherUse' \in Nat /\ CartUse' \in Nat /\ Used' = OrderUse' + VoucherUse' + CartUse'
           /\ CartUse' = Cardinality(Uncovered') /\ Uncovered' \subseteq Slot
<1>1. OrderedIn({"n", "p"})' \subseteq Slot /\ Uncovered' \subseteq Slot
  BY DEF OrderedIn, Uncovered, At
<1>2. OrderUse' \in Nat
  BY <1>1, Countable DEF OrderUse
<1>3. CartUse' = Cardinality(Uncovered') /\ CartUse' \in Nat
  BY <1>1, Countable DEF CartUse, Uncovered
<1>4. VoucherUse' \in Nat
  BY VoucherUseIs, HeldBackFacts
<1> QED
  BY <1>1, <1>2, <1>3, <1>4 DEF Used

\* Carts that reserve no more than before.
LEMMA CartUseFalls ==
    ASSUME Uncovered' \subseteq Uncovered PROVE CartUse' <= CartUse
<1>1. Uncovered \subseteq Slot /\ CartUse = Cardinality(Uncovered) /\ CartUse' = Cardinality(Uncovered')
  BY DEF Uncovered, At, CartUse
<1> QED
  BY <1>1, Fewer

LEMMA VoucherUseBy ==
    ASSUME redeemed \in Nat, redeemed' \in Nat
    PROVE  /\ redeemed' >= redeemed => VoucherUse' <= VoucherUse
           /\ \A k \in Nat : redeemed <= redeemed' + k => VoucherUse' <= VoucherUse + (IF Blocking THEN k ELSE 0)
           /\ \A k \in Nat : redeemed' = redeemed + k /\ (k = 0 \/ redeemed' <= MaxUsages)
                              => VoucherUse' + (IF Blocking THEN k ELSE 0) = VoucherUse
  BY VoucherUseIs, HeldBackFacts

\* The positions of one order beside those of the others.
LEMMA UsedBy ==
    ASSUME LInv, NEW w \in Worker, Aside(w), NEW s \in Session, s = task[w].s
    PROVE  \E a \in Nat :
             /\ OrderUse = a + (IF status[s] \in Taking THEN Cardinality(Ordered(s)) ELSE 0)
             /\ Cardinality(Ordered(s)) \in Nat
             /\ \A P, st, n : Becomes(s, P, st, n) /\ P \subseteq Own(s) =>
                  /\ Cardinality(P) \in Nat
                  /\ OrderUse' = a + (IF st \in Taking THEN Cardinality(P) ELSE 0)
<1>1. PICK A \in SUBSET Slot :
             /\ A \cap Own(s) = {}
             /\ OrderedIn(Taking) = A \cup (IF status[s] \in Taking THEN Ordered(s) ELSE {})
             /\ OrderedIn(Taking)' = A \cup (IF status'[s] \in Taking THEN Ordered(s)' ELSE {})
  BY OrderParts
<1>2. Own(s) \subseteq Slot /\ Ordered(s) \subseteq Own(s)
  BY DEF Own, Slot, Ordered
<1>3. ASSUME NEW P, P \subseteq Own(s)
      PROVE  /\ Cardinality(A) \in Nat /\ Cardinality(P) \in Nat
             /\ Cardinality(A \cup P) = Cardinality(A) + Cardinality(P)
  <2>1. A \cap P = {} /\ P \subseteq Slot /\ A \subseteq Slot
    BY <1>1, <1>2, <1>3
  <2> QED
    BY <2>1, Together
<1>4. A \cup {} = A
  OBVIOUS
<1>5. /\ OrderUse = Cardinality(A) + (IF status[s] \in Taking THEN Cardinality(Ordered(s)) ELSE 0)
      /\ Cardinality(A) \in Nat /\ Cardinality(Ordered(s)) \in Nat
  <2>1. OrderUse = Cardinality(OrderedIn(Taking))
    BY DEF OrderUse, Taking
  <2>2. CASE status[s] \in Taking
    BY <1>1, <1>2, <1>3, <2>1, <2>2
  <2>3. CASE status[s] \notin Taking
    <3>1. OrderUse = Cardinality(A)
      BY <1>1, <1>4, <2>1, <2>3
    <3>2. Cardinality(A) \in Nat /\ Cardinality(Ordered(s)) \in Nat
      BY <1>2, <1>3
    <3> QED
      BY <2>3, <3>1, <3>2
  <2> QED
    BY <2>2, <2>3
<1>6. ASSUME NEW P, NEW st, NEW n, Becomes(s, P, st, n), P \subseteq Own(s)
      PROVE  /\ Cardinality(P) \in Nat
             /\ OrderUse' = Cardinality(A) + (IF st \in Taking THEN Cardinality(P) ELSE 0)
  <2>1. OrderUse' = Cardinality(OrderedIn(Taking)')
    BY DEF OrderUse, Taking
  <2>2. CASE st \in Taking
    <3>1. OrderedIn(Taking)' = A \cup P
      BY <1>1, <1>6, <2>2 DEF Becomes
    <3> QED
      BY <1>3, <1>6, <2>1, <2>2, <3>1
  <2>3. CASE st \notin Taking
    <3>1. OrderedIn(Taking)' = A
      BY <1>1, <1>4, <1>6, <2>3 DEF Becomes
    <3>2. Cardinality(A) \in Nat /\ Cardinality(P) \in Nat
      BY <1>3, <1>6
    <3> QED
      BY <2>1, <2>3, <3>1, <3>2
  <2> QED
    BY <2>2, <2>3
<1> QED
  BY <1>5, <1>6

\* A cart request reserves no more than what is free, and nothing if it needs no lock.
LEMMA CartFits ==
    ASSUME LInv, Asked, Blocking => {"remove", "setAddons"} \cap Ops = {}, NEW w \in Worker, CartCommit(w)
    PROVE  CartUse' <= CartUse + Availability /\ (~NeedsLock(task[w]) => CartUse' <= CartUse)
<1> DEFINE t == task[w]
<1>1. /\ t \in Task /\ CartLocal(t) /\ redeemed \in Nat
      /\ Blocking => t.del = {}
  BY DEF CartCommit, LInv, IInv, WorkOK, Local, Asked, Idle
<1>2. PICK keep, new : CartFacts(t, keep, new)
  BY CartEffect
<1>3. t.ext \subseteq Slot /\ t.del \subseteq Slot /\ t.add \in Nat /\ new \subseteq Slot
  BY <1>1, <1>2, NumbersAssumption DEF Task, CartFacts, Fresh, Own, Slot
<1> DEFINE D == {p \in t.del \cap t.valid : pos[p] # "expired"}
           K == keep \cap ExtQuota(t)
           N == IF t.v /\ Blocking THEN {} ELSE new
<1>4. D \subseteq Uncovered
  BY <1>1, <1>3 DEF CartLocal, Uncovered, At
<1>5. Uncovered' \subseteq (Uncovered \ D) \cup (K \cup N)
  <2> SUFFICES ASSUME NEW p \in Slot, pos'[p] = "valid", ~(Blocking /\ p \in vou')
               PROVE  p \in (Uncovered \ D) \cup (K \cup N)
    BY DEF Uncovered, At
  <2>1. p \notin Gone(t, keep)
    BY <1>2 DEF CartFacts
  <2>2. p \notin D
    BY <1>1, <2>1 DEF CartLocal, Gone, InCart
  <2>3. CASE p \in keep
    <3>1. Blocking => p \notin t.vou
      BY <1>2, <2>3 DEF CartFacts
    <3>2. p \in ExtQuota(t)
      BY <1>2, <2>3, <3>1 DEF CartFacts, ExtQuota
    <3> QED
      BY <2>3, <3>2
  <2>4. CASE p \in new
    <3>1. ~(t.v /\ Blocking)
      BY <1>2, <2>4 DEF CartFacts
    <3> QED
      BY <2>4, <3>1
  <2>5. CASE p \notin keep \cup new
    <3>1. pos[p] = "valid"
      BY <1>2, <2>1, <2>5 DEF CartFacts
    <3>2. Blocking => p \notin vou
      BY <1>2, <2>1, <2>5 DEF CartFacts
    <3> QED
      BY <2>2, <3>1, <3>2 DEF Uncovered, At
  <2> QED
    BY <2>3, <2>4, <2>5
<1>6. /\ K \subseteq Slot /\ N \subseteq Slot /\ Uncovered \subseteq Slot /\ (K \cup N) \subseteq Slot
      /\ ExtQuota(t) \subseteq Slot /\ (Uncovered \ D) \subseteq Slot
  BY <1>3 DEF ExtQuota, Uncovered, At
<1>7. /\ Cardinality(K) \in Nat /\ Cardinality(N) \in Nat /\ Cardinality(D) \in Nat /\ Cardinality(Uncovered) \in Nat
      /\ Cardinality(Uncovered') \in Nat /\ Cardinality(ExtQuota(t)) \in Nat
      /\ Cardinality(Uncovered') <= Cardinality(Uncovered) - Cardinality(D) + Cardinality(K) + Cardinality(N)
  <2> HIDE DEF D, K, N, t
  <2>1. /\ Cardinality(Uncovered') \in Nat /\ Cardinality(Uncovered \ D) \in Nat /\ Cardinality(K \cup N) \in Nat
        /\ Cardinality(Uncovered') <= Cardinality(Uncovered \ D) + Cardinality(K \cup N)
    BY <1>5, <1>6, AtMost
  <2>2. /\ Cardinality(K) \in Nat /\ Cardinality(N) \in Nat
        /\ Cardinality(K \cup N) <= Cardinality(K) + Cardinality(N)
    BY <1>6, Together
  <2>3. /\ Cardinality(D) \in Nat /\ Cardinality(Uncovered) \in Nat
        /\ Cardinality(Uncovered) = Cardinality(D) + Cardinality(Uncovered \ D)
    BY <1>4, <1>6, Without
  <2>4. Cardinality(ExtQuota(t)) \in Nat
    BY <1>6, Countable
  <2> QED
    BY <2>1, <2>2, <2>3, <2>4
<1>8. /\ Granted(t) = Least(NonNeg(QuotaDiff(t)), Availability) + Cardinality(D)
      /\ Cardinality(K) = Least(Cardinality(ExtQuota(t)), Granted(t))
      /\ Cardinality(new) = IF AddQuota(t) = 0 THEN t.add ELSE Least(t.add, Granted(t) - Cardinality(K))
  BY <1>2 DEF Granted, CartFacts
<1>9. AddQuota(t) = (IF t.v /\ Blocking THEN 0 ELSE t.add) /\ (AddQuota(t) = 0 => N = {})
  <2>1. AddQuota(t) = (IF t.v /\ Blocking THEN 0 ELSE t.add)
    BY DEF AddQuota
  <2>2. CASE t.v /\ Blocking
    BY <2>1, <2>2
  <2>3. CASE ~(t.v /\ Blocking)
    BY <1>3, <1>8, <2>1, <2>3, Empty
  <2> QED
    BY <2>2, <2>3
<1>10. Availability \in Nat /\ CartUse = Cardinality(Uncovered) /\ CartUse' = Cardinality(Uncovered')
  BY <1>1, UseTypes, NumbersAssumption DEF Availability, NonNeg, Uncovered, CartUse
<1>11. Granted(t) \in Nat /\ Granted(t) <= Availability + Cardinality(D)
  <2> DEFINE L == Least(NonNeg(QuotaDiff(t)), Availability)
  <2>1. L \in Nat /\ L <= Availability
    <3>1. QuotaDiff(t) \in Int
      <4>1. t.del \cap t.valid \subseteq Slot
        BY <1>3
      <4>2. Cardinality(t.del \cap t.valid) \in Nat
        BY <4>1, Countable
      <4> QED
        BY <1>3, <1>7, <1>9, <4>2 DEF QuotaDiff
    <3>2. NonNeg(QuotaDiff(t)) \in Nat
      BY <3>1 DEF NonNeg
    <3> HIDE DEF t
    <3> QED
      BY <1>10, <3>2 DEF Least
  <2>2. Granted(t) = L + Cardinality(D) /\ Cardinality(D) \in Nat
    BY <1>7, <1>8
  <2> HIDE DEF t, D, L
  <2> QED
    BY <1>10, <2>1, <2>2
<1>12. Cardinality(N) = IF AddQuota(t) = 0 THEN 0 ELSE Cardinality(new)
  <2>1. CASE AddQuota(t) = 0
    BY <1>9, <2>1, FS_EmptySet
  <2>2. CASE AddQuota(t) # 0
    BY <1>9, <2>2
  <2> QED
    BY <2>1, <2>2
<1> HIDE DEF D, K, N, t
<1>13. Cardinality(K) + Cardinality(N) <= Granted(t)
  BY <1>3, <1>7, <1>8, <1>11, <1>12 DEF Least
<1>14. CartUse' <= CartUse + Availability
  BY <1>7, <1>10, <1>11, <1>13
<1>15. ASSUME ~NeedsLock(t) PROVE CartUse' <= CartUse
  <2>1. ExtQuota(t) = {} /\ AddQuota(t) = 0
    BY <1>3, <1>9, <1>15 DEF NeedsLock
  <2>2. K = {} /\ N = {}
    BY <1>9, <2>1 DEF K
  <2>3. Uncovered' \subseteq Uncovered
    BY <1>5, <2>2
  <2> QED
    BY <2>3, CartUseFalls
<1> QED
  BY <1>14, <1>15 DEF t

\* Checkout renews one expired position if there is a ticket left for it.
LEMMA CheckFits ==
    ASSUME LInv, NEW w \in Worker, CheckPosition(w)
    PROVE  CartUse' <= CartUse \/ (Availability > 0 /\ CartUse' <= CartUse + 1)
<1> DEFINE t == task[w]
<1>1. /\ pos \in [Slot -> {"none", "valid", "expired", "ordered", "canceled"}] /\ CheckLocal(t)
  BY DEF CheckPosition, LInv, IInv, RowsOK, Local
<1>2. PICK p \in t.todo :
        /\ p \in Slot
        /\ \/ UNCHANGED <<pos, vou>>
           \/ QuotaFree(t, p) /\ pos' = [pos EXCEPT ![p] = "valid"] /\ vou' = vou \cup (t.vou \cap {p})
           \/ pos' = [pos EXCEPT ![p] = "none"] /\ vou' = vou \ {p}
  BY CheckCases
<1>3. CASE Uncovered' \subseteq Uncovered
  BY <1>3, CartUseFalls
<1>4. CASE QuotaFree(t, p) /\ pos' = [pos EXCEPT ![p] = "valid"] /\ vou' = vou \cup (t.vou \cap {p})
  <2>1. CASE p \in t.valid
    <3>1. Uncovered' \subseteq Uncovered
      BY <1>1, <1>2, <1>4, <2>1 DEF CheckLocal, Uncovered, At
    <3> QED
      BY <1>3, <3>1
  <2>2. CASE p \in t.vou /\ Blocking
    <3>1. Uncovered' \subseteq Uncovered
      BY <1>1, <1>2, <1>4, <2>2 DEF Uncovered, At
    <3> QED
      BY <1>3, <3>1
  <2>3. CASE Availability > 0
    <3>1. Uncovered' \subseteq Uncovered \cup {p} /\ Uncovered \subseteq Slot
      BY <1>1, <1>2, <1>4 DEF Uncovered, At
    <3>2. Cardinality(Uncovered') <= Cardinality(Uncovered) + 1
      BY <1>2, <3>1, OneMore
    <3>3. CartUse = Cardinality(Uncovered) /\ CartUse' = Cardinality(Uncovered')
      BY DEF CartUse, Uncovered
    <3> QED
      BY <2>3, <3>2, <3>3
  <2> QED
    BY <1>4, <2>1, <2>2, <2>3 DEF QuotaFree
<1>5. CASE UNCHANGED <<pos, vou>> \/ (pos' = [pos EXCEPT ![p] = "none"] /\ vou' = vou \ {p})
  <2>1. Uncovered' \subseteq Uncovered
    BY <1>1, <1>2, <1>5 DEF Uncovered, At
  <2> QED
    BY <1>3, <2>1
<1> QED
  BY <1>2, <1>4, <1>5

\* Where the quota is kept to: the requests of a cart or order do not overlap; whatever adds
\* positions to orders keeps the lock until it commits; and where a voucher holds tickets back
\* there are enough of them, orders with positions that have lost theirs are not canceled, and
\* requests that remove positions from a cart do not pass on what these had.
QuotaGuarded ==
    /\ ~Overlap
    /\ HasRedis => {"grow", "reinstate"} \cap Ops = {}
    /\ Blocking => /\ MaxUsages <= Size
                   /\ ~({"cancel", "expire"} \subseteq Ops)
                   /\ {"remove", "setAddons"} \cap Ops = {}

\* Without "expire" no order expires.
NoneExpired == Blocking /\ "expire" \notin Ops => \A s \in Session : status[s] # "e"

\* Who is about to commit new positions still finds them free.
Room == \A w \in Worker : pc[w] = "uncommitted" => Availability >= Cardinality(task[w].want)

LEMMA StillUsed ==
    ASSUME OrdersStay PROVE OrderUse' = OrderUse /\ VoucherUse' = VoucherUse
<1>1. OrderedIn({"n", "p"})' = OrderedIn({"n", "p"})
  BY StaysIn
<1>2. OrderUse' = OrderUse
  BY <1>1 DEF OrderUse
<1>3. VoucherUse' = VoucherUse
  BY VoucherUseIs DEF OrdersStay
<1> QED
  BY <1>2, <1>3

\* A change of an order changes what orders and vouchers use; the carts stay.
LEMMA OrderUses ==
    ASSUME LInv, NEW w \in Worker, Aside(w), CartUse' = CartUse, redeemed' \in Nat, NEW s \in Session, s = task[w].s,
           NEW P, NEW st, NEW n, Becomes(s, P, st, n), P \subseteq Own(s)
    PROVE  /\ Cardinality(P) \in Nat /\ Cardinality(Ordered(s)) \in Nat /\ Used \in Nat /\ Used' \in Nat
           /\ Used' = Used + (IF st \in Taking THEN Cardinality(P) ELSE 0)
                           - (IF status[s] \in Taking THEN Cardinality(Ordered(s)) ELSE 0)
                           + VoucherUse' - VoucherUse
           /\ VoucherUse \in Nat /\ VoucherUse' \in Nat
<1>1. PICK a \in Nat :
             /\ OrderUse = a + (IF status[s] \in Taking THEN Cardinality(Ordered(s)) ELSE 0)
             /\ Cardinality(Ordered(s)) \in Nat
             /\ \A Q, x, m : Becomes(s, Q, x, m) /\ Q \subseteq Own(s) =>
                  /\ Cardinality(Q) \in Nat
                  /\ OrderUse' = a + (IF x \in Taking THEN Cardinality(Q) ELSE 0)
  BY UsedBy
<1>2. /\ Cardinality(P) \in Nat
      /\ OrderUse' = a + (IF st \in Taking THEN Cardinality(P) ELSE 0)
  BY <1>1
<1>3. /\ OrderUse \in Nat /\ VoucherUse \in Nat /\ CartUse \in Nat /\ Used = OrderUse + VoucherUse + CartUse
      /\ OrderUse' \in Nat /\ VoucherUse' \in Nat /\ Used' = OrderUse' + VoucherUse' + CartUse'
  BY UseTypes, UseTypesNext DEF LInv, IInv, Used
<1> DEFINE x == IF status[s] \in Taking THEN Cardinality(Ordered(s)) ELSE 0
           y == IF st \in Taking THEN Cardinality(P) ELSE 0
<1>4. x \in Nat /\ y \in Nat /\ OrderUse = a + x /\ OrderUse' = a + y /\ Cardinality(Ordered(s)) \in Nat
  BY <1>1, <1>2
<1> HIDE DEF x, y
<1>5. Used \in Nat /\ Used' \in Nat /\ Used' = Used + y - x + VoucherUse' - VoucherUse
  <2>1. PICK v \in Nat, u \in Nat, c \in Nat, i \in Nat, j \in Nat :
           v = VoucherUse /\ u = VoucherUse' /\ c = CartUse /\ i = x /\ j = y
    BY <1>3, <1>4
  <2>2. Used = a + i + v + c
    BY <1>3, <1>4, <2>1
  <2>3. Used' = a + j + u + c
    BY <1>3, <1>4, <2>1
  <2>4. Used \in Nat /\ Used' \in Nat /\ Used' = Used + j - i + u - v
    BY <2>2, <2>3
  <2> QED
    BY <2>1, <2>4
<1> QED
  BY <1>2, <1>3, <1>4, <1>5 DEF x, y

\* Requests that change orders.
LEMMA OrderFits ==
    ASSUME LInv, Asked, NoneExpired, NoOverbooking, QuotaGuarded, NEW w \in Worker, ~Refuse(w),
           \/ ExpireOrder(w) \/ ExtendOrder(w) \/ PayOrder(w) \/ CancelOrder(w) \/ ShrinkOrder(w) \/ ReactivateOrder(w)
    PROVE  Used' <= Used \/ (lock = None /\ Used' <= Size)
<1>1. task[w].s \in Session /\ redeemed \in Nat /\ ~Idle(w)
  <2>1. pc[w] = "planned"
    BY DEF ExpireOrder, ExtendOrder, PayOrder, CancelOrder, ReactivateOrder, ShrinkOrder, AtWork
  <2> QED
    BY <2>1 DEF LInv, IInv, WorkOK, Task, Idle
<1> PICK s \in Session : s = task[w].s
  BY <1>1
<1>2. Aside(w)
  BY OrderAside
<1>3. redeemed' \in Nat /\ At("valid")' = At("valid") /\ vou' = vou
  BY OrderUsages
<1>4. CartUse' = CartUse
  BY <1>3 DEF CartUse
<1>5. Ordered(s) \subseteq Own(s) /\ Own(s) \subseteq Slot /\ {} \subseteq Own(s)
  BY DEF Ordered, Own, Slot
<1>6. ASSUME NEW P, NEW st, NEW n, Becomes(s, P, st, n), P \subseteq Own(s)
      PROVE  /\ Cardinality(P) \in Nat /\ Cardinality(Ordered(s)) \in Nat /\ Used \in Nat /\ Used' \in Nat
             /\ Used' = Used + (IF st \in Taking THEN Cardinality(P) ELSE 0)
                             - (IF status[s] \in Taking THEN Cardinality(Ordered(s)) ELSE 0)
                             + VoucherUse' - VoucherUse
             /\ VoucherUse \in Nat /\ VoucherUse' \in Nat
  BY <1>2, <1>3, <1>4, <1>6, OrderUses
<1>7. Availability = Size - Used
  BY <1>1, UseTypes
<1>8. "n" \in Taking /\ "p" \in Taking /\ "e" \notin Taking /\ "c" \notin Taking
  BY DEF Taking
<1>9. ASSUME NEW st, Becomes(s, Ordered(s), st, redeemed), st \notin Taking \/ status[s] \in Taking
      PROVE  Used' <= Used
  <2>1. VoucherUse' = VoucherUse
    BY <1>9, VoucherUseIs DEF Becomes
  <2> QED
    BY <1>5, <1>6, <1>9, <2>1
\* the order had lost its tickets, and gets them back as there are enough left
<1>10. ASSUME NEW st, NEW n, Becomes(s, Ordered(s), st, n), n >= redeemed, StillAvailable(s), status[s] \notin Taking
       PROVE  Used' <= Size
  <2>1. Size - Used >= Cardinality(Ordered(s))
    BY <1>7, <1>10 DEF StillAvailable
  <2>2. VoucherUse' <= VoucherUse
    BY <1>1, <1>3, <1>10, VoucherUseBy DEF Becomes
  <2> QED
    BY <1>5, <1>6, <1>10, <2>1, <2>2, NumbersAssumption
<1>11. CASE ExpireOrder(w)
  BY <1>8, <1>9, <1>11, SetFacts
<1>12. CASE ExtendOrder(w)
  <2>1. Becomes(s, Ordered(s), "n", redeemed) /\ StillAvailable(s) /\ lock = None
    BY <1>12, SetFacts
  <2>2. CASE status[s] \in Taking
    BY <1>9, <2>1, <2>2
  <2>3. CASE status[s] \notin Taking
    BY <1>1, <1>10, <2>1, <2>3
  <2> QED
    BY <2>2, <2>3
<1>13. CASE PayOrder(w)
  <2>1. Becomes(s, Ordered(s), "p", redeemed) /\ (status[s] = "n" \/ (status[s] = "e" /\ StillAvailable(s) /\ lock = None))
    BY <1>13, SetFacts
  <2>2. CASE status[s] = "n"
    BY <1>8, <1>9, <2>1, <2>2
  <2>3. CASE status[s] # "n"
    BY <1>1, <1>8, <1>10, <2>1, <2>3
  <2> QED
    BY <2>2, <2>3
<1>14. CASE ReactivateOrder(w)
  <2>1. /\ \E st \in {"n", "p"} : Becomes(s, Ordered(s), st, redeemed + VouchersOf(s))
        /\ status[s] = "c" /\ StillAvailable(s) /\ lock = None
    BY <1>14, SetFacts
  <2>2. VouchersOf(s) \in Nat
    <3>1. Ordered(s) \cap vou \subseteq Slot
      BY <1>5
    <3> QED
      BY <3>1, Countable DEF VouchersOf
  <2> QED
    BY <1>1, <1>8, <1>10, <2>1, <2>2
<1>15. CASE CancelOrder(w)
  <2> DEFINE k == VouchersOf(s)
  <2>1. /\ status[s] \in {"n", "p", "e"}
        /\ \/ Becomes(s, Ordered(s), "c", NonNeg(redeemed - k))
           \/ Becomes(s, {}, "p", NonNeg(redeemed - k))
    BY <1>15, CancelFacts
  <2>2. k \in Nat /\ k <= Cardinality(Ordered(s)) /\ Cardinality(Ordered(s)) \in Nat
    <3>1. Ordered(s) \cap vou \subseteq Ordered(s) /\ Ordered(s) \subseteq Slot
      BY <1>5
    <3> QED
      BY <3>1, Fewer DEF VouchersOf
  <2>3. Cardinality({}) = 0
    BY FS_EmptySet
  <2>4. Blocking => status[s] \in Taking
    <3>1. "cancel" \in Ops
      BY <1>1, <1>15 DEF Asked, CancelOrder, AtWork
    <3> QED
      BY <2>1, <3>1 DEF QuotaGuarded, NoneExpired, Taking
  <2> HIDE DEF k
  <2>5. redeemed <= NonNeg(redeemed - k) + k /\ NonNeg(redeemed - k) \in Nat
    BY <1>1, <2>2 DEF NonNeg
  <2>6. redeemed' = NonNeg(redeemed - k)
    BY <2>1 DEF Becomes
  <2>7. VoucherUse' <= VoucherUse + (IF Blocking THEN k ELSE 0)
    BY <1>1, <1>3, <2>2, <2>5, <2>6, VoucherUseBy
  <2>8. Used' = Used - (IF status[s] \in Taking THEN Cardinality(Ordered(s)) ELSE 0) + VoucherUse' - VoucherUse
        /\ Used \in Nat /\ VoucherUse \in Nat /\ VoucherUse' \in Nat
    <3>1. CASE Becomes(s, Ordered(s), "c", NonNeg(redeemed - k))
      BY <1>5, <1>6, <1>8, <2>2, <3>1
    <3>2. CASE Becomes(s, {}, "p", NonNeg(redeemed - k))
      BY <1>5, <1>6, <1>8, <2>2, <2>3, <3>2
    <3> QED
      BY <2>1, <3>1, <3>2
  <2>9. Used' <= Used
    <3>1. CASE Blocking
      BY <2>2, <2>4, <2>7, <2>8, <3>1
    <3>2. CASE ~Blocking
      BY <2>2, <2>7, <2>8, <3>2
    <3> QED
      BY <3>1, <3>2
  <2> QED
    BY <2>9
<1>16. CASE ShrinkOrder(w)
  <2>1. /\ status[s] \in Taking
        /\ \E P \in SUBSET Ordered(s), st \in Taking :
             Becomes(s, Ordered(s) \ P, st, NonNeg(redeemed - Cardinality(P \cap vou)))
    BY <1>16, ShrinkFacts DEF Taking
  <2>2. PICK P \in SUBSET Ordered(s), st \in Taking :
             Becomes(s, Ordered(s) \ P, st, NonNeg(redeemed - Cardinality(P \cap vou)))
    BY <2>1
  <2> DEFINE k == Cardinality(P \cap vou)
             m == Cardinality(P)
  <2>3. k \in Nat /\ m \in Nat /\ k <= m
    <3>1. P \cap vou \subseteq P /\ P \subseteq Slot
      BY <1>5
    <3> QED
      BY <3>1, Fewer
  <2>4. /\ Cardinality(Ordered(s)) = m + Cardinality(Ordered(s) \ P)
        /\ Cardinality(Ordered(s) \ P) \in Nat
    <3>1. P \subseteq Ordered(s) /\ Ordered(s) \subseteq Slot
      BY <1>5
    <3> QED
      BY <3>1, Without
  <2>5. Becomes(s, Ordered(s) \ P, st, NonNeg(redeemed - k))
    BY <2>2
  <2> HIDE DEF k, m
  <2>6. redeemed <= NonNeg(redeemed - k) + k /\ redeemed' = NonNeg(redeemed - k)
    BY <1>1, <2>3, <2>5 DEF NonNeg, Becomes
  <2>7. VoucherUse' <= VoucherUse + (IF Blocking THEN k ELSE 0)
    BY <1>1, <1>3, <2>3, <2>6, VoucherUseBy
  <2>8. Ordered(s) \ P \subseteq Own(s)
    BY <1>5
  <2>9. Used' = Used + Cardinality(Ordered(s) \ P) - Cardinality(Ordered(s)) + VoucherUse' - VoucherUse
        /\ Used \in Nat /\ VoucherUse \in Nat /\ VoucherUse' \in Nat
    BY <1>6, <2>1, <2>5, <2>8
  <2> QED
    BY <2>3, <2>4, <2>7, <2>9
<1> QED
  BY <1>11, <1>12, <1>13, <1>14, <1>15, <1>16

\* Checkout turns reservations and usages into order positions, one for one.
LEMMA EndFits ==
    ASSUME LInv, Claims, NEW w \in Worker, CheckoutEnd(w), ~task[w].bad
    PROVE  Used' <= Used
<1>1. task[w].s \in Session /\ redeemed \in Nat /\ redeemed' \in Nat /\ task[w].want \subseteq Slot /\ Aside(w)
      /\ pos \in [Slot -> {"none", "valid", "expired", "ordered", "canceled"}]
  BY CheckoutEndStep, OrderAside DEF CheckoutEnd, LInv, IInv, RowsOK, WorkOK, Task
<1> PICK s \in Session : s = task[w].s
  BY <1>1
<1> DEFINE W == task[w].want
           B == IF Blocking THEN vou ELSE {}
           k == Cardinality(W \cap vou)
<1>2. /\ status[s] = "none" /\ W \subseteq Own(s) /\ W \subseteq At("valid") /\ vou' = vou
      /\ pos' = [p \in Slot |-> IF p \in W THEN "ordered" ELSE pos[p]]
      /\ \E st \in Taking : Becomes(s, W, st, redeemed + k)
  BY EndFacts DEF Taking
<1>3. k \in Nat /\ redeemed' = redeemed + k /\ (k = 0 \/ redeemed' <= MaxUsages)
  BY EndCovered
<1>4. VoucherUse' + (IF Blocking THEN k ELSE 0) = VoucherUse
  BY <1>1, <1>3, VoucherUseBy
<1>5. PICK a \in Nat :
             /\ OrderUse = a + (IF status[s] \in Taking THEN Cardinality(Ordered(s)) ELSE 0)
             /\ \A Q, x, m : Becomes(s, Q, x, m) /\ Q \subseteq Own(s) =>
                  /\ Cardinality(Q) \in Nat
                  /\ OrderUse' = a + (IF x \in Taking THEN Cardinality(Q) ELSE 0)
  BY <1>1, UsedBy
<1>6. OrderUse = a /\ Cardinality(W) \in Nat /\ OrderUse' = a + Cardinality(W)
  <2>1. "none" \notin Taking
    BY DEF Taking
  <2> HIDE DEF W, k
  <2> QED
    BY <1>2, <1>5, <2>1
<1>7. /\ CartUse = CartUse' + Cardinality(W \ B)
      /\ CartUse' \in Nat /\ Cardinality(W \ B) \in Nat
  <2>1. /\ W \ B \subseteq Uncovered /\ Uncovered \subseteq Slot
        /\ Uncovered' = Uncovered \ (W \ B)
    BY <1>1, <1>2 DEF Uncovered, At
  <2>2. CartUse = Cardinality(Uncovered) /\ CartUse' = Cardinality(Uncovered')
    BY DEF CartUse, Uncovered
  <2>3. /\ Cardinality(W \ B) \in Nat /\ Cardinality(Uncovered \ (W \ B)) \in Nat
        /\ Cardinality(Uncovered) = Cardinality(W \ B) + Cardinality(Uncovered \ (W \ B))
    BY <2>1, Without
  <2> QED
    BY <2>1, <2>2, <2>3
<1>8. Cardinality(W) = (IF Blocking THEN k ELSE 0) + Cardinality(W \ B)
  <2>1. CASE Blocking
    <3>1. W \cap vou \subseteq W /\ W \ (W \cap vou) = W \ B
      BY <2>1
    <3>2. Cardinality(W) = Cardinality(W \cap vou) + Cardinality(W \ (W \cap vou))
      BY <1>1, <3>1, Without
    <3> QED
      BY <2>1, <3>1, <3>2
  <2>2. CASE ~Blocking
    <3>1. W \ B = W
      BY <2>2
    <3> QED
      BY <1>6, <2>2, <3>1
  <2> QED
    BY <2>1, <2>2
<1>9. VoucherUse \in Nat /\ VoucherUse' \in Nat /\ Used = OrderUse + VoucherUse + CartUse
      /\ Used' = OrderUse' + VoucherUse' + CartUse'
  BY <1>1, UseTypes, UseTypesNext DEF Used
<1> DEFINE h == IF Blocking THEN k ELSE 0
<1>10. h \in Nat /\ VoucherUse' + h = VoucherUse /\ Cardinality(W) = h + Cardinality(W \ B)
  BY <1>3, <1>4, <1>8
<1> HIDE DEF h, W, B, k
<1>11. PICK u \in Nat, c \in Nat, i \in Nat, j \in Nat :
          u = VoucherUse' /\ c = CartUse' /\ i = h /\ j = Cardinality(W \ B)
  BY <1>7, <1>9, <1>10
<1>12. Used = a + (u + i) + (c + j) /\ Used' = (a + (i + j)) + u + c
  BY <1>6, <1>7, <1>9, <1>10, <1>11
<1> QED
  BY <1>12

\* New positions of an order find the tickets that were counted for them.
LEMMA GrowFits ==
    ASSUME LInv, Room, NoOverbooking, NEW w \in Worker, GrowCommit(w), ~OrdersStay
    PROVE  Used' <= Size
<1>1. /\ task[w].s \in Session /\ redeemed \in Nat /\ redeemed' \in Nat /\ task[w].want \subseteq Slot /\ Aside(w)
      /\ pos \in [Slot -> {"none", "valid", "expired", "ordered", "canceled"}] /\ pc[w] = "uncommitted"
  BY GrowCommitStep, OrderAside DEF GrowCommit, LInv, IInv, RowsOK, WorkOK, Task
<1> PICK s \in Session : s = task[w].s
  BY <1>1
<1> DEFINE P == task[w].want
           k == Cardinality(P \cap vou)
<1>2. /\ status[s] \in Taking /\ vou' = vou /\ P \subseteq Own(s) /\ P \cap Ordered(s) = {}
      /\ \A p \in P : pos[p] \in {"none", "canceled"}
      /\ pos' = [p \in Slot |-> IF p \in P THEN "ordered" ELSE pos[p]]
      /\ \E st \in Taking : Becomes(s, Ordered(s) \cup P, st, redeemed + k)
  BY GrowFacts DEF Taking
<1>3. CartUse' = CartUse
  <2>1. Uncovered' = Uncovered
    BY <1>1, <1>2 DEF Uncovered, At
  <2> QED
    BY <2>1 DEF CartUse, Uncovered
<1>4. PICK st \in Taking : Becomes(s, Ordered(s) \cup P, st, redeemed + k)
  BY <1>2
<1>5. Ordered(s) \subseteq Own(s) /\ Own(s) \subseteq Slot
  BY DEF Ordered, Own, Slot
<1>6. Availability >= Cardinality(P) /\ Availability = Size - Used
  BY <1>1, UseTypes DEF Room
<1> HIDE DEF P
<1>7. k \in Nat
  <2>1. P \cap vou \subseteq Slot
    BY <1>2, <1>5
  <2> QED
    BY <2>1, Countable
<1>8. Ordered(s) \cup P \subseteq Own(s) /\ redeemed' >= redeemed
  BY <1>1, <1>2, <1>4, <1>5, <1>7 DEF Becomes
<1> HIDE DEF k
<1>9. /\ Cardinality(Ordered(s)) \in Nat /\ Used \in Nat /\ Used' \in Nat
      /\ Used' = Used + Cardinality(Ordered(s) \cup P) - Cardinality(Ordered(s)) + VoucherUse' - VoucherUse
      /\ VoucherUse \in Nat /\ VoucherUse' \in Nat
  BY <1>1, <1>2, <1>3, <1>4, <1>8, OrderUses
<1>10. Cardinality(P) \in Nat /\ Cardinality(Ordered(s) \cup P) = Cardinality(Ordered(s)) + Cardinality(P)
  <2>1. Ordered(s) \subseteq Slot /\ P \subseteq Slot /\ Ordered(s) \cap P = {}
    BY <1>2, <1>5
  <2> QED
    BY <2>1, Together
<1>11. VoucherUse' <= VoucherUse
  BY <1>1, <1>8, VoucherUseBy
<1> QED
  BY <1>6, <1>9, <1>10, <1>11, NumbersAssumption

\* Who raises what is used has the lock, or finds it free.
LEMMA UseStep ==
    ASSUME LInv, Asked, Claims, NoneExpired, Room, NoOverbooking, QuotaGuarded, [Next]_vars
    PROVE  \/ Used' <= Used
           \/ Used' <= Size /\ lock = None
           \/ Used' <= Size /\ \E w \in Worker : lock = w /\ pc[w] = "checking"
           \/ Used' <= Size /\ \E w \in Worker : pc[w] = "uncommitted" /\ pc'[w] = "idle"
<1>0. /\ redeemed \in Nat /\ OrderUse \in Nat /\ VoucherUse \in Nat /\ CartUse \in Nat /\ Used \in Nat
      /\ Availability = Size - Used
      /\ Used = OrderUse + VoucherUse + CartUse /\ Used' = OrderUse' + VoucherUse' + CartUse'
  BY UseTypes DEF LInv, IInv, Used
<1>1. ASSUME OrdersStay, NEW d \in Nat, CartUse' <= CartUse + d, CartUse' \in Nat, d <= Availability
      PROVE  Used' <= Used + d /\ Used' <= Size
  <2>1. PICK o \in Nat, v \in Nat, c \in Nat, c1 \in Nat :
           o = OrderUse /\ v = VoucherUse /\ c = CartUse /\ c1 = CartUse'
    BY <1>0, <1>1
  <2>2. Used = o + v + c /\ Used' = o + v + c1 /\ c1 <= c + d /\ d <= Size - Used
    BY <1>0, <1>1, <2>1, StillUsed
  <2>3. d <= Size - (o + v + c)
    BY <2>2
  <2> QED
    BY <2>2, <2>3, NumbersAssumption
<1>2. ASSUME OrdersStay, CartUse' <= CartUse, CartUse' \in Nat PROVE Used' <= Used
  <2>1. PICK o \in Nat, v \in Nat, c \in Nat, c1 \in Nat :
           o = OrderUse /\ v = VoucherUse /\ c = CartUse /\ c1 = CartUse'
    BY <1>0, <1>2
  <2>2. Used = o + v + c /\ Used' = o + v + c1 /\ c1 <= c
    BY <1>0, <1>2, <2>1, StillUsed
  <2> QED
    BY <2>2
<1>3. CartUse' \in Nat
  <2>1. Uncovered' \subseteq Slot /\ CartUse' = Cardinality(Uncovered')
    BY DEF Uncovered, At, CartUse
  <2> QED
    BY <2>1, Countable
<1>4. ASSUME OrdersStay, Uncovered' \subseteq Uncovered PROVE Used' <= Used
  BY <1>2, <1>3, <1>4, CartUseFalls
<1>5. ASSUME UNCHANGED <<pos, vou, status, redeemed>> PROVE Used' <= Used
  <2>1. Uncovered' \subseteq Uncovered /\ OrdersStay
    BY <1>5 DEF Uncovered, At, OrdersStay
  <2> QED
    BY <2>1, <1>4
<1>6. CASE Lapse \/ CleanUp
  <2>1. pos \in [Slot -> {"none", "valid", "expired", "ordered", "canceled"}]
    BY DEF LInv, IInv, RowsOK
  <2>2. Uncovered' \subseteq Uncovered
    BY <1>6, <2>1 DEF Lapse, CleanUp, Uncovered, At
  <2> QED
    BY <1>4, <1>6, <2>2, RestStays
<1>7. ASSUME NEW w \in Worker, CartCommit(w) PROVE Used' <= Used \/ (Used' <= Size /\ lock = None)
  <2>1. CartUse' <= CartUse + Availability /\ (~NeedsLock(task[w]) => CartUse' <= CartUse)
    BY <1>7, CartFits DEF QuotaGuarded
  <2>2. OrdersStay /\ (NeedsLock(task[w]) => lock = None)
    BY <1>7, CartStays DEF CartCommit
  <2>3. CASE ~NeedsLock(task[w])
    BY <1>2, <1>3, <2>1, <2>2, <2>3
  <2>4. CASE NeedsLock(task[w])
    <3>1. Availability \in Nat /\ Availability <= Availability
      BY <1>0, NumbersAssumption DEF NoOverbooking
    <3>2. Used' <= Size
      BY <1>1, <1>3, <2>1, <2>2, <3>1
    <3> QED
      BY <2>2, <2>4, <3>2
  <2> QED
    BY <2>3, <2>4
<1>8. ASSUME NEW w \in Worker, CheckPosition(w)
      PROVE  Used' <= Used \/ (Used' <= Size /\ lock = w /\ pc[w] = "checking")
  <2>1. OrdersStay /\ lock = w /\ pc[w] = "checking"
    BY <1>8, CheckStays DEF CheckPosition, LInv, IInv, WorkOK
  <2>2. CASE CartUse' <= CartUse
    BY <1>2, <1>3, <2>1, <2>2
  <2>3. CASE Availability > 0 /\ CartUse' <= CartUse + 1
    <3>0. 1 \in Nat /\ 1 <= Availability
      BY <1>0, <2>3, NumbersAssumption
    <3>1. Used' <= Size
      BY <1>1, <1>3, <2>1, <2>3, <3>0
    <3> QED
      BY <2>1, <3>1
  <2> QED
    BY <1>8, <2>2, <2>3, CheckFits
<1>9. ASSUME NEW w \in Worker, CheckoutEnd(w) PROVE Used' <= Used
  <2>1. CASE task[w].bad
    BY <1>5, <1>9, <2>1, <1>4 DEF CheckoutEnd, Uncovered, At, OrdersStay
  <2>2. CASE ~task[w].bad
    BY <1>9, <2>2, EndFits
  <2> QED
    BY <2>1, <2>2
<1>10. ASSUME NEW w \in Worker, GrowCommit(w)
       PROVE  Used' <= Used \/ (Used' <= Size /\ pc[w] = "uncommitted" /\ pc'[w] = "idle")
  <2>1. pc[w] = "uncommitted" /\ pc'[w] = "idle"
    BY <1>10, OrderAside DEF GrowCommit
  <2>2. CASE OrdersStay
    <3>1. task[w].s \in Session
      BY <2>1 DEF LInv, IInv, WorkOK, Task
    <3>2. pos' = pos /\ vou' = vou
      <4>1. CASE pos' = pos
        BY <1>10, <4>1 DEF GrowCommit
      <4>2. CASE pos' # pos
        <5>1. PICK s \in Session : s = task[w].s
          BY <3>1
        <5>2. /\ task[w].want \subseteq Own(s) /\ \A p \in task[w].want : pos[p] \in {"none", "canceled"}
              /\ pos' = [p \in Slot |-> IF p \in task[w].want THEN "ordered" ELSE pos[p]]
          BY <1>10, <4>2, <5>1, GrowFacts
        <5>3. Own(s) \subseteq Slot /\ pos = [p \in Slot |-> pos[p]]
          BY DEF Own, Slot, LInv, IInv, RowsOK
        <5>4. \E p \in Slot : p \in task[w].want
          BY <4>2, <5>2, <5>3
        <5> QED
          BY <2>2, <5>2, <5>4 DEF OrdersStay
      <4> QED
        BY <4>1, <4>2
    <3>3. Uncovered' \subseteq Uncovered
      BY <2>2, <3>2 DEF Uncovered, At
    <3> QED
      BY <1>4, <2>2, <3>3
  <2>3. CASE ~OrdersStay
    BY <1>10, <2>1, <2>3, GrowFits
  <2> QED
    BY <2>2, <2>3
<1>11. ASSUME NEW w \in Worker, Act(w) \/ Abandon(w)
       PROVE  \/ Used' <= Used
              \/ Used' <= Size /\ lock = None
              \/ Used' <= Size /\ lock = w /\ pc[w] = "checking"
              \/ Used' <= Size /\ pc[w] = "uncommitted" /\ pc'[w] = "idle"
  <2>1. CASE CartRefuse(w) \/ CheckoutBegin(w) \/ Abandon(w) \/ GrowOrder(w) \/ Refuse(w)
    <3>1. UNCHANGED <<pos, vou, status, redeemed>>
      BY <2>1 DEF CartRefuse, CheckoutBegin, Abandon, GrowOrder, Refuse
    <3> QED
      BY <1>5, <3>1
  <2>2. CASE ~Refuse(w) /\ (\/ ExpireOrder(w) \/ ExtendOrder(w) \/ PayOrder(w) \/ CancelOrder(w)
                            \/ ShrinkOrder(w) \/ ReactivateOrder(w))
    BY <2>2, OrderFits
  <2> QED
    BY <1>7, <1>8, <1>9, <1>10, <1>11, <2>1, <2>2 DEF Act
<1>12. ASSUME NEW w \in Worker, NEW s \in Session, Plan(w, s) PROVE Used' <= Used
  <2>1. UNCHANGED <<pos, vou, status, redeemed>>
    BY <1>12 DEF Plan, PlanAdd, PlanRemove, PlanAddons, PlanVoucher, PlanCheckout, PlanOrder, Start
  <2> QED
    BY <1>5, <2>1
<1>13. CASE UNCHANGED vars
  BY <1>5, <1>13 DEF vars
<1> QED
  BY <1>6, <1>11, <1>12, <1>13 DEF Next

\* What was found free stays free until it is taken.
LEMMA RoomStep ==
    ASSUME LInv, Asked, Held, Claims, NoneExpired, Room, NoOverbooking, QuotaGuarded, [Next]_vars
    PROVE  Room'
<1> SUFFICES ASSUME NEW w \in Worker, pc'[w] = "uncommitted" PROVE Availability' >= Cardinality(task'[w].want)
  BY DEF Room
<1>0. /\ redeemed \in Nat /\ Used \in Nat /\ Availability = Size - Used
      /\ pc \in [Worker -> {"idle", "planned", "checking", "uncommitted"}] /\ task \in [Worker -> Task \cup {None}]
  BY UseTypes DEF LInv, IInv, WorkOK
<1>1. Used' \in Nat
  <2>1. redeemed' \in Nat
    BY LocalStep DEF LInv, IInv, QuotaGuarded
  <2> QED
    BY <2>1, UseTypesNext
<1>2. Availability' = NonNeg(Size - Used')
  BY DEF Availability
<1>3. CASE GrowOrder(w)
  <2>1. pc[w] = "planned" /\ task[w] \in Task
    BY <1>3 DEF GrowOrder, AtWork, LInv, IInv, WorkOK
  <2>2. PICK P : /\ Availability >= Cardinality(P)
                 /\ task' = [task EXCEPT ![w].want = P]
                 /\ UNCHANGED <<pos, vou, status, redeemed>>
    BY <1>0, <1>3, <2>1 DEF GrowOrder, Refuse, Finish
  <2>3. task'[w].want = P
    BY <1>0, <2>1, <2>2 DEF Task
  <2>4. Availability' = Availability
    BY <2>2 DEF Availability, Used, OrderUse, VoucherUse, CartUse, OrderedIn, At
  <2> QED
    BY <2>2, <2>3, <2>4
<1>4. CASE ~GrowOrder(w)
  <2>1. pc[w] = "uncommitted" /\ task'[w] = task[w]
    <3>1. ~CheckPosition(w)
      BY DEF CheckPosition
    <3> QED
      BY <1>4, <3>1, Moves
  <2>2. lock = w
    <3>1. task[w].kind \in {"grow", "reinstate"} /\ task[w].kind \in Ops
      BY <2>1 DEF LInv, Local, GrowLocal, Asked, Idle
    <3> QED
      BY <2>1, <3>1 DEF Held, QuotaGuarded
  <2>3. Used' <= Used
    <3>1. lock # None /\ ~\E x \in Worker : lock = x /\ pc[x] = "checking"
      BY <2>1, <2>2, NobodyAssumption
    <3>2. ASSUME NEW x \in Worker, pc[x] = "uncommitted", pc'[x] = "idle" PROVE FALSE
      <4>1. task[x].kind \in {"grow", "reinstate"} /\ task[x].kind \in Ops
        BY <3>2 DEF LInv, Local, GrowLocal, Asked, Idle
      <4>2. lock = x
        BY <3>2, <4>1 DEF Held, QuotaGuarded
      <4> QED
        BY <2>2, <3>2, <4>2
    <3> QED
      BY <3>1, <3>2, UseStep
  <2>4. Size - Used >= Cardinality(task[w].want)
    BY <1>0, <2>1 DEF Room
  <2>5. Cardinality(task[w].want) \in Nat
    <3>1. task[w].want \subseteq Slot
      BY <2>1 DEF LInv, IInv, WorkOK, Task
    <3> QED
      BY <3>1, Countable
  <2>6. PICK u \in Nat, u1 \in Nat, k \in Nat : u = Used /\ u1 = Used' /\ k = Cardinality(task[w].want)
    BY <1>0, <1>1, <2>5
  <2>7. u1 <= u /\ Size - u >= k
    BY <2>3, <2>4, <2>6
  <2>8. NonNeg(Size - u1) >= k
    BY <2>7, NumbersAssumption DEF NonNeg
  <2> QED
    BY <1>2, <2>1, <2>6, <2>8
<1> QED
  BY <1>3, <1>4

LEMMA NoneExpiredStep ==
    ASSUME LInv, Asked, NoneExpired, [Next]_vars PROVE NoneExpired'
<1> SUFFICES ASSUME Blocking, "expire" \notin Ops, NEW r \in Session PROVE status'[r] # "e"
  BY DEF NoneExpired
<1>1. status[r] # "e"
  BY DEF NoneExpired
<1>2. CASE OrdersStay
  BY <1>1, <1>2 DEF OrdersStay
<1>3. ASSUME NEW w \in Worker, Act(w), ~OrdersStay PROVE status'[r] # "e"
  <2>0. ~CartCommit(w) /\ ~CheckPosition(w) /\ ~CheckoutBegin(w) /\ ~CartRefuse(w) /\ ~GrowOrder(w) /\ ~Refuse(w)
        /\ (CheckoutEnd(w) => ~task[w].bad)
    BY <1>3, CartStays, CheckStays, RestStays
  <2>1. Aside(w) /\ ~Idle(w) /\ task[w].s \in Session
    <3>1. Aside(w)
      BY <1>3, <2>0, OrderAside DEF Act
    <3> QED
      BY <3>1 DEF Aside, LInv, IInv, WorkOK, Task, Idle
  <2>2. CASE r # task[w].s
    BY <1>1, <2>1, <2>2 DEF Aside
  <2>3. CASE r = task[w].s
    <3>1. ~ExpireOrder(w)
      BY <1>3, <2>1 DEF ExpireOrder, AtWork, Asked
    <3>2. CASE ExtendOrder(w) \/ PayOrder(w) \/ ReactivateOrder(w)
      BY <2>0, <2>3, <3>2, SetFacts DEF Becomes
    <3>3. CASE CancelOrder(w)
      BY <2>0, <2>3, <3>3, CancelFacts DEF Becomes
    <3>4. CASE ShrinkOrder(w)
      BY <2>0, <2>3, <3>4, ShrinkFacts DEF Becomes
    <3>5. CASE GrowCommit(w)
      BY <1>3, <2>3, <3>5, GrowFacts DEF Becomes
    <3>6. CASE CheckoutEnd(w)
      BY <2>0, <2>3, <3>6, EndFacts DEF Becomes
    <3> QED
      BY <1>3, <2>0, <3>1, <3>2, <3>3, <3>4, <3>5, <3>6 DEF Act
  <2> QED
    BY <2>2, <2>3
<1> QED
  BY <1>2, <1>3, RestStays DEF Next

LEMMA QuotaInvariant ==
    ASSUME QuotaGuarded
    PROVE  Spec => [](LInv /\ Asked /\ Held /\ Claims /\ NoneExpired /\ Room /\ NoOverbooking)
<1>1. Init => NoneExpired /\ Room /\ NoOverbooking
  <2> SUFFICES ASSUME Init PROVE NoneExpired /\ Room /\ NoOverbooking
    OBVIOUS
  <2>1. NoneExpired /\ Room
    BY DEF Init, NoneExpired, Room
  <2>2. OrderedIn({"n", "p"}) = {} /\ At("valid") \ (IF Blocking THEN vou ELSE {}) = {} /\ redeemed = 0
    BY DEF Init, OrderedIn, At
  <2>3. OrderUse = 0 /\ CartUse = 0
    BY <2>2, FS_EmptySet DEF OrderUse, CartUse
  <2>4. VoucherUse = IF Blocking THEN MaxUsages ELSE 0
    BY <2>2, NumbersAssumption DEF VoucherUse, NonNeg
  <2>5. NoOverbooking
    <3>1. CASE Blocking
      BY <2>3, <2>4, <3>1, NumbersAssumption DEF QuotaGuarded, NoOverbooking, Used
    <3>2. CASE ~Blocking
      BY <2>3, <2>4, <3>2, NumbersAssumption DEF NoOverbooking, Used
    <3> QED
      BY <3>1, <3>2
  <2> QED
    BY <2>1, <2>5
<1>2. LInv /\ Asked /\ Held /\ Claims /\ NoneExpired /\ Room /\ NoOverbooking /\ [Next]_vars
        => NoneExpired' /\ Room' /\ NoOverbooking'
  <2> SUFFICES ASSUME LInv, Asked, Held, Claims, NoneExpired, Room, NoOverbooking, [Next]_vars
               PROVE  NoneExpired' /\ Room' /\ NoOverbooking'
    OBVIOUS
  <2>1. redeemed \in Nat /\ redeemed' \in Nat
    BY LocalStep DEF LInv, IInv, QuotaGuarded
  <2>2. Used \in Nat /\ Used' \in Nat
    BY <2>1, UseTypes, UseTypesNext
  <2>3. Used' <= Size
    <3>1. CASE Used' <= Used
      BY <2>2, <3>1, NumbersAssumption DEF NoOverbooking
    <3>2. CASE ~(Used' <= Used)
      BY <3>2, UseStep
    <3> QED
      BY <3>1, <3>2
  <2> QED
    BY <2>3, NoneExpiredStep, RoomStep DEF NoOverbooking
<1>3. Spec => [](LInv /\ Asked /\ Held /\ Claims)
  BY ClaimsInvariant DEF QuotaGuarded
<1> QED
  BY <1>1, <1>2, <1>3, PTL DEF Spec

\* Orders, unexpired reservations and vouchers that hold tickets back never take more than the
\* quota has: in any event, of any size, with any number of customers and workers.
THEOREM QuotaIsKept ==
    ASSUME QuotaGuarded
    PROVE  Spec => []NoOverbooking
  BY QuotaInvariant, PTL

-----------------------------------------------------------------------------
(* The pool of tickets that TicketSales implements                           *)

\* A set has one size, here and there.
LEMMA OneSize == \A S : Pool!Cardinality(S) = Cardinality(S)
  BY DEF Pool!Cardinality, Cardinality, Pool!IsFiniteSet, IsFiniteSet

LEMMA FewerFit ==
    ASSUME NEW r, NEW s, NEW r1, NEW s1,
           r \subseteq Slot, s \subseteq Slot, r1 \subseteq r, s1 \subseteq s, Pool!Fits(r, s)
    PROVE  Pool!Fits(r1, s1)
<1>1. Cardinality(r1) <= Cardinality(r)
  BY Countable, FS_Subset
<1>2. Cardinality(s1) <= Cardinality(s)
  BY Countable, FS_Subset
<1>3. /\ Cardinality(r) \in Nat /\ Cardinality(s) \in Nat
      /\ Cardinality(r1) \in Nat /\ Cardinality(s1) \in Nat
  BY Countable
<1> QED
  BY <1>1, <1>2, <1>3, NumbersAssumption, OneSize DEF Pool!Fits

\* A reservation and what is bought with it count once.
LEMMA SoldFromReserved ==
    ASSUME NEW r, NEW s, NEW S,
           r \subseteq Slot, s \subseteq Slot, S \subseteq r, r \cap s = {}, Pool!Fits(r, s)
    PROVE  Pool!Fits(r \ S, s \cup S)
<1>1. /\ IsFiniteSet(r) /\ IsFiniteSet(s) /\ IsFiniteSet(S)
      /\ Cardinality(r) \in Nat /\ Cardinality(s) \in Nat /\ Cardinality(S) \in Nat
  BY Countable
<1>2. Cardinality(r \ S) = Cardinality(r) - Cardinality(S)
  <2>1. r \cap S = S
    OBVIOUS
  <2> QED
    BY <1>1, <2>1, FS_Difference
<1>3. Cardinality(s \cup S) = Cardinality(s) + Cardinality(S)
  <2>1. Cardinality(s \cap S) = 0
    <3>1. s \cap S = {}
      OBVIOUS
    <3> QED
      BY <3>1, FS_EmptySet
  <2>2. Cardinality(s \cup S) = Cardinality(s) + Cardinality(S) - Cardinality(s \cap S)
    BY <1>1, FS_Union
  <2> QED
    BY <1>1, <2>1, <2>2
<1> QED
  BY <1>1, <1>2, <1>3, NumbersAssumption, OneSize DEF Pool!Fits

\* Whatever is a pool never has more tickets out than there are.
THEOREM LimitIsKept == PoolSpec => [](Pool!TypeOK /\ Pool!LimitKept)
<1> DEFINE r == At("valid")
           s == OrderedIn({"n", "p"})
<1>1. Pool!Init => Pool!TypeOK /\ Pool!LimitKept
  BY FS_EmptySet, NumbersAssumption, OneSize DEF Pool!Init, Pool!TypeOK, Pool!LimitKept
<1>2. Pool!TypeOK /\ Pool!LimitKept /\ [Pool!Next]_(Pool!poolVars) => Pool!TypeOK' /\ Pool!LimitKept'
  <2> SUFFICES ASSUME Pool!TypeOK, Pool!LimitKept, [Pool!Next]_(Pool!poolVars)
               PROVE  Pool!TypeOK' /\ Pool!Fits(r', s')
    BY DEF Pool!LimitKept, Pool!Fits
  <2>0. Pool!Fits(r, s) /\ r \subseteq Slot /\ s \subseteq Slot \ r
    BY DEF Pool!LimitKept, Pool!Fits, Pool!TypeOK
  <2> SUFFICES (r' \subseteq Slot /\ s' \subseteq Slot \ r') /\ Pool!Fits(r', s')
    BY DEF Pool!TypeOK
  <2>1. CASE Pool!Drop
    <3>1. r' \subseteq r /\ s' = s
      BY <2>1 DEF Pool!Drop
    <3> HIDE DEF r, s
    <3> QED
      BY <2>0, <3>1, FewerFit
  <2>2. CASE Pool!Reserve
    <3>1. r' \subseteq Slot \ s /\ s' = s /\ Pool!Fits(r', s)
      BY <2>2 DEF Pool!Reserve
    <3> HIDE DEF r, s
    <3> QED
      BY <2>0, <3>1
  <2>3. CASE Pool!Sell
    <3>1. PICK S \in SUBSET r : r' = r \ S /\ s' = s \cup S
      BY <2>3 DEF Pool!Sell
    <3> HIDE DEF r, s
    <3>2. Pool!Fits(r \ S, s \cup S)
      BY <2>0, SoldFromReserved
    <3> QED
      BY <2>0, <3>1, <3>2
  <2>4. CASE Pool!Return
    <3>1. s' \subseteq s /\ r' = r
      BY <2>4 DEF Pool!Return
    <3> HIDE DEF r, s
    <3> QED
      BY <2>0, <3>1, FewerFit
  <2>5. CASE Pool!Revive
    <3>1. PICK S \in SUBSET (Slot \ (r \cup s)) : Pool!Fits(r, s \cup S) /\ s' = s \cup S /\ r' = r
      BY <2>5 DEF Pool!Revive
    <3> HIDE DEF r, s
    <3> QED
      BY <2>0, <3>1
  <2>6. CASE UNCHANGED Pool!poolVars
    <3>1. r' = r /\ s' = s
      BY <2>6 DEF Pool!poolVars
    <3> HIDE DEF r, s
    <3> QED
      BY <2>0, <3>1
  <2> QED
    BY <2>1, <2>2, <2>3, <2>4, <2>5, <2>6 DEF Pool!Next
<1> QED
  BY <1>1, <1>2, PTL DEF PoolSpec, Pool!Spec

\* Without a blocking voucher what fits the quota fits the pool.
LEMMA FitsIs ==
    ASSUME ~Blocking
    PROVE  /\ NoOverbooking => Pool!Fits(At("valid"), OrderedIn({"n", "p"}))
           /\ NoOverbooking' => Pool!Fits(At("valid")', OrderedIn({"n", "p"})')
<1>1. \A S, v : S \ (IF Blocking THEN v ELSE {}) = S
  OBVIOUS
<1>2. At("valid") \subseteq Slot /\ OrderedIn({"n", "p"}) \subseteq Slot
      /\ At("valid")' \subseteq Slot /\ OrderedIn({"n", "p"})' \subseteq Slot
  BY DEF At, OrderedIn
<1>3. CartUse = Cardinality(At("valid")) /\ OrderUse = Cardinality(OrderedIn({"n", "p"})) /\ VoucherUse = 0
  BY <1>1 DEF CartUse, OrderUse, VoucherUse
<1>4. CartUse' = Cardinality(At("valid")') /\ OrderUse' = Cardinality(OrderedIn({"n", "p"})') /\ VoucherUse' = 0
  <2>1. CartUse' = Cardinality(At("valid")' \ (IF Blocking THEN vou' ELSE {}))
    BY DEF CartUse
  <2> QED
    BY <1>1, <2>1, VoucherUseIs DEF OrderUse, HeldBack
<1>5. /\ Cardinality(At("valid")) \in Nat /\ Cardinality(OrderedIn({"n", "p"})) \in Nat
      /\ Cardinality(At("valid")') \in Nat /\ Cardinality(OrderedIn({"n", "p"})') \in Nat
  BY <1>2, Countable
<1>6. NoOverbooking => Pool!Fits(At("valid"), OrderedIn({"n", "p"}))
  BY <1>3, <1>5, OneSize, NumbersAssumption DEF NoOverbooking, Used, Pool!Fits
<1>7. NoOverbooking' => Pool!Fits(At("valid")', OrderedIn({"n", "p"})')
  <2>1. NoOverbooking' => OrderUse' + VoucherUse' + CartUse' <= Size
    BY DEF NoOverbooking, Used
  <2> HIDE DEF NoOverbooking
  <2> QED
    BY <1>4, <1>5, <2>1, OneSize, NumbersAssumption DEF Pool!Fits
<1> QED
  BY <1>6, <1>7

\* A position is reserved or ordered, not both.
LEMMA OneState ==
    /\ At("valid") \in SUBSET (Slot \ OrderedIn({"n", "p"})) /\ OrderedIn({"n", "p"}) \in SUBSET (Slot \ At("valid"))
    /\ At("valid")' \in SUBSET (Slot \ OrderedIn({"n", "p"})')
    /\ OrderedIn({"n", "p"})' \in SUBSET (Slot \ At("valid")')
  BY DEF At, OrderedIn

\* Every step of the shop is a step of the pool, or none.
LEMMA PoolStep ==
    ASSUME LInv, ~Blocking, NoOverbooking', [Next]_vars
    PROVE  [Pool!Next]_(Pool!poolVars)
<1> DEFINE res == At("valid")
           sold == OrderedIn({"n", "p"})
<1>1. Pool!Fits(res', sold')
  BY FitsIs
<1>2. ASSUME OrdersStay PROVE Pool!Reserve
  <2>1. sold' = sold
    BY <1>2, StaysIn
  <2>2. res' \in SUBSET (Slot \ sold)
    BY <2>1, OneState
  <2> QED
    BY <1>1, <2>1, <2>2 DEF Pool!Reserve
<1>3. ASSUME res' = res, sold' \subseteq sold PROVE Pool!Return
  <2>1. sold' = sold \ (sold \ sold') /\ sold \ sold' \in SUBSET sold
    BY <1>3
  <2> HIDE DEF sold, res
  <2>2. \E S \in SUBSET sold : sold' = sold \ S
    BY <2>1
  <2> QED
    BY <1>3, <2>2 DEF Pool!Return, sold, res
<1>4. ASSUME res' = res, sold \subseteq sold' PROVE Pool!Revive
  <2>1. sold' = sold \cup (sold' \ sold) /\ sold' \ sold \in SUBSET (Slot \ (res \cup sold))
    BY <1>4, OneState
  <2>2. Pool!Fits(res, sold')
    BY <1>1, <1>4
  <2> HIDE DEF sold, res
  <2>3. \E S \in SUBSET (Slot \ (res \cup sold)) : Pool!Fits(res, sold \cup S) /\ sold' = sold \cup S
    BY <2>1, <2>2
  <2> QED
    BY <1>4, <2>3 DEF Pool!Revive, sold, res
<1>5. ASSUME NEW w \in Worker, Act(w), ~OrdersStay PROVE Pool!Next
  <2>0. ~CartCommit(w) /\ ~CheckPosition(w) /\ ~CheckoutBegin(w) /\ ~CartRefuse(w) /\ ~GrowOrder(w) /\ ~Refuse(w)
        /\ (CheckoutEnd(w) => ~task[w].bad)
    BY <1>5, CartStays, CheckStays, RestStays
  <2>1. Aside(w) /\ ~Idle(w) /\ task[w].s \in Session
    <3>1. Aside(w)
      BY <1>5, <2>0, OrderAside DEF Act
    <3> QED
      BY <3>1 DEF Aside, LInv, IInv, WorkOK, Task, Idle
  <2>2. PICK s \in Session : s = task[w].s
    BY <2>1
  <2>3. PICK A \in SUBSET Slot :
             /\ sold = A \cup (IF status[s] \in {"n", "p"} THEN Ordered(s) ELSE {})
             /\ sold' = A \cup (IF status'[s] \in {"n", "p"} THEN Ordered(s)' ELSE {})
    BY <2>1, <2>2, OrderParts
  <2>4. ASSUME NEW P, NEW st, NEW n, Becomes(s, P, st, n), P \subseteq Ordered(s), res' = res
        PROVE  Pool!Next
    <3>1. CASE status[s] \in {"n", "p"}
      <4>1. sold' \subseteq sold
        BY <2>3, <2>4, <3>1 DEF Becomes
      <4> QED
        BY <1>3, <2>4, <4>1 DEF Pool!Next
    <3>2. CASE status[s] \notin {"n", "p"}
      <4>1. sold \subseteq sold'
        BY <2>3, <3>2
      <4> QED
        BY <1>4, <2>4, <4>1 DEF Pool!Next
    <3> QED
      BY <3>1, <3>2
  <2>5. CASE \/ ExpireOrder(w) \/ ExtendOrder(w) \/ PayOrder(w) \/ ReactivateOrder(w)
    <3>1. \E st, n : Becomes(s, Ordered(s), st, n)
      BY <2>0, <2>2, <2>5, SetFacts
    <3>2. res' = res
      BY <2>5, OrderUsages
    <3> QED
      BY <2>4, <3>1, <3>2
  <2>6. CASE CancelOrder(w)
    <3>1. \E P, st, n : Becomes(s, P, st, n) /\ P \subseteq Ordered(s)
      BY <2>0, <2>2, <2>6, CancelFacts
    <3>2. res' = res
      BY <2>6, OrderUsages
    <3> QED
      BY <2>4, <3>1, <3>2
  <2>7. CASE ShrinkOrder(w)
    <3>1. \E P, st, n : Becomes(s, P, st, n) /\ P \subseteq Ordered(s)
      <4>1. PICK P \in SUBSET Ordered(s), st \in {"n", "p"} :
               Becomes(s, Ordered(s) \ P, st, NonNeg(redeemed - Cardinality(P \cap vou)))
        BY <2>2, <2>7, ShrinkFacts
      <4>2. Ordered(s) \ P \subseteq Ordered(s)
        OBVIOUS
      <4> QED
        BY <4>1, <4>2
    <3>2. res' = res
      BY <2>7, OrderUsages
    <3> QED
      BY <2>4, <3>1, <3>2
  <2>8. CASE GrowCommit(w)
    <3>1. /\ status[s] \in {"n", "p"}
          /\ \A p \in task[w].want : pos[p] \in {"none", "canceled"}
          /\ pos' = [p \in Slot |-> IF p \in task[w].want THEN "ordered" ELSE pos[p]]
          /\ \E st \in {"n", "p"} :
               Becomes(s, Ordered(s) \cup task[w].want, st, redeemed + Cardinality(task[w].want \cap vou))
      BY <1>5, <2>2, <2>8, GrowFacts
    <3>2. res' = res
      BY <3>1 DEF At, LInv, IInv, RowsOK
    <3>3. sold \subseteq sold'
      BY <2>3, <3>1 DEF Becomes
    <3> QED
      BY <1>4, <3>2, <3>3 DEF Pool!Next
  <2>9. CASE CheckoutEnd(w)
    <3>1. /\ status[s] = "none" /\ task[w].want \subseteq res
          /\ pos' = [p \in Slot |-> IF p \in task[w].want THEN "ordered" ELSE pos[p]]
          /\ \E st \in {"n", "p"} :
               Becomes(s, task[w].want, st, redeemed + Cardinality(task[w].want \cap vou))
      BY <2>0, <2>2, <2>9, EndFacts
    <3>2. res' = res \ task[w].want
      BY <3>1 DEF At, LInv, IInv, RowsOK
    <3>3. sold' = sold \cup task[w].want
      BY <2>3, <3>1 DEF Becomes
    <3>4. Pool!Sell
      BY <3>1, <3>2, <3>3 DEF Pool!Sell
    <3> QED
      BY <3>4 DEF Pool!Next
  <2> QED
    BY <1>5, <2>0, <2>5, <2>6, <2>7, <2>8, <2>9 DEF Act
<1>6. CASE OrdersStay
  BY <1>2, <1>6 DEF Pool!Next
<1> QED
  BY <1>5, <1>6, RestStays DEF Next

\* The shop implements the pool: whatever carts, checkouts, payments, extensions, cancellations
\* and changes of orders do to the quota is a reservation, a sale, a return or a revival there.
THEOREM ImplementsPool ==
    ASSUME QuotaGuarded, ~Blocking
    PROVE  Spec => PoolSpec
<1>1. Init => Pool!Init
  BY DEF Init, Pool!Init, At, OrderedIn
<1>2. LInv /\ NoOverbooking' /\ [Next]_vars => [Pool!Next]_(Pool!poolVars)
  BY PoolStep
<1>3. Spec => [](LInv /\ NoOverbooking)
  BY QuotaInvariant, PTL
<1> QED
  BY <1>1, <1>2, <1>3, PTL DEF Spec, PoolSpec, Pool!Spec
=============================================================================
