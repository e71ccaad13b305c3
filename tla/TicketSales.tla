---------------------------- MODULE TicketSales ----------------------------
(***************************************************************************)
(* Carts, checkout and orders of one event that compete for one quota and  *)
(* one voucher: base/services/cart.py, base/services/orders.py,            *)
(* base/services/quotas.py and the parts of base/models/orders.py they     *)
(* call.                                                                   *)
(*                                                                         *)
(* A worker runs one request or task at a time: it reads the cart or the   *)
(* order (Plan...), then acts on what it read, under the event lock where  *)
(* the code takes it.  A transaction that commits before the lock is       *)
(* released is one step; checkout keeps the lock over several transactions.*)
(* Some transactions commit after the lock is given back (Committing).     *)
(* The lock is the one EventLock models; here it only excludes.            *)
(*                                                                         *)
(* A position is a slot <<session, i>>, first of the session's cart, later *)
(* of its order.  One session places at most one order.                    *)
(***************************************************************************)
EXTENDS Integers, FiniteSets

CONSTANTS
    Session,     \* cart ids
    Worker,      \* request and task processes
    None,        \* nobody
    SlotsPer,    \* bound: positions a session can ever refer to
    MaxCart,     \* max_products_per_order, where it is set
    Size,        \* Quota.size
    MaxUsages,   \* Voucher.max_usages
    Blocking,    \* Voucher.block_quota
    HasRedis,    \* the lock's back end
    Ops,         \* the kinds of requests made, a subset of Kinds
    Overlap      \* may two requests for the same cart or order be in flight?

CartKinds == {"add", "remove", "setAddons", "voucher"}
OrderKinds == {"expire", "extend", "extendAny", "pay", "cancel", "reactivate",
               "grow", "shrink", "reinstate"}
Kinds == CartKinds \cup {"checkout"} \cup OrderKinds

ASSUME SessionsFinite == IsFiniteSet(Session)
ASSUME NobodyAssumption == None \notin Worker
ASSUME NumbersAssumption ==
    /\ SlotsPer \in Nat /\ MaxCart \in Nat \ {0} /\ Size \in Nat /\ MaxUsages \in Nat
ASSUME SwitchesAssumption == {Blocking, HasRedis, Overlap} \subseteq BOOLEAN
ASSUME OpsAssumption == Ops \subseteq Kinds

Slot == Session \X (1..SlotsPer)

VARIABLES
    lock,      \* the worker that holds the event lock across steps
    pos,       \* state of each position
    vou,       \* the positions that carry the voucher
    status,    \* Order.status of each session's order, "none" before checkout
    redeemed,  \* Voucher.redeemed
    pc,        \* what each worker is at
    task       \* what each worker read and decided before it took the lock

vars == <<lock, pos, vou, status, redeemed, pc, task>>

Statuses == {"n", "p", "e", "c"}

\* What a request carries from its planning reads to its writes.
Task == [kind  : Kinds,
         s     : Session,
         add   : 0..MaxCart,             \* cart positions to create
         v     : BOOLEAN,                \* ... with the voucher
         del   : SUBSET Slot,            \* positions to remove
         ext   : SUBSET Slot,            \* expired positions to renew
         app   : SUBSET Slot,            \* positions to put the voucher on
         valid : SUBSET Slot,            \* reservations that were valid when read
         vou   : SUBSET Slot,            \* positions that had the voucher when read
         want  : SUBSET Slot,            \* positions to order
         todo  : SUBSET Slot,            \* ... that checkout has still to check
         bad   : BOOLEAN,                \* ... and whether one was refused
         seen  : Statuses \cup {"none"}] \* order status when read

\* The types, and what goes together: a worker that keeps the lock checks or
\* changes an order, the voucher is on rows that exist, and order positions belong
\* to an order.
TypeOK ==
    /\ lock \in Worker \cup {None}
    /\ pos \in [Slot -> {"none", "valid", "expired", "ordered", "canceled"}]
    /\ vou \subseteq {p \in Slot : pos[p] # "none"}
    /\ status \in [Session -> Statuses \cup {"none"}]
    /\ redeemed \in Nat
    /\ pc \in [Worker -> {"idle", "planned", "checking", "uncommitted"}]
    /\ task \in [Worker -> Task \cup {None}]
    /\ \A w \in Worker :
         /\ pc[w] # "idle" => task[w] \in Task
         /\ pc[w] = "checking" => lock = w
         /\ lock = w => pc[w] \in {"checking", "uncommitted"}
    /\ \A p \in Slot : pos[p] \in {"ordered", "canceled"} => status[p[1]] # "none"

Init ==
    /\ lock = None
    /\ pos = [p \in Slot |-> "none"]
    /\ vou = {}
    /\ status = [s \in Session |-> "none"]
    /\ redeemed = 0
    /\ pc = [w \in Worker |-> "idle"]
    /\ task = [w \in Worker |-> None]

-----------------------------------------------------------------------------
(* What the database shows *)

Own(s) == {s} \X (1..SlotsPer)
At(x) == {p \in Slot : pos[p] = x}
Cart(s) == {p \in Own(s) : pos[p] \in {"valid", "expired"}}
Ordered(s) == {p \in Own(s) : pos[p] = "ordered"}
\* Positions of orders in one of the given states.
OrderedIn(S) == {p \in Slot : pos[p] = "ordered" /\ status[p[1]] \in S}

NonNeg(n) == IF n < 0 THEN 0 ELSE n
Least(m, n) == IF m < n THEN m ELSE n

\* Positions of pending and paid orders use the quota.
OrderUse == Cardinality(OrderedIn({"n", "p"}))
\* A blocking voucher holds its unused usages back.
VoucherUse == IF Blocking THEN NonNeg(MaxUsages - redeemed) ELSE 0
\* Cart positions that have not expired, unless a blocking voucher covers them.
CartUse == Cardinality(At("valid") \ (IF Blocking THEN vou ELSE {}))

Used == OrderUse + VoucherUse + CartUse
Availability == NonNeg(Size - Used)

\* Voucher usages taken by reservations other than those in S.  Mutant: none.
VoucherInCarts_Forgotten(S) == 0
VoucherInCarts(S) == Cardinality((At("valid") \cap vou) \ S)
VoucherLeft(S) == MaxUsages - redeemed - VoucherInCarts(S)

-----------------------------------------------------------------------------
(* Requests *)

Idle(w) == pc[w] = "idle"
\* Slots some request still refers to: their ids are never given out again.
Referred == UNION {task[w].del \cup task[w].ext \cup task[w].app \cup task[w].want :
                     w \in {x \in Worker : ~Idle(x)}}

MayStart(w, s, kind) ==
    /\ Idle(w) /\ kind \in Ops
    /\ Overlap \/ \A x \in Worker : ~Idle(x) => task[x].s # s

Read(s, kind) ==
    [kind |-> kind, s |-> s, add |-> 0, v |-> FALSE, del |-> {}, ext |-> {}, app |-> {},
     valid |-> Own(s) \cap At("valid"), vou |-> Own(s) \cap vou,
     want |-> {}, todo |-> {}, bad |-> FALSE, seen |-> status[s]]

\* A request for an order does not look at the cart.
ReadOrder(s, kind) == [Read(s, kind) EXCEPT !.valid = {}, !.vou = {}]

Start(w, t) ==
    /\ pc' = [pc EXCEPT ![w] = "planned"]
    /\ task' = [task EXCEPT ![w] = t]
    /\ UNCHANGED <<lock, pos, vou, status, redeemed>>

Finish(w) ==
    /\ pc' = [pc EXCEPT ![w] = "idle"]
    /\ task' = [task EXCEPT ![w] = None]

\* Mutant: no timeout frees the lock of a dead holder.
LockWithout_Never(w) == lock
LockWithout(w) == IF lock = w THEN None ELSE lock

\* The request is refused: its transaction is rolled back, or never began.
Refuse(w) == Finish(w) /\ UNCHANGED <<lock, pos, vou, status, redeemed>>

-----------------------------------------------------------------------------
(* CartManager: the operations are collected from what the cart looks like   *)
(* now; commit() adds the renewal of every expired position.                 *)

Fresh(s) == {p \in Own(s) : pos[p] = "none"} \ Referred
Expired(s) == Own(s) \cap At("expired")

PlanAdd(w, s) ==
    /\ MayStart(w, s, "add")
    /\ \E n \in 1..MaxCart, v \in BOOLEAN :
         /\ Cardinality(Cart(s)) + n <= MaxCart
         /\ Start(w, [Read(s, "add") EXCEPT !.add = n, !.v = v, !.ext = Expired(s)])

\* remove_product takes one position, clear all of them.
PlanRemove(w, s) ==
    /\ MayStart(w, s, "remove")
    /\ \E D \in {Cart(s)} \cup {{p} : p \in Cart(s)} :
         /\ D # {}
         /\ Start(w, [Read(s, "remove") EXCEPT !.del = D, !.ext = Expired(s) \ D])

\* set_addons, where it swaps one add-on for another.
PlanAddons(w, s) ==
    /\ MayStart(w, s, "setAddons")
    /\ \E p \in Cart(s) :
         Start(w, [Read(s, "setAddons") EXCEPT !.del = {p}, !.add = 1, !.ext = Expired(s) \ {p}])

\* apply_voucher puts the voucher on every position that has none.
PlanVoucher(w, s) ==
    /\ MayStart(w, s, "voucher")
    /\ Cart(s) \ vou # {}
    /\ Start(w, [Read(s, "voucher") EXCEPT !.app = Cart(s) \ vou, !.ext = Expired(s)])

\* Renewals and additions that need the quota: a blocking voucher spares them.
ExtQuota(t) == t.ext \ (IF Blocking THEN t.vou ELSE {})
AddQuota(t) == IF t.v /\ Blocking THEN 0 ELSE t.add
\* _quota_diff, from which only set_addons subtracts what it removes.
QuotaDiff(t) ==
    Cardinality(ExtQuota(t)) + AddQuota(t)
        - (IF t.kind = "setAddons" THEN Cardinality(t.del \cap t.valid) ELSE 0)
\* _voucher_use_diff
VoucherDiff(t) ==
    Cardinality(t.ext \cap t.vou) + (IF t.v THEN t.add ELSE 0) + Cardinality(t.app)

\* _require_locking
NeedsLock(t) ==
    \/ VoucherDiff(t) > 0
    \/ ExtQuota(t) # {} \/ AddQuota(t) > 0
    \/ t.kind = "setAddons" /\ t.del \cap t.valid # {}

\* quotas_ok after the remove operations: what was needed and is available, and
\* one more for each position removed that the request knew as unexpired.
Granted(t) ==
    Least(NonNeg(QuotaDiff(t)), Availability)
        + Cardinality({p \in t.del \cap t.valid : pos[p] # "expired"})

\* _get_voucher_availability: raises unless the whole request can be served.
\* Mutant: it forgets the renewals.
VoucherOk_NoRenewals(t) == VoucherDiff(t) > 0 => VoucherLeft(t.ext) >= VoucherDiff(t) - Cardinality(t.ext)
VoucherOk(t) == VoucherDiff(t) > 0 => VoucherLeft(t.ext) >= VoucherDiff(t)

InCart(S) == {p \in S : pos[p] \in {"valid", "expired"}}

\* The rows after _perform_operations: removed or not renewed positions are gone.
\* Renewing writes back the position as it was read, voucher included.  Applying
\* the voucher to a row that is gone by now inserts it anew (ghosts).
CartRows(t, keep, new, ghosts) ==
    LET gone == InCart(t.del \cup (t.ext \ keep))
        app  == InCart(t.app \ t.ext)
    IN /\ pos' = [p \in Slot |-> IF p \in gone THEN "none"
                                ELSE IF p \in keep \cup new \cup ghosts THEN "valid"
                                ELSE pos[p]]
       /\ vou' = (vou \ (gone \cup keep)) \cup (keep \cap t.vou)
                   \cup app \cup ghosts \cup (IF t.v THEN new ELSE {})

\* _perform_operations: remove, apply the voucher, renew (in part), add (in part).
CartWrite(w, t) ==
    \E keep \in SUBSET t.ext : \E new \in SUBSET Fresh(t.s) : \E ghosts \in SUBSET (Fresh(t.s) \ new) :
      LET keepQ == keep \cap ExtQuota(t)
          app   == t.app \ t.ext
      IN /\ Cardinality(keepQ) = Least(Cardinality(ExtQuota(t)), Granted(t))
         /\ t.ext \ ExtQuota(t) \subseteq keep
         /\ keep = InCart(keep)
         /\ Cardinality(new) = IF AddQuota(t) = 0 THEN t.add
                               ELSE Least(t.add, Granted(t) - Cardinality(keepQ))
         /\ Cardinality(ghosts) = Cardinality(app \ InCart(app))
         /\ CartRows(t, keep, new, ghosts)
         /\ Finish(w)
         /\ UNCHANGED <<lock, status, redeemed>>

\* commit(): everything in one transaction, inside the lock if one is needed.  A
\* renewal whose row is gone ("force_update") rolls the transaction back.
CartCommit(w) ==
    /\ pc[w] = "planned" /\ task[w].kind \in CartKinds
    /\ NeedsLock(task[w]) => lock = None
    /\ VoucherOk(task[w])
    /\ CartWrite(w, task[w])

CartRefuse(w) ==
    /\ pc[w] = "planned" /\ task[w].kind \in CartKinds
    /\ NeedsLock(task[w]) => lock = None
    /\ ~VoucherOk(task[w]) \/ InCart(task[w].ext) # task[w].ext
    /\ Refuse(w)

-----------------------------------------------------------------------------
(* _perform_order *)

PlanCheckout(w, s) ==
    /\ MayStart(w, s, "checkout")
    /\ status[s] = "none" /\ Cart(s) # {}
    /\ Start(w, [Read(s, "checkout") EXCEPT !.want = Cart(s)])

\* The lock is taken and the positions are read again; one that is missing is an
\* internal error.  now_dt, the time of all later checks, is that of the lock.
CheckoutBegin(w) ==
    /\ pc[w] = "planned" /\ task[w].kind = "checkout" /\ lock = None
    /\ IF InCart(task[w].want) = task[w].want /\ status[task[w].s] = "none"
       THEN /\ lock' = w
            /\ pc' = [pc EXCEPT ![w] = "checking"]
            /\ task' = [task EXCEPT ![w].todo = task[w].want,
                                    ![w].valid = task[w].want \cap At("valid"),
                                    ![w].vou = task[w].want \cap vou]
            /\ UNCHANGED <<pos, vou, status, redeemed>>
       ELSE Refuse(w)

\* The voucher must have a usage left besides the other reservations; an expired
\* position needs the quota again unless a blocking voucher holds it.
\* Mutants: the position's own reservation counts; expired positions are trusted.
VoucherFree_CountsItself(p) == VoucherLeft({}) >= 1
VoucherFree(p) == VoucherLeft({p}) >= 1
QuotaFree_Trusted(t, p) == TRUE
QuotaFree(t, p) ==
    p \in t.valid \/ (p \in t.vou /\ Blocking) \/ Availability > 0

\* One round of the loop of _check_positions; each save or delete commits at once,
\* and a save brings back a row that was cleaned up meanwhile.  A changed price
\* refuses the order and leaves the position as it is.
CheckPosition(w) ==
    /\ pc[w] = "checking"
    /\ \E p \in task[w].todo :
         LET t  == task[w]
             trusted == p \in t.valid \ t.vou
             ok == (p \in t.vou => VoucherFree(p)) /\ QuotaFree(t, p)
         IN \/ /\ trusted \/ ok
               /\ pos' = IF trusted THEN pos ELSE [pos EXCEPT ![p] = "valid"]
               /\ vou' = IF trusted THEN vou ELSE vou \cup (t.vou \cap {p})
               /\ task' = [task EXCEPT ![w].todo = @ \ {p}]
            \/ /\ ~trusted
               /\ \/ ~ok /\ pos' = [pos EXCEPT ![p] = "none"] /\ vou' = vou \ {p}
                  \/ (p \in t.vou => VoucherFree(p)) /\ UNCHANGED <<pos, vou>>
               /\ task' = [task EXCEPT ![w].todo = @ \ {p}, ![w].bad = TRUE]
    /\ UNCHANGED <<lock, status, redeemed, pc>>

\* Voucher.redeemed goes up by the positions that use it.
Redeem(n) == redeemed' = redeemed + n

\* OrderError for a refused position; otherwise _create_order turns the cart
\* positions into order positions and redeems the voucher, a free order is
\* confirmed, and the lock is released.
CheckoutEnd(w) ==
    /\ pc[w] = "checking" /\ task[w].todo = {}
    /\ lock' = None
    /\ Finish(w)
    /\ LET t == task[w]
       IN IF t.bad
          THEN UNCHANGED <<pos, vou, status, redeemed>>
          ELSE /\ pos' = [p \in Slot |-> IF p \in t.want THEN "ordered" ELSE pos[p]]
               /\ vou' = vou \cup (t.want \cap t.vou)
               /\ \E st \in {"n", "p"} : status' = [status EXCEPT ![t.s] = st]
               /\ Redeem(Cardinality(t.want \cap t.vou))

-----------------------------------------------------------------------------
(* Orders.  The status a request acts on is the one it read when it loaded   *)
(* the order, before the lock; only a cancellation reads it again.           *)

SeenBy == [expire |-> {"n"}, extend |-> {"n", "e"}, extendAny |-> {"p", "c"},
           pay |-> {"n", "e"}, cancel |-> {"n", "p", "e"}, reactivate |-> {"c"},
           grow |-> {"n", "p"}, shrink |-> {"n", "p"}, reinstate |-> {"n", "p"}]

PlanOrder(w, s) ==
    \E kind \in OrderKinds :
      /\ MayStart(w, s, kind)
      /\ status[s] \in SeenBy[kind]
      /\ Start(w, ReadOrder(s, kind))

AtWork(w, kind) == pc[w] = "planned" /\ task[w].kind = kind
\* _is_still_available: room in the quota for every position of the order.
\* Mutant: one free ticket is enough.
StillAvailable_One(s) == Availability >= 1
StillAvailable(s) == Availability >= Cardinality(Ordered(s))
VouchersOf(s) == Cardinality(Ordered(s) \cap vou)

SetStatus(w, st) ==
    /\ status' = [status EXCEPT ![task[w].s] = st]
    /\ Finish(w)

\* "with transaction.atomic(): with event.lock()": the row of the database lock is
\* part of the transaction and excludes until it commits; the Redis lock is given
\* back before, and others may hold it when the transaction commits.
Committing == HasRedis \/ lock = None

\* mark_order_expired, from expire_orders or by hand
ExpireOrder(w) ==
    /\ AtWork(w, "expire") /\ Committing
    /\ SetStatus(w, "e")
    /\ UNCHANGED <<lock, pos, vou, redeemed>>

\* extend_order: a pending order just gets a new date; any other one is checked
\* against the quota and becomes pending.  The API offers it for every order.
ExtendOrder(w) ==
    /\ AtWork(w, "extend") \/ AtWork(w, "extendAny")
    /\ IF task[w].seen = "n" THEN Refuse(w)
       ELSE /\ lock = None
            /\ IF StillAvailable(task[w].s)
               THEN SetStatus(w, "n") /\ UNCHANGED <<lock, pos, vou, redeemed>>
               ELSE Refuse(w)

\* OrderPayment.confirm for the payment that completes the order: no lock for a
\* pending order that has time left.
PayOrder(w) ==
    /\ AtWork(w, "pay")
    /\ task[w].seen = "n" \/ lock = None
    /\ IF task[w].seen = "n" \/ StillAvailable(task[w].s)
       THEN SetStatus(w, "p") /\ UNCHANGED <<lock, pos, vou, redeemed>>
       ELSE Refuse(w)

Withdraw(P) == pos' = [p \in Slot |-> IF p \in P THEN "canceled" ELSE pos[p]]

\* _cancel_order, on the row as it is now (select_for_update).  If a cancellation
\* fee is kept, the order counts as paid, without positions.  Mutant: the voucher
\* is not given back.
Unredeem_Never(n) == redeemed' = redeemed
Unredeem(n) == redeemed' = NonNeg(redeemed - n)
CancelOrder(w) ==
    /\ AtWork(w, "cancel") /\ Committing
    /\ IF status[task[w].s] \in {"n", "p", "e"} /\ Ordered(task[w].s) # {}
       THEN /\ \/ SetStatus(w, "c") /\ UNCHANGED pos
               \/ SetStatus(w, "p") /\ Withdraw(Ordered(task[w].s))
            /\ Unredeem(VouchersOf(task[w].s))
            /\ UNCHANGED <<lock, vou>>
       ELSE Refuse(w)

\* reactivate_order.  Mutant: the voucher is not consulted.
UsagesLeft_Unchecked(n) == TRUE
UsagesLeft(n) == redeemed + n <= MaxUsages
ReactivateOrder(w) ==
    /\ AtWork(w, "reactivate") /\ lock = None
    /\ IF StillAvailable(task[w].s) /\ UsagesLeft(VouchersOf(task[w].s))
       THEN /\ \E st \in {"n", "p"} : SetStatus(w, st)
            /\ Redeem(VouchersOf(task[w].s))
            /\ UNCHANGED <<lock, pos, vou>>
       ELSE Refuse(w)

\* OrderChangeManager.commit: a new position, or canceled ones that come back (a
\* position with its add-ons).
Joining(t) ==
    IF t.kind = "grow" THEN {{p} : p \in Fresh(t.s)}
    ELSE SUBSET {p \in Own(t.s) : pos[p] = "canceled"} \ {{}}

\* The quota is checked under the lock; the database lock stays until the commit.
GrowOrder(w) ==
    /\ AtWork(w, "grow") \/ AtWork(w, "reinstate")
    /\ lock = None
    /\ \E P \in Joining(task[w]) :
         IF Availability >= Cardinality(P)
         THEN /\ lock' = IF HasRedis THEN lock ELSE w
              /\ pc' = [pc EXCEPT ![w] = "uncommitted"]
              /\ task' = [task EXCEPT ![w].want = P]
              /\ UNCHANGED <<pos, vou, status, redeemed>>
         ELSE Refuse(w)

\* _recalculate_total_and_payment_fee saves the whole order as it was read; then a
\* paid order that costs more is pending, a pending one that costs less may be paid.
Resave(w, st) ==
    \E new \in {task[w].seen, st} : status' = [status EXCEPT ![task[w].s] = new]

\* The voucher is looked at for each position, one after the other, before any of
\* them counts; its row is locked from then on.
GrowCommit(w) ==
    /\ pc[w] = "uncommitted"
    /\ lock' = LockWithout(w)
    /\ Finish(w)
    /\ LET P == task[w].want
       IN IF P \cap vou # {} /\ redeemed >= MaxUsages
          THEN UNCHANGED <<pos, vou, status, redeemed>>
          ELSE /\ pos' = [p \in Slot |-> IF p \in P THEN "ordered" ELSE pos[p]]
               /\ Redeem(Cardinality(P \cap vou))
               /\ Resave(w, "n")
               /\ UNCHANGED vou

\* ... and canceling some of the positions, though not all.
ShrinkOrder(w) ==
    /\ AtWork(w, "shrink") /\ Committing
    /\ \E P \in SUBSET Ordered(task[w].s) \ {{}, Ordered(task[w].s)} :
         /\ Withdraw(P)
         /\ Unredeem(Cardinality(P \cap vou))
         /\ Resave(w, "p")
         /\ Finish(w)
         /\ UNCHANGED <<lock, vou>>

-----------------------------------------------------------------------------
(* Time, failures *)

\* A reservation runs out.  Whoever holds the lock goes by the time it got it, so
\* the clock stands still meanwhile.
Lapse ==
    /\ lock = None
    /\ \E p \in At("valid") : pos' = [pos EXCEPT ![p] = "expired"]
    /\ UNCHANGED <<lock, vou, status, redeemed, pc, task>>

\* clean_cart_positions deletes what expired 14 days ago: no request that is still
\* under way has seen it valid.
CleanUp ==
    /\ \E p \in At("expired") :
         /\ \A w \in Worker : ~Idle(w) => p \notin task[w].valid
         /\ pos' = [pos EXCEPT ![p] = "none"]
         /\ vou' = vou \ {p}
    /\ UNCHANGED <<lock, status, redeemed, pc, task>>

\* The request ends early: LockTimeoutException, an error, or its process dies
\* and the lock times out.  What has been committed stays.
Abandon(w) ==
    /\ ~Idle(w)
    /\ lock' = LockWithout(w)
    /\ Finish(w)
    /\ UNCHANGED <<pos, vou, status, redeemed>>

Plan(w, s) ==
    \/ PlanAdd(w, s) \/ PlanRemove(w, s) \/ PlanAddons(w, s) \/ PlanVoucher(w, s)
    \/ PlanCheckout(w, s) \/ PlanOrder(w, s)

Act(w) ==
    \/ CartCommit(w) \/ CartRefuse(w)
    \/ CheckoutBegin(w) \/ CheckPosition(w) \/ CheckoutEnd(w)
    \/ ExpireOrder(w) \/ ExtendOrder(w) \/ PayOrder(w) \/ CancelOrder(w)
    \/ ReactivateOrder(w) \/ GrowOrder(w) \/ GrowCommit(w) \/ ShrinkOrder(w)

Next ==
    \/ \E w \in Worker : (\E s \in Session : Plan(w, s)) \/ Act(w) \/ Abandon(w)
    \/ Lapse \/ CleanUp

Spec == Init /\ [][Next]_vars

-----------------------------------------------------------------------------
(* Properties *)

\* "making sure your limit is never exceeded" (concepts.rst): orders, vouchers
\* that hold tickets back and unexpired reservations together fit the quota.
NoOverbooking == Used <= Size

\* Seen from far away, this is a pool of Size tickets: what is sold was reserved up
\* to that moment, or taken when there was room.
Pool == INSTANCE TicketPool
          WITH reserved <- At("valid"), sold <- OrderedIn({"n", "p"})
PoolSpec == Pool!Spec

\* Voucher.redeemed counts the positions of all orders that were not canceled.
VoucherCounted ==
    redeemed = Cardinality(vou \cap OrderedIn({"n", "p", "e"}))

\* The voucher is never used more often than it may be ...
VoucherWithinLimit == redeemed <= MaxUsages

\* ... and the usages promised to unexpired cart positions are still there.
VoucherPromisesKept == redeemed + VoucherInCarts({}) <= MaxUsages

\* Checkout never refuses a position whose reservation has not run out: neither
\* other carts nor orders can have taken its ticket or its voucher usage.
ReservationHonoured ==
    [][\A w \in Worker, p \in Slot :
         pc[w] = "checking" /\ pc'[w] = "checking" /\ pos[p] = "valid"
           /\ p \in task[w].todo /\ p \notin task'[w].todo
         => pos'[p] = "valid"]_vars

=============================================================================
