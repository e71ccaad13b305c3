# eventyay: TLA+ models and proofs

eventyay sells tickets to events, collects talk proposals, publishes schedules and runs video
rooms with chat. This directory models the parts of it where the order of things matters: the lock
an event is booked under; carts, checkout, orders, and the quota and vouchers they compete for;
payments, refunds and gift cards; the waiting list; check-in at the door; the versioned caches of
the schedule; the chat; and the release of schedules. Paths below are relative to
`src/app/eventyay/` unless they start with `doc/`.

Run a check with `tlc -workers 4 -config EventLock_all.cfg MC_EventLock.tla`, a proof with `tlapm
EventLockProofs.tla`. `PROJECT.json` lists the runs, the source lines every definition stands for,
the hazards, the finding and the theorems.

## 1. The system

| Component | State | Operations | Hard because |
|---|---|---|---|
| Event lock (`base/services/locking.py`) | a row or a Redis key with a token and a time; `_lock` on every `Event` object | lock, retry, release | two back ends, expiry under a live holder, take-over, lost answers, dead workers |
| Quota (`base/services/quotas.py`) | none of its own: counts orders, blocking vouchers, carts, waiting list; a cache in Redis | compute availability | everybody who sells asks it, then acts; blocking vouchers are counted in two places |
| Cart (`base/services/cart.py`, `cleanup.py`) | cart positions with an expiry date, a voucher, a price | add, remove, add-ons, voucher, renewal, clean-up | plans made before the lock, partial grants, reservations that run out |
| Checkout, orders (`base/services/orders.py`, `base/models/orders.py`) | order status, positions, `Voucher.redeemed` | place, expire, extend, pay, cancel, reactivate, change | lock over several transactions, status read before the lock, commits after the release |
| Payments, refunds (`base/models/orders.py`, `base/payment.py`, `api/views/order.py`) | payment and refund states, amounts | create, change method, confirm, fail, cancel, refund | confirm is two transactions, gift cards wrap both in a third; provider, clerk and customer act at once |
| Gift cards (`base/models/giftcards.py`) | a list of transactions whose sum is the value | debit, credit | several payments drawn on one card |
| Vouchers (`base/models/vouchers.py`) | `max_usages`, `redeemed`, `block_quota` | redeem, give back | raised and lowered in six places |
| Waiting list (`base/services/waitinglist.py`, `base/models/waitinglist.py`) | entries with a priority, the voucher each got | join, assign under the lock, send by hand without it, move, delete | what the task read at its start is changed while it goes through the list; quota asked and voucher created by two paths |
| Check-in (`base/services/checkin.py`) | check-ins of a position on a list, the time of the last exit of everybody | entry, exit, exit of everybody, revert | repeated scans, cancellation under way, offline devices that report late |
| Stale caches (`base/services/stale_cache.py`) | a counter in the cache, entries under each number, callbacks of a transaction | load, bump, expire | rollbacks, a load that began before a bump, a cache that does not answer |
| Chat (`base/services/chat.py`, `features/live/modules/chat.py`) | ids from Redis, events in the database, groups | send, subscribe, fetch | three stores without a transaction; the counter can be lost and is restored by all who notice |
| Schedules, submissions (`base/models/schedule.py`, `slot.py`, `submission.py`) | state of a proposal, slots of the draft and of released versions | accept, reject, confirm, cancel; edit, freeze, unfreeze | slots follow the state, the draft that was read has been released meanwhile |
| Polls (`base/services/poll.py`) | votes, pinned flag | vote, pin | two statements, two commits |
| Event cancellation, seating, invoices, mail, import and export, video servers, live connections, user interfaces, REST API, plugins, users and teams | | | see section 8 |

How they interact. Carts, checkout, changes of orders, late payments and the waiting list all ask
the quota for room, and take the event lock around the question *and* the write, or are meant to.
They also share the row of the voucher. An order is marked paid by the payment that completes it,
which asks the quota again when the order has expired. A refund may bring a paid order back to
pending, and a ticket scanned at that moment is refused. A canceled order starts the waiting list.
Celery tasks (`expire_orders`, clean-up, waiting list, `process_exit_all`) run beside the
requests. Edits of schedules register callbacks that raise the cache counter after the commit.
Nothing else is called back across processes: all interaction is through the database, Redis and
the locks, in an order nobody controls.

What makes each correct: the lock excludes within its timeout, and is never stuck; quota and
voucher are never exceeded, whoever asks in whatever order, and a reservation is good until it
runs out; `Voucher.redeemed` is what the orders use; a fully paid order is paid; the gift card is
never overdrawn and its balance follows from the payments and refunds; a confirmed payment stays
so; the waiting list gives one voucher to each entry (unless an edit writes over it), in order,
promises nothing that is taken and forgets nobody; a ticket is admitted as often as the list
allows, and a repeated request is recorded once and answered as before; nobody is served what is
older than the version they asked for; who joins a chat misses nothing; a released schedule never
changes, and the draft keeps every accepted talk (unless it is reset to a version with a break).

## 2. Modules

| Module | Role |
|---|---|
| `EventLock` | the lock with both back ends |
| `TicketPool` | what the quota promises, as an abstract specification |
| `TicketSales` | carts, checkout and orders over one quota and one voucher; implements `TicketPool` |
| `OrderPayments` | the payments of one order, refunds, one gift card |
| `WaitingList` | the waiting list over several quotas, under the lock and by hand |
| `Checkin` | one ticket on one check-in list |
| `StaleCache` | the versioned cache of one event |
| `Chat` | one channel: numbers, events, subscribers |
| `Schedules` | talks, the draft and the released versions |
| `MC_...` | model values, settings and symmetry for TLC |
| `EventLockProofs`, `TicketSalesProofs`, `OrderPaymentsProofs`, `WaitingListProofs`, `CheckinProofs`, `StaleCacheProofs`, `ChatProofs`, `SchedulesProofs` | theorems |

### EventLock

A client is one `Event` object, used by one worker. `isSet` and `own` are its `_lock` attribute,
`store` is the row or key, `pc` says where in `lock_event` or the `with` block the client is.
`hasRedis` is chosen once, in `Init`. `DbReadExpired`/`DbSwap` are the two halves of the take-over
of an expired row: the read and the `UPDATE ... WHERE token = ...`. `RedisAcquireError` and
`ReleaseError` are lost answers, with and without effect. `Reload` is the end of a request or the
death of a process. Tokens stand for uuids: a new one is any token nobody refers to. Time is kept
as ages that saturate one tick after the timeout, so there is no bound on the clock.

A blocking call (the order import) has a deadline: `left` is the time to it. With the database it
goes through rounds of attempts until the deadline is over, with Redis the client library polls.

### TicketSales

A worker runs one request: it reads (`Plan...`: the constructor of `CartManager`, the view that
loads an order), and what it read is in `task[w]`; then it acts on that, under the lock where the
code takes it. `CartCommit` is `CartManager.commit` as a whole; checkout is `CheckoutBegin`, one
`CheckPosition` for each position (each save commits by itself), and `CheckoutEnd`. A position is
a slot that is first a cart position and later an order position. `Lapse` is a reservation running
out; checkout uses the time at which it got the lock for all its checks, so no reservation runs
out *for it* while it holds it.

Where the code says `with transaction.atomic(): with event.lock():` the lock is released before
the commit. With the database lock this is harmless, since the lock's row is part of the
transaction (`GrowOrder` keeps the lock, `Committing` waits for it); with Redis others get in
between (`GrowOrder`, then `GrowCommit` later).

Abstractions: one quota and one voucher, which any position may use; prices are free choices where
they decide something (a changed price refuses a checkout, an order is free or not); the lock only
excludes, its failures are `Abandon` (timeout, error, death of the worker) and `EventLock` has the
rest. A session places at most one order. `CleanUp` leaves rows alone that a request under way has
seen valid: the code deletes them 14 days after they expired. `Overlap = FALSE` in the passing
runs: two requests of one customer, or about one order, do not overlap there. What happens when
they do is in section 7.

### OrderPayments

`order` is the status of the order, `pay` its payments, `card` the value of the gift card, `back`
and `credited` the refunds created and done. `room` says whether the quota would take an expired
order back; it changes at any time. `ConfirmTake`, `ConfirmLook`, `ConfirmMark` are the two
transactions of `OrderPayment.confirm` and the look at the order between them. A gift card payment
runs `confirm` inside a transaction of its own: `CardTake` locks the rows and reads the sums,
`CardCommit` makes everything visible at once. `RefundLoad`, `RefundCreate`, `RefundExecute`,
`RefundSettle` are the API's refund.

Abstractions: amounts are whole numbers, and a sum of amounts is the number of coins it takes
(`Coins`), which can be reasoned about for any number of payments; a refund that others execute,
and fees, are left out; the order that `confirm` reads and the sums are read in one step; so are
the payments that canceling the order cancels.

### WaitingList

A claim is a place of a quota: a ticket of an order or a voucher that blocks quota. Every entry is
numbered in the order of joining and waits for one product; `row`, `voucher`, `prio` and `date`
are its columns, `given` is history: the entries the list has assigned a voucher that no edit has
written over since. `task` is `assign_automatically`, which holds the event lock from `AssignRead`
on: it carries what it read at its start (`read`, `prio`, `date`, the products on sale), the
entries still to serve and those it has served, `quota_cache` and the set `gone`. One entry is one
of `AssignSkip` (off sale, or gone), `AssignLook` (asks the quotas that are not in the cache) and
`AssignSend` (`send_voucher`, whose transaction commits by itself). `AssignDie` stops it anywhere;
the vouchers so far stay. By hand, `HandLook` asks the quota and `HandSend` creates the voucher,
without the lock. `DeleteLook` and `Delete`, `EditLook` and `Edit`, and `Move` are the organiser's
other requests; `Loaded` is what a view keeps of an entry between its check and its write. `Edit`
is `perform_update` of the API: the voucher is checked on the entry loaded before, and then all of
it is saved, so `voucher` becomes null whatever was assigned since. `Give` also saves the whole
entry. Either brings back a row deleted meanwhile, as `save()` does; the date of such a row is new
(`auto_now_add`), which matters after `Edit` only, since after `Give` it has a voucher. `Buy`,
`Redeem`, `Cancel` and `Lapse` are what happens to the claims; those that take tickets wait for
the lock.

Abstractions: a product stands for product, variation and date; orders and carts are one kind of
claim; an edit does not change the product; a list entry whose voucher has run out still points to
it (`Lapsed`) and is not served again; sizes of quotas do not change, so nobody waits for a
product whose quotas are all unlimited.

### Checkin

One position on one list, whose settings are chosen in `Init`. A scan has a nonce; devices send a
scan any number of times, with the time at which it was made (`at`), now or late. `LoadScan` and
`LoadClerk` are what the view reads before the lock (so a ticket canceled since then is let
through, as in the code); `Judge` is everything `perform_checkin` decides under the lock of the
position's row, `Record` the write, `Die` a process that ends before the commit. Of rows with the
same time any may be the latest. `process_exit_all` first reads who is inside (`ExitAllRead`),
then writes an exit for each (`ExitAllWrite`) and the time of it (`ExitAllDone`). The order is
paid, made unpaid by a refund, canceled and reactivated meanwhile; `Revert` deletes the check-ins.

### StaleCache

What a request would load is abstracted to `content`: how many changing transactions have been
committed. A transaction registers a callback for each change (`Change`) and marks its thread as
`pending`; a rollback, of all or to a savepoint, drops callbacks but not the mark; after the
commit the first callback that finds the mark clears it and raises the counter (`Bump`;
`BumpMissing` and `BumpFirst` when there is none), the others return (`FlushAgain`). A reader
finds the number (`ReadCounter`), looks for the hot entry, loads, stores both entries and answers;
if the database fails it serves the stale one. Every access to the cache may fail. Entries expire
at any time. The model keeps the first two bumps of an event apart (`BumpMissing`): section 7.

### Chat

`create_event` is `Incr`, then `Store` and the send to the group (`Send`); a number below 2, or
one that is taken, makes the server read the highest row (`ReadHighest`), set the counter
(`SetCounter`) and go on. A small number is used all the same, a taken one is replaced once
(`Conflict`; `retry` is set then, for good), and after that refused (`Refuse`). `Lose` is Redis
without its counter. A reader enters the group (`Join`), is told the last number (`GetLast`, or
`GetLastStored` if there is none) and fetches what lies before (`Fetch`). Servers stop at any step
(`Die`). There are events before (`First` is at least 1): what the first two of a fresh install do
to each other, which `NotMissed` and `GivenOnce` would not survive, is in section 7.

### Schedules

`rows`, `name`, `slots`, `placed` and `visible` are the schedules of an event and the slots of
their talks, `breaks` the schedules that have a break, which is a slot without a submission;
`held` is the draft that a request has read before it asks for the lock. `Freeze` is
`Schedule.freeze` as a whole: it locks and reads the schedule again, names it, makes slots
visible, and creates the next draft. `FreezeRefused` is what it answers otherwise. `Unfreeze`
makes a new draft from an old version and adds what `Newer` finds: the talks of the draft whose
submission is NOT IN those of the old version, so none at all if that version has a break, whose
submission is null. `EditBreaks` is the first break added or the last one taken away. `SetState`
is a change of a proposal, with the slots that `update_talk_slots` creates or deletes. `Move` is
the drag and drop of the editor. `Unfreeze` and `Move` are one step each: what they do when a
release gets in between is in section 7.

## 3. Runs

| Run | Instance | Shows |
|---|---|---|
| `lock` (274 thousand states) | 2 clients, 6 tokens, timeout 2, 2 tries, patience 1, either back end | exclusion within the timeout, ownership of releases, recovery, end of every call |
| `sales_cart` (407 thousand) | 2 sessions, 2 workers, 2 slots each, size 2, 1 usage, Redis | all cart operations with checkout: `VoucherPromisesKept`, `ReservationHonoured`, refinement of `TicketPool` |
| `sales_orders` (750 thousand) | the same, database lock | the life of orders: voucher count and limit, refinement |
| `sales_blocking` (285 thousand) | the same instance, a voucher that blocks quota, database lock | block, reservations under it and orders that used it fit the quota |
| `payments` (685 thousand) | 3 payments, total 2, credit 2, 2 workers | the books of payments, card and refunds agree |
| `waiting` (307 thousand) | 3 people, 2 products over 3 quotas (one shared by both, one of one product, one unlimited), 3 claims, 1 request of the organiser for 2 of the people, one priority | the list promises only what is free, once to each unless an edit writes over it, in order, and forgets nobody |
| `checkin_once` (1.9 million) | 2 workers, 2 nonces, lists with and without re-entry, 3 rows, forced scans, a clerk, exit of everybody | one entry, one record of a request, the same answer to its repetition |
| `checkin_limits` (521 thousand) | 2 workers, 2 nonces at 2 gates, 3 kinds of limit, 4 times, days of 2 ticks, late reports | the limits per day and gate |
| `stale` (242 thousand) | 2 threads, 1 reader, 2 commits of up to 2 changes | nobody is served less than the number they found, one bump for a commit, outdated entries go |
| `chat` (3.4 million) | 3 senders, 1 reader, 4 events before and 4 during, the counter is lost once | nothing is missed, a number is given once, the counter heals |
| `schedule` (853 thousand) | 1 talk, 3 names, 2 requests that release, 5 schedules | released versions are fixed, the draft keeps the accepted talk unless it is reset to a version with a break |
| `sales_grow` (violation) | `sales_cart` with orders that grow | the disagreement of section 7 |

Bounds, and why they are enough.

* Lock: two clients are what exclusion, take-over and late release need; six tokens are more than
  two clients, their reads and the store can refer to, so a new one always exists. A timeout of
  two ticks separates "held", "about to expire" and "expired"; two tries separate "again" and
  "give up", patience for one tick a blocking call that has time left from one that has not.
* Sales: two sessions with two positions each compete for two tickets: a request can be granted
  all, some or nothing, hold an order and a reservation at once, and lose its ticket to the other.
  One usage of the voucher is the boundary at which the second request must be refused. A worker
  is idle or has read something the other has since changed. `SlotsPer` and `MaxCart` bound
  positions; `MaxCart` is a setting of the shop.
* Payments: three with a total of two make partial, exact and excess payment possible.
* Waiting list: two people want the scarce product and one the other, so the shared quota, the
  order within a product and an entry in front that must not block the next all matter; three
  claims exceed each quota. One priority lets an entry overtake any other. The organiser deals with
  the two who want the same product (`Handled`). One request is enough to write over what
  the task has assigned meanwhile; a row that an edit brings back with a new date (`Later`,
  `MaxDate`) takes a second request that deletes it, and is left to the theorems.
* Check-in: two nonces, each repeated at will, and three rows make a repetition that is no longer
  the latest row; two ticks and two gates make every pair of equal and different day and gate.
* Stale cache: a load can span both commits, and a thread can commit after a rollback.
* Chat: the small numbers that the code takes for a lost counter are 0 and 1, so four events
  before put the lost counter well below what is stored; three senders are one that notices, one
  that has just set the counter, and one with a highest row read long ago.
* Schedules: five schedules are a first draft and any four releases and resets, so a reset to
  either of two versions, with and without a break, and a release after it; the two requests may
  have read the same draft. Talks share nothing but the schedules, and no property is about two
  of them, so there is one.

Symmetry is used in runs without liveness only. Deadlock is checked in all runs.

The `Ops` constant of `TicketSales`, `OrderPayments`, `WaitingList` and `Checkin` selects the
kinds of requests of a run; between them the passing runs take every action. `PoolSpec` says that
reservations and orders step as the abstract pool does, so with `LimitIsKept` it implies
`NoOverbooking` where no voucher blocks quota; that one is checked where one does (the theorem
`QuotaIsKept` is about both). A run leaves
out a kind where a known disagreement (section 7) would violate a property that the rest of the
code keeps: `sales_orders` has no extension of paid orders, `sales_blocking` no cancellation,
Redis with orders is `sales_grow`.

## 4. Properties

* `EventLock`: `MutualExclusion`, `OnlyOwnerGivesUp` (a late release does not free another
  client's lock), `AlwaysObtainableAgain`, `CallEnds`.
* `TicketSales`: `NoOverbooking`, `PoolSpec` (the refinement), `VoucherCounted`,
  `VoucherWithinLimit`, `VoucherPromisesKept`, `ReservationHonoured`.
* `OrderPayments`: `FullyConfirmedIsPaid`, `CardNotNegative`, `CardAccount`,
  `RefundsWithinPayment`, `ConfirmedStays`.
* `WaitingList`: `PromisesFit` (what was not sent by hand fits every quota), `AutoOnce` (a second
  voucher only after an edit wrote over the first), `FirstComesFirst`, `NobodyForgotten`.
* `Checkin`: `OneEntry`, `OncePerLimit`, `NonceOnce`, `RetryAnswered`.
* `StaleCache`: `Fresh`, `BumpedOnce`, `CaughtUp` (even if the counter could not be raised).
* `Chat`: `NotMissed`, `GivenOnce` (both as long as the counter was not lost), `Heals`.
* `Schedules`: `ReleasedFixed`, `DraftKeepsTalks`.

Every module has a type invariant `TypeOK`, into which go the relations its proofs rest on (a
repeated scan is one that was made, what is sent is stored, there is one draft). Every property of
a passing run has a mutant of the code model, defined beside the original, under which TLC finds
it violated.

Fairness, and why the code justifies it:

* `EventLock`: time passes (`WF(Tick)`), and a lock call that can make its next attempt makes it
  (`WF(Acquire(c))`): the code retries in a plain loop with short sleeps. No holder is forced to
  release, no worker to call, Redis never has to answer; so `AlwaysObtainableAgain` really rests
  on the timeout, and `CallEnds` on the deadline and the number of attempts.
* `WaitingList`: `WF(Assign)`: the periodic task `process_waitinglist` starts the assignment again
  and again, and its loop goes on. `NobodyForgotten` is under the condition that the task does not
  die forever. Nobody has to join, buy or use a voucher, and the organiser has to do nothing.
* `StaleCache`: a request under way comes to its end (`WF(Serve(r))`), and entries run out
  (`WF(ExpireHot(v))`, `WF(ExpireStale(v))`: their time to live). The counter need not be raised.

The other modules have safety properties only: nothing in the code guarantees that a customer,
device or organiser goes on.

## 5. Proofs

All theorems are for every value of the constants allowed by the named assumptions.

* `EventLockProofs`. The inductive invariant is `TypeOK` with five facts: a holder within its time
  has its token in the store and the store is not older than the holder (`HolderInv`); who is
  inside has a token; a swap remembers one; the row it remembers, if still there, has expired
  (`SeenExpired`); no two clients own one token. `HolderInv` alone is not inductive: a swap could
  hit a row renewed under the token it saw. From it: `TypeCorrect`, `HolderKeeps`, `Exclusion`,
  `OwnerGivesUp`.
* `TicketSalesProofs`. `TypeCorrect`, which includes that a worker keeps the lock only while it
  checks or changes an order, that the voucher is only on rows that exist, and that order
  positions belong to an order. The invariant (`IInv`) adds what a request carries (`Sane`): it
  does not remove what it renews, and orders only its own positions. There is a lemma for each
  action. The other theorems rest on it, on each other, and on what a request may still believe of
  what it has read (`Local`), given that requests of one cart do not meet (`Alone`). All their
  numbers are cardinalities of sets of positions, so each step says which positions a set wins and
  loses. Each theorem excludes the operations that break its property, and no others:
  * `PromisesAreKept` (`VoucherPromisesKept`) and `ReservationsAreHonoured`
    (`ReservationHonoured`): what is left of the voucher covers the reservations that carry it, and
    checkout does not refuse them. Canceled orders do not come back (`reactivate`, `reinstate`):
    these look at the usages redeemed, not at those reserved (section 7).
  * `VoucherIsCounted` (`VoucherCounted`), without extension of canceled orders (`extendAny`).
  * `VoucherIsWithinLimit` (`VoucherWithinLimit`), whatever is canceled, reactivated, changed and
    extended. What checkout has looked at stays covered while it has the lock (`Claims`), and no
    order ever has more positions with the voucher than there are usages (`BoughtOK`), so what
    comes back after a look at `redeemed` fits. Reinstating single positions needs the database
    lock, which lasts until the commit, and at most one usage: with more, a position with add-ons
    is looked at before any of them counts.
  * `QuotaIsKept` (`NoOverbooking`), with and without blocking vouchers, for the shops that
    `QuotaGuarded` describes: no overlapping requests of a cart or order; with the Redis lock no
    order grows (`sales_grow` is what happens otherwise); and with a blocking voucher, its usages
    fit the quota, expired orders are not canceled, and nothing is removed from a cart (section 7
    has both). What is still free when a request has looked is free when it commits (`Room`).
  * `ImplementsPool` (`PoolSpec`) under the same conditions, without a blocking voucher: every
    step is a step of `TicketPool` or leaves it alone. `LimitIsKept`: that pool never exceeds its
    size.
* `OrderPaymentsProofs`. `TypeCorrect` (no request is for a payment that does not exist);
  `CardSafe`: the card is never overdrawn, from the fact that whoever is inside the card's
  transaction is alone there and has seen enough on it, even for two requests for one payment.
  For `Overlap = FALSE`, which says that a card payment, cancellation or refund has its payment to
  itself (`Apart`): `RefundsBounded`, `ConfirmedIsKept`, `CardBalances` (`CardAccount`) and
  `FullyPaidIsPaid` (`FullyConfirmedIsPaid`). The last two need that each request suits its
  payment (`SuitInv`): a card payment under way does not count yet, what is refunded is a card
  payment that counts, one request only confirms a payment, and it goes on only while that is
  confirmed. `FullyConfirmedIsPaid` speaks of moments without requests and is far from inductive;
  `LackInv` is: while the order is open, the payments that no confirmation is still at do not
  suffice. So it is always a confirmation still to look that completes them. `Overlap = FALSE` is
  an assumption about the shop's users, not about its code: see section 7.
* `WaitingListProofs`. `TypeCorrect`, `GivenOnce` (`AutoOnce`) and `PromisesKept` (`PromisesFit`),
  for any people, products and quotas of any size. What the task read at its start may be
  outdated, so the invariant says what it may still rely on: nobody it has to serve has a voucher
  from the list, unless an edit wrote over it (`Once`), which `GivenOnce` reads off where it
  sends; what its cache grants, together with what was granted before under the lock, fits each
  quota (`Free`), because all who add claims wait for the lock. Vouchers sent by hand do not, and
  the bound leaves them out. `ServedInOrder` (`FirstComesFirst`): whoever the task has passed over
  and not served waits for a product it takes as sold out (`PassedOver`), whatever becomes of the
  entry, and whoever it is about to serve is the first of the rest (`FirstOfTheRest`).
* `CheckinProofs`. `TypeCorrect`, `AdmittedOnce` (`OneEntry`), `LimitsKept` (`OncePerLimit`),
  `RecordedOnce` (`NonceOnce`), for any devices, settings and times. What a worker judged under
  the row lock still holds when it records (`Judged`), since nobody else is past the lock
  (`Alone`), the exit of everybody waits for it, and a revert only takes rows away.
  `RepetitionAnswered` (`RetryAnswered`) follows from that and the verdict on a nonce recorded.
* `StaleCacheProofs`. `TypeCorrect`, `AnswersAreFresh` (`Fresh`), `RaisedOnce` (`BumpedOnce`). A
  number of the counter is given once; before that nothing lies under it (`Entry`) and no reader
  has it (`InHand`). `Fresh` is not inductive without that: an entry stored under a number that is
  given later would be too old.
* `ChatProofs`. `NothingMissed` (`NotMissed`) and `NumbersGivenOnce` (`GivenOnce`), while no
  counter was lost: no stored number is above the counter, senders have different numbers
  (`Numbered`), and what a subscriber does not have lies before the number they were told
  (`Informed`). `ChatTyped` (`TypeOK`) and `ChatHeals` (`Heals`) hold whatever was lost, from an
  invariant of their own (`HInv`) about what an interrupted repair may have left behind.
* `SchedulesProofs`. `SchedulesTyped` (`TypeOK`), `DraftKeepsAllTalks` (`DraftKeepsTalks`) and
  `ReleasesAreFixed` (`ReleasedFixed`), for any talks, names and requests: the invariant is
  `TypeOK`, which says that there is one draft, with the fact that schedules to come have no name
  yet (`Numbered`); only the draft is ever written, and each way to a new draft either copies the
  old one or is a reset.

So every safety property of the passing runs is proved. Only model-checked are the liveness
properties (`AlwaysObtainableAgain`, `CallEnds`, `NobodyForgotten`, `CaughtUp`), which rest on
fairness and `ENABLED`, out of the prover's reach. Where a theorem has a hypothesis on `Ops` or
`Overlap`, the runs that check its property meet it.

## 6. Hazards

`PROJECT.json` lists them at their lines with the properties that catch them. The main families:

* the lock ends under a live holder or outlives a dead one;
* a request acts on what it read before it had the lock: cart operations, `_mark_paid`,
  `expire_orders`, order changes, the waiting list, releases of a schedule;
* the lock is gone before the commit; checkout fails or dies halfway;
* an order comes back when its ticket or voucher usage is gone; the voucher count is kept by hand;
* confirmations, failures, cancellations and refunds of payments cross each other;
* the waiting list is changed while it is served, and served by two paths; an edit writes over
  what was assigned;
* a scan is repeated, comes late, or meets another scan, a cancellation or the exit of everybody;
* callbacks survive or vanish with a rollback; a load spans a commit; a cache does not answer;
* Redis loses a counter that the database knows better, and several servers repair it.

Those without a property are the ones the code does not prevent; section 7 has them. Two hazards
have a property that holds up to a case the code does not prevent and that the property names: an
edit of a waiting list entry, and a reset to a version with a break.

## 7. Where code and documentation differ

Checked, by a run that TLC ends with a violation:

* `sales_grow`: `OrderChangeManager.commit` gives the Redis lock back before it commits; the
  ticket is sold again (`base/services/orders.py:2587`).

Seen while reading. The models keep these situations apart, as the sections above say; no run
shows them.

*Lock, sales*

* After a failed lock call the `Event` object has `_lock` set (Redis), and the next call on it
  returns as if locked (`locking.py:66`, `136`).
* Canceling an expired order gives its usage back to a blocking voucher, whose ticket was sold
  since (`orders.py:539`).
* A payment that read "pending" is accepted without the quota after the order expired
  (`base/models/orders.py:1720`).
* Extending a paid or canceled order makes it pending (`orders.py:246`), though the documented
  operation is for pending and expired orders (`doc/api-reference/resources/orders.rst:1206`).
* Removing a position credits the quota with what the cart held when it was read; two requests
  that remove the same position credit its ticket twice (`cart.py:1231`).
* `expire_orders` writes "expired" over an order paid since its list was read (`orders.py:286`).
* An order change saves the whole order as it was read (`orders.py:2521`).
* The limit of one ticket per user is checked before the lock (`orders.py:1194`).
* Reactivation counts redeemed usages of a voucher, not those reserved in carts (`orders.py:173`).
* Where a voucher that blocks quota covers a position, removing it credits the quota nevertheless,
  though the ticket goes back to the voucher (`cart.py:1231`); an expired position renewed in the
  same request is then granted a ticket that is not there.
* Reinstating a position with its add-ons checks the last usage once for each (`orders.py:2251`).
* A voucher that cannot serve the whole cart is refused (`cart.py:1069`); comments (680, 1410) and
  tests speak of partial application.
* The lock on writing the quota cache is meant to last 10 seconds and lasts one: `setex` gets time
  and value exchanged (`base/services/quotas.py:190`).

*Payments*

* A gift card payment and another payment, confirmed at the same time, each miss the other; the
  fully paid order stays pending (`payment.py:1425`). It is repaired only if the customer opens
  the page to change the payment method.
* A clerk's cancellation of a payment overwrites one confirmed meanwhile
  (`control/views/orders.py:868`).
* Two submissions of one gift card payment debit the card twice: the second one finds the payment
  confirmed and returns, inside the transaction of the debit.
* A process that dies between the two transactions of `confirm` leaves the order pending, and a
  repeated `confirm` returns early.
* A refund of part of an expired order's payments makes it pending without the quota
  (`api/views/order.py:1648`).
* The documentation says that a confirmation the quota refuses still marks the payment as complete
  (`doc/reference/unmapped/development/api/payment_2.0.rst:80`); `confirm` gives the payment its
  old state back (`ConfirmMark`), and the bank transfer import then cancels it.

*Waiting list*

* An entry served by hand asks the quota without the lock (`api/views/waitinglist.py:77`,
  `control/views/waitinglist.py:75`): those vouchers may exceed the quota.
* `send_voucher` refuses a product whose quotas are all unlimited, so whoever waits for it is
  never served, unless an entry for another product has put one of the quotas into the task's cache
  as a number (`base/services/waitinglist.py:73`).
* A long list can outlast `LOCK_TIMEOUT`; the lock is then somebody else's while the task goes on.
* An entry deleted while the task runs is written again by `save()`.
* A change of an entry checks the voucher on what was loaded before and then saves every field
  (`api/views/waitinglist.py:53`): a voucher assigned meanwhile is written over with null, and the
  entry is served a second time, though "You can only change an entry as long as no voucher is
  set" (`doc/api-reference/resources/waitinglist.rst:189`). The other way round, the task saves
  the entry as it had read it over a change made meanwhile.

*Check-in*

* Whether a position was canceled is checked before the wait for its row lock; it is admitted
  although canceled meanwhile (`base/services/checkin.py:554`).
* On a list with re-entry, late reports can leave two entries in a row without an exit between
  them.
* A forced scan that only a limit per day or gate refuses is stored as not forced.
* A repeated request after a cancellation is answered "canceled", though the documentation says
  that the second request will also succeed (`doc/api-reference/resources/checkinlists.rst`).
* `process_exit_all` dates its exits back to the configured time, before scans recorded since.

*Stale caches*

* The first two bumps of an event at the same time both find no counter, and the later `set(1)`
  can put it back; so does a cache that drops the counter. Entries of the old version 1 are then
  served again (`stale_cache.py:116`).
* The view of one schedule loads it before the key is made (`api/views/schedule.py:147`), and the
  catalog caches are bumped inside the transaction: what was read before the commit may be stored
  under the new number.

*Chat*

* After Redis lost its counter a subscriber may be told a number that is too small and miss events
  (`doc/reference/unmapped/video/developer/api/chat.rst:104` says "you will not miss any events");
  new events may get lower numbers than older ones.
* The first event of a fresh install gets the number 1, which `create_event` takes for a lost
  counter (`chat.py:351`): the repair reads 0 as the highest number and may put the counter back
  behind a second event created meanwhile, whose number is then given twice, and whoever subscribes
  then may miss that event.
* A server that stops after it has stored an event and before it sends it
  (`features/live/modules/chat.py:582`) leaves an event that only those see who fetch.
* The second attempt after a taken number drops `replaces`, so an edited message stands beside the
  old one.

*Schedules, polls*

* `unfreeze` takes no lock: it deletes the draft it has read, which may have been released
  meanwhile, and two drafts may remain; `wip_schedule` merges them when it finds more than one
  (`base/models/event.py:3299`).
* `unfreeze` looks for the "talks, which have been added since this schedule" (`schedule.py:421`)
  with NOT IN over submissions that may be null (422): a reset to a version that has a break loses
  every talk accepted since from the draft (`DraftKeepsTalks` excludes it; the talk comes back when
  its state changes).
* A release "creates a new empty WIP schedule" (`api/views/schedule.py:216`), but `freeze` copies
  every slot into it (`schedule.py:388`).
* An edit (`orga/views/schedule.py:451`) or `update_talk_slots` may change slots of a version
  released since the draft was read.
* Two organisers who change a proposal's state from the same state both succeed
  (`submission.py:500`).
* Replacing a vote, and pinning a poll, are two commits each: two votes of one user, or two pinned
  polls, may remain (`poll.py:102`, `30`).

## 8. Not modelled

* Of the modelled parts: bank transfer import, external refunds, fees, gift cards sold as
  products; seats, several quotas for an order position, bundles, the limit per user, splitting of
  orders, price and date changes; questions and custom rules at the door; memberships, direct
  messages, unread pointers and moderation in the chat; pending states of proposals, rooms and
  the times of slots; a change of the product of a waiting list entry and anonymised entries.
* Event cancellation is a loop over `_cancel_order` and refunds that `TicketSales` and
  `OrderPayments` model one by one; seats work like quotas of size one.
* Polls: nothing keeps their two commits together, so there is no promise to check.
* Prices and taxes are pure computation; invoices, exports and imports, talk import and mail are
  one pass over data or calls to outside services; the limit of connections is one atomic Redis
  script; video servers are outside.
* Views, forms, serializers, templates, migrations, settings and plugins are most of the
  repository. They stand around the services above; where one carries control that matters (the
  refund and payment endpoints, the confirmation pages, the waiting list and check-in pages) it is
  an action of a module.

`PROJECT.json` says so for each component.
