------------------------------- MODULE Checkin -------------------------------
(***************************************************************************)
(* The check-ins of one ticket (order position) on one check-in list:      *)
(* perform_checkin and process_exit_all in base/services/checkin.py, the   *)
(* API and the page of the organiser that call them, and what happens to   *)
(* the order meanwhile.                                                    *)
(*                                                                         *)
(* Devices send scans with a nonce and send them again when no answer      *)
(* comes: a scan reaches the server any number of times, late and in any   *)
(* order.                                                                  *)
(***************************************************************************)
EXTENDS Integers, Sequences

CONSTANTS
    Worker,     \* processes that handle requests
    Nonce,      \* nonces of the scans that devices make
    NoNonce,    \* the request of a browser
    GateOf,     \* the gate of the device that uses a nonce
    Lists,      \* settings of the check-in list, one of which applies
    MaxTime,    \* bound on the clock
    DayLength,  \* ticks of a day
    MaxRows,    \* bound on the check-ins of the ticket
    Ops         \* what else happens, a subset of Others

Others == {"force", "late", "clerk", "revert", "exit_all", "pay", "cancel", "die"}
Setting == [multiple : BOOLEAN,   \* allow_multiple_entries
            reentry : BOOLEAN,    \* allow_entry_after_exit
            daily : BOOLEAN,      \* limit_one_checkin_per_day
            gated : BOOLEAN,      \* limit_one_checkin_per_gate
            pending : BOOLEAN]    \* include_pending
Caller == Nonce \cup {NoNonce}

ASSUME ScanAssumption ==
    /\ NoNonce \notin Nonce
    /\ DOMAIN GateOf = Caller
    /\ Lists \subseteq Setting
    /\ Ops \subseteq Others
ASSUME BoundAssumption == MaxTime \in Nat \ {0} /\ DayLength \in Nat \ {0} /\ MaxRows \in Nat

VARIABLES
    clist,     \* the settings of the list; exit_all_at is exitAt
    now,
    order,     \* Order.status
    canceled,  \* OrderPosition.canceled
    sent,      \* the scans that devices have made
    told,      \* the scans answered with "already redeemed"
    rows,      \* the check-ins, in the order in which they were recorded
    exitAt,    \* CheckinList.exit_all_at
    leaving,   \* process_exit_all: "idle", or whether the ticket was inside
    pc,
    job        \* the request each worker handles

orderVars == <<order, canceled>>
vars == <<clist, now, order, canceled, sent, told, rows, exitAt, leaving, pc, job>>

Type == {"entry", "exit"}
Time == 0..MaxTime
Request == [type : Type, force : BOOLEAN, ignore : BOOLEAN, at : Time]
NoScan == [type |-> "none", force |-> FALSE, ignore |-> FALSE, at |-> 0]
Row == [type : Type, at : Int, nonce : Caller, forced : BOOLEAN, override : BOOLEAN]

\* The types; what is handled or recorded for a nonce is a scan made with it.
TypeOK ==
    /\ clist \in Setting
    /\ now \in Time
    /\ order \in {"n", "p", "c"}
    /\ canceled \in BOOLEAN
    /\ sent \in [Nonce -> Request \cup {NoScan}]
    /\ told \in SUBSET Nonce
    /\ rows \in Seq(Row)
    /\ exitAt \in Int
    /\ leaving \in {"idle", "inside", "outside"}
    /\ pc \in [Worker -> {"idle", "loaded", "judged"}]
    /\ job \in [Worker -> [n : Caller, type : Type, force : BOOLEAN, ignore : BOOLEAN,
                           at : Time, allowed : BOOLEAN]]
    /\ \A n \in Nonce : sent[n] = NoScan =>
         /\ \A w \in Worker : job[w].n # n
         /\ \A i \in DOMAIN rows : rows[i].nonce # n

NoJob == [n |-> NoNonce, type |-> "entry", force |-> FALSE, ignore |-> FALSE, at |-> 0,
          allowed |-> FALSE]

\* A position bought through certain sales channels is checked in at once (order_placed).
AutoRow == [type |-> "entry", at |-> 1, nonce |-> NoNonce, forced |-> FALSE, override |-> FALSE]

Init ==
    /\ clist \in Lists
    /\ now = 1
    /\ order \in {"n", "p"}
    /\ canceled = FALSE
    /\ sent = [n \in Nonce |-> NoScan]
    /\ told = {}
    /\ rows \in {<<>>, <<AutoRow>>}
    /\ exitAt = DayLength
    /\ leaving = "idle"
    /\ pc = [w \in Worker |-> "idle"]
    /\ job = [w \in Worker |-> NoJob]

-----------------------------------------------------------------------------
(* What the code asks about the rows *)

Midnight(t) == (t \div DayLength) * DayLength

\* Rows that may be first in the order of -datetime: of equal times any.
Latest == {i \in DOMAIN rows : \A k \in DOMAIN rows : rows[k].at <= rows[i].at}

\* entry_allowed, from the settings and the latest row ({} when there is none).
EntryAllowed(type, last) ==
    \/ type = "exit"
    \/ clist.multiple
    \/ last = {}
    \/ clist.reentry /\ \A r \in last : r.type = "exit"

\* Mutant: only earlier entries of the day count.
LimitViolated_Earlier(n, at) ==
    /\ clist.daily \/ clist.gated
    /\ \E i \in DOMAIN rows :
         /\ rows[i].type = "entry"
         /\ clist.daily => rows[i].at \in Midnight(at)..at
         /\ clist.gated => GateOf[rows[i].nonce] = GateOf[n]

\* _entry_limit_violated
LimitViolated(n, at) ==
    /\ clist.daily \/ clist.gated
    /\ \E i \in DOMAIN rows :
         /\ rows[i].type = "entry"
         /\ clist.daily => rows[i].at >= Midnight(at)
         /\ clist.gated => GateOf[rows[i].nonce] = GateOf[n]

\* Mutant: only the last check-in is compared.
Repeated_Last(j, last) == j.n # NoNonce /\ \E r \in last : r.nonce = j.n
\* The request has been recorded before.
Repeated(j, last) ==
    /\ j.n # NoNonce
    /\ \/ \E r \in last : r.nonce = j.n
       \/ \E i \in DOMAIN rows : rows[i].type = j.type /\ rows[i].nonce = j.n

Allowed(j, last) ==
    /\ EntryAllowed(j.type, last)
    /\ ~(j.type = "entry" /\ ~j.force /\ LimitViolated(j.n, j.at))

\* Mutant: refused before it is compared with what was recorded.
Verdict_RefuseFirst(j, last) ==
    IF ~Allowed(j, last) /\ ~j.force THEN "redeemed" ELSE IF Repeated(j, last) THEN "repeated" ELSE "record"
Verdict(j, last) ==
    IF Repeated(j, last) THEN "repeated" ELSE IF Allowed(j, last) \/ j.force THEN "record" ELSE "redeemed"

\* Mutant: no select_for_update.
PositionFree_NoLock == TRUE
\* select_for_update on the position: one request at a time gets past it.
PositionFree == \A w \in Worker : pc[w] # "judged"

Paid(j) == order = "p" \/ j.force \/ (j.ignore /\ clist.pending /\ order = "n")

\* CheckinList.positions_inside
Inside ==
    /\ ~canceled /\ order \in (IF clist.pending THEN {"n", "p"} ELSE {"p"})
    /\ \E i \in DOMAIN rows :
         /\ rows[i].type = "entry"
         /\ \A k \in DOMAIN rows : rows[k].type = "exit" => rows[k].at < rows[i].at

-----------------------------------------------------------------------------
(* Devices and time *)

Tick == now < MaxTime /\ now' = now + 1
        /\ UNCHANGED <<clist, orderVars, sent, told, rows, exitAt, leaving, pc, job>>

\* Mutant: a request without its parameters is accepted.
Made_Anyway(n) == TRUE
Made(n) == sent[n] # NoScan

Choice(b) == IF b THEN BOOLEAN ELSE {FALSE}

\* A ticket is scanned; a device that reports later sends the time with it.
Scan(n) ==
    /\ ~Made(n)
    /\ \E type \in Type, force \in Choice("force" \in Ops), ignore \in Choice(clist.pending) :
       \E at \in {0} \cup (IF "late" \in Ops THEN {now} ELSE {}) :
         sent' = [sent EXCEPT ![n] = [type |-> type, force |-> force, ignore |-> ignore, at |-> at]]
    /\ UNCHANGED <<clist, now, orderVars, told, rows, exitAt, leaving, pc, job>>

-----------------------------------------------------------------------------
(* perform_checkin *)

Answer(w, a) ==
    /\ told' = IF a = "redeemed" THEN told \cup ({job[w].n} \ {NoNonce}) ELSE told
    /\ pc' = [pc EXCEPT ![w] = "idle"]
    /\ job' = [job EXCEPT ![w] = NoJob]

\* The view loads the position with its order: both are judged as they were then.
Accepts == ~canceled /\ order \in {"n", "p"}

LoadScan(w, n) ==
    /\ pc[w] = "idle"
    /\ Made(n)
    /\ Accepts   \* otherwise the answer is "unpaid" or "canceled" and nothing happens
    /\ pc' = [pc EXCEPT ![w] = "loaded"]
    /\ job' = [job EXCEPT ![w] =
         [n |-> n, type |-> sent[n].type, force |-> sent[n].force, ignore |-> sent[n].ignore,
          at |-> IF sent[n].at = 0 THEN now ELSE sent[n].at, allowed |-> FALSE]]
    /\ UNCHANGED <<clist, now, orderVars, sent, told, rows, exitAt, leaving>>

\* A clerk marks the ticket on the organiser's page.
LoadClerk(w) ==
    /\ "clerk" \in Ops
    /\ pc[w] = "idle"
    /\ Accepts /\ (order = "p" \/ clist.pending)
    /\ \E type \in Type :
         job' = [job EXCEPT ![w] = [n |-> NoNonce, type |-> type, force |-> FALSE,
                                    ignore |-> clist.pending, at |-> now, allowed |-> FALSE]]
    /\ pc' = [pc EXCEPT ![w] = "loaded"]
    /\ UNCHANGED <<clist, now, orderVars, sent, told, rows, exitAt, leaving>>

\* Under the lock on the position: the order is read again, then the check-ins.
Judge(w) ==
    LET j == job[w] IN
    /\ pc[w] = "loaded"
    /\ PositionFree
    /\ IF ~Paid(j) THEN Answer(w, "unpaid") ELSE
       \E last \in IF rows = <<>> THEN {{}} ELSE {{rows[i]} : i \in Latest} :
         \/ Verdict(j, last) = "repeated" /\ Answer(w, "ok")
         \/ Verdict(j, last) = "redeemed" /\ Answer(w, "redeemed")
         \/ /\ Verdict(j, last) = "record"
            /\ pc' = [pc EXCEPT ![w] = "judged"]
            /\ job' = [job EXCEPT ![w].allowed = Allowed(j, last)]
            /\ UNCHANGED told
    /\ UNCHANGED <<clist, now, orderVars, sent, rows, exitAt, leaving>>

\* ... and the check-in is created and committed.
Record(w) ==
    LET j == job[w] IN
    /\ pc[w] = "judged"
    /\ Len(rows) < MaxRows
    /\ rows' = Append(rows, [type |-> j.type, at |-> j.at, nonce |-> j.n,
                             forced |-> j.force /\ ~j.allowed, override |-> j.force])
    /\ Answer(w, "ok")
    /\ UNCHANGED <<clist, now, orderVars, sent, exitAt, leaving>>

\* The process ends, its transaction is rolled back, nobody is told.
Die(w) ==
    /\ "die" \in Ops
    /\ pc[w] # "idle"
    /\ pc' = [pc EXCEPT ![w] = "idle"]
    /\ job' = [job EXCEPT ![w] = NoJob]
    /\ UNCHANGED <<clist, now, orderVars, sent, told, rows, exitAt, leaving>>

-----------------------------------------------------------------------------
(* The organiser *)

\* "Revert check-ins" deletes without a lock.
Revert ==
    /\ "revert" \in Ops
    /\ rows # <<>> /\ Accepts /\ (order = "p" \/ clist.pending)
    /\ rows' = <<>>
    /\ UNCHANGED <<clist, now, orderVars, sent, told, exitAt, leaving, pc, job>>

\* process_exit_all: who is inside is read, then exits are recorded for the time
\* at which everybody was to leave; who came or left in between is not read again.
ExitAllRead ==
    /\ "exit_all" \in Ops
    /\ leaving = "idle" /\ exitAt <= now
    /\ leaving' = IF Inside THEN "inside" ELSE "outside"
    /\ UNCHANGED <<clist, now, orderVars, sent, told, rows, exitAt, pc, job>>

ExitAllWrite ==
    /\ leaving = "inside"
    /\ PositionFree     \* the new row refers to the position
    /\ Len(rows) < MaxRows
    /\ rows' = Append(rows, [type |-> "exit", at |-> exitAt, nonce |-> NoNonce,
                             forced |-> FALSE, override |-> FALSE])
    /\ leaving' = "outside"
    /\ UNCHANGED <<clist, now, orderVars, sent, told, exitAt, pc, job>>

ExitAllDone ==
    /\ leaving = "outside"
    /\ exitAt' = exitAt + DayLength
    /\ leaving' = "idle"
    /\ UNCHANGED <<clist, now, orderVars, sent, told, rows, pc, job>>

ExitAllDie ==
    /\ "die" \in Ops
    /\ leaving # "idle"
    /\ leaving' = "idle"
    /\ UNCHANGED <<clist, now, orderVars, sent, told, rows, exitAt, pc, job>>

Pay == order = "n" /\ order' = "p" /\ canceled' = canceled
\* A refund takes a paid order back to pending.
Unpay == order = "p" /\ order' = "n" /\ canceled' = canceled
\* _cancel_order: without a fee the order is canceled and its positions stay; with a fee
\* the order is paid and its positions are canceled, as when the order is changed.
CancelOrder == order # "c" /\ order' = "c" /\ canceled' = canceled
\* The position is written, which waits for the lock on its row.
CancelPosition == PositionFree /\ ~canceled /\ canceled' = TRUE /\ order' \in {order, "p"}
Reactivate == order = "c" /\ order' \in {"n", "p"} /\ canceled' = canceled

OrderChanges ==
    /\ \/ "pay" \in Ops /\ (Pay \/ Unpay)
       \/ "cancel" \in Ops /\ (CancelOrder \/ CancelPosition \/ Reactivate)
    /\ UNCHANGED <<clist, now, sent, told, rows, exitAt, leaving, pc, job>>

Next ==
    \/ Tick \/ Revert \/ OrderChanges
    \/ ExitAllRead \/ ExitAllWrite \/ ExitAllDone \/ ExitAllDie
    \/ \E n \in Nonce : Scan(n)
    \/ \E w \in Worker, n \in Nonce : LoadScan(w, n)
    \/ \E w \in Worker : LoadClerk(w) \/ Judge(w) \/ Record(w) \/ Die(w)

Spec == Init /\ [][Next]_vars

-----------------------------------------------------------------------------
(* Properties *)

\* A list that allows neither several entries nor coming back admits a ticket once,
\* whatever requests, repetitions and reports cross each other; what was forced is
\* marked so ("This ticket has already been redeemed.").
OneEntry ==
    ~clist.multiple /\ ~clist.reentry =>
      \A i, k \in DOMAIN rows :
        /\ rows[i].type = "entry" /\ ~rows[i].forced
        /\ rows[k].type = "entry" /\ ~rows[k].forced
        => i = k

\* "Each ticket can only be checked in once per calendar day on this list, even after an
\* exit scan", "once per gate", or "one entry per gate per day": unless it is forced,
\* also when reports of days ago come in late.
OncePerLimit ==
    clist.daily \/ clist.gated =>
      \A i, k \in DOMAIN rows :
        /\ rows[i].type = "entry" /\ ~rows[i].override
        /\ rows[k].type = "entry" /\ ~rows[k].override
        /\ clist.daily => Midnight(rows[i].at) = Midnight(rows[k].at)
        /\ clist.gated => GateOf[rows[i].nonce] = GateOf[rows[k].nonce]
        => i = k

\* "If you're sending this request twice with the same nonce, the second request ...
\* will always create only one check-in" (checkinlists.rst), whatever was scanned between.
NonceOnce ==
    \A i, k \in DOMAIN rows :
      /\ rows[i].nonce # NoNonce
      /\ rows[i].nonce = rows[k].nonce /\ rows[i].type = rows[k].type
      => i = k

\* "... the second request will also succeed": a device that repeats a scan which was
\* recorded is never told that the ticket was used by somebody else.
RetryAnswered ==
    [][\A n \in Nonce :
         (\E i \in DOMAIN rows : rows[i].nonce = n) =>
           (n \in told' => n \in told)]_vars

=============================================================================
