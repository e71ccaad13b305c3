----------------------------- MODULE WaitingList -----------------------------
(***************************************************************************)
(* The waiting list of an event: assign_automatically of                   *)
(* base/services/waitinglist.py, which gives vouchers to those who wait    *)
(* under the event lock, WaitingListEntry.send_voucher, which the API and  *)
(* the organiser's page call without that lock, the organiser's other      *)
(* requests, which save or delete an entry they loaded before, and those   *)
(* who take tickets from the same quotas meanwhile.                        *)
(*                                                                         *)
(* A claim is a place of a quota: a ticket of an order or a voucher that   *)
(* blocks quota.                                                           *)
(***************************************************************************)
EXTENDS Integers, FiniteSets

CONSTANTS
    NumEntries, \* people who may join, numbered by the date they join
    Claim,      \* ids of tickets and vouchers, numbers
    Staff,      \* requests of the organiser
    Product, Quota,
    QuotasOf,   \* the quotas that count a product
    WaitsFor,   \* what each person waits for
    Sizes,      \* Quota.size
    Ending,     \* products whose sale may end
    Moves,      \* move_top gives the priority 1, move_end -1
    Handled,    \* bound: the entries that the organiser deals with
    MaxDate,    \* bound: dates of joining
    Ops         \* what happens, a subset of Others

Entry == 1..NumEntries
Unlimited == -1     \* size None
Lapsed == -1        \* a voucher that is not valid any more
Unread == -2        \* a quota that is not in quota_cache
Plenty == 1000      \* sys.maxsize
Others == {"hand", "delete", "edit", "move", "die"}

ASSUME PeopleAssumption ==
    /\ NumEntries \in Nat /\ MaxDate \in Nat
    /\ Claim \subseteq Nat \ {0} /\ IsFiniteSet(Claim)
    /\ Product # {} /\ Ending \subseteq Product /\ Moves \subseteq {-1, 1} /\ Ops \subseteq Others
ASSUME QuotaAssumption ==
    /\ QuotasOf \in [Product -> SUBSET Quota]
    /\ WaitsFor \in [Entry -> Product]
    /\ Sizes \in [Quota -> Nat \cup {Unlimited}]

VARIABLES
    row,      \* "none" yet, in the "list", or "deleted"
    voucher,  \* WaitingListEntry.voucher: a claim, Lapsed, or 0 for null
    given,    \* history: whom the list has assigned a voucher that no edit has written over
    prio,     \* WaitingListEntry.priority
    date,     \* WaitingListEntry.created
    claim,    \* tickets and vouchers
    onSale,   \* products for which presale is running and is_available() holds
    task,     \* assign_automatically, which holds the event lock
    job       \* send_voucher, a deletion or an edit by hand, with the entry it has loaded

vars == <<row, voucher, given, prio, date, claim, onSale, task, job>>

Prio == -1..1
States == {"none", "ticket", "voucher"}
NoClaim == [st |-> "none", product |-> CHOOSE p \in Product : TRUE, entry |-> 0, hand |-> FALSE]
Idle == [pc |-> "idle", read |-> {}, todo |-> {}, done |-> {}, prio |-> [e \in Entry |-> 0],
         date |-> [e \in Entry |-> 0], cache |-> [q \in Quota |-> Unread], gone |-> {}, sale |-> {}, e |-> 0]
NoJob == [pc |-> "idle", e |-> 0, prio |-> 0, date |-> 0]

\* The types; a claim knows its entry, an entry that has a voucher has one that was made for it.
TypeOK ==
    /\ row \in [Entry -> {"none", "list", "deleted"}]
    /\ voucher \in [Entry -> Claim \cup {0, Lapsed}]
    /\ given \subseteq Entry
    /\ prio \in [Entry -> Prio] /\ date \in [Entry -> Nat]
    /\ claim \in [Claim -> [st : States, product : Product, entry : Entry \cup {0}, hand : BOOLEAN]]
    /\ onSale \in SUBSET Product
    /\ task \in [pc : {"idle", "next", "send"}, read : SUBSET Entry, todo : SUBSET Entry,
                 done : SUBSET Entry, prio : [Entry -> Prio], date : [Entry -> Nat],
                 cache : [Quota -> Nat \cup {Unlimited, Unread}], gone : SUBSET Product,
                 sale : SUBSET Product, e : Entry \cup {0}]
    /\ job \in [Staff -> [pc : {"idle", "send", "delete", "edit"}, e : Entry \cup {0}, prio : Prio, date : Nat]]
    /\ \A e \in Entry : voucher[e] \in Claim =>
         claim[voucher[e]].st # "none" /\ claim[voucher[e]].entry = e

Init ==
    /\ row = [e \in Entry |-> "none"]
    /\ voucher = [e \in Entry |-> 0]
    /\ given = {}
    /\ prio = [e \in Entry |-> 0] /\ date = [e \in Entry |-> e]
    /\ claim = [c \in Claim |-> NoClaim]
    /\ onSale = Product
    /\ task = Idle
    /\ job = [s \in Staff |-> NoJob]

-----------------------------------------------------------------------------
(* Quotas *)

\* Those who count for a quota: tickets of orders, valid vouchers that block quota.
Uses(q) == {c \in Claim : claim[c].st \in {"ticket", "voucher"} /\ q \in QuotasOf[claim[c].product]}
Used(q) == Cardinality(Uses(q))

\* voucher__isnull=True
Waiting(e) == row[e] = "list" /\ voucher[e] = 0
WaitingFor(q) == Cardinality({e \in Entry : Waiting(e) /\ q \in QuotasOf[WaitsFor[e]]})

\* Mutant: those who wait are counted.
Left_CountsWaiting(q) == IF Sizes[q] = Unlimited THEN Unlimited
           ELSE IF Used(q) + WaitingFor(q) < Sizes[q] THEN Sizes[q] - Used(q) - WaitingFor(q) ELSE 0
\* QuotaAvailability with count_waitinglist=False, for one quota
Left(q) == IF Sizes[q] = Unlimited THEN Unlimited
           ELSE IF Used(q) < Sizes[q] THEN Sizes[q] - Used(q) ELSE 0
\* ... and with it: a ticket is left that nobody waits for.
LeftOver(q) == Sizes[q] = Unlimited \/ Sizes[q] - Used(q) - WaitingFor(q) >= 1

\* check_quotas: the least of the quotas, None if all are unlimited
Roomy(p, left) == \A q \in QuotasOf[p] : left[q] = Unlimited \/ left[q] >= 1
Limited(p, left) == \E q \in QuotasOf[p] : left[q] # Unlimited

Unused == {c \in Claim : claim[c].st = "none"}
NewClaim == CHOOSE c \in Unused : TRUE
LockFree == task.pc = "idle"

-----------------------------------------------------------------------------
(* People *)

\* Somebody joins a list for what is not available.
Join(e) ==
    /\ row[e] = "none" /\ \A f \in 1..(e - 1) : row[f] # "none"
    /\ \E q \in QuotasOf[WaitsFor[e]] : ~LeftOver(q)
    /\ row' = [row EXCEPT ![e] = "list"]
    /\ UNCHANGED <<voucher, given, prio, date, claim, onSale, task, job>>

\* A ticket is sold, under the lock: the quota counts those who wait.
Buy(p) ==
    /\ LockFree /\ p \in onSale
    /\ \A q \in QuotasOf[p] : LeftOver(q)
    /\ Unused # {}
    /\ claim' = [claim EXCEPT ![NewClaim] =
                   [st |-> "ticket", product |-> p, entry |-> 0, hand |-> FALSE]]
    /\ UNCHANGED <<row, voucher, given, prio, date, onSale, task, job>>

\* A voucher is used, under the lock; what it blocked is the ticket.
Redeem(c) ==
    /\ LockFree /\ claim[c].st = "voucher"
    /\ claim' = [claim EXCEPT ![c].st = "ticket"]
    /\ UNCHANGED <<row, voucher, given, prio, date, onSale, task, job>>

\* The claim is no more; a voucher stays with its entry, but is not valid.
Drop(c) ==
    /\ claim' = [claim EXCEPT ![c] = NoClaim]
    /\ voucher' = [e \in Entry |-> IF voucher[e] = c THEN Lapsed ELSE voucher[e]]

\* An order is canceled.  The voucher it used may be used again if it is still valid.
Cancel(c) ==
    /\ claim[c].st = "ticket"
    /\ \/ Drop(c)
       \/ /\ claim[c].entry # 0
          /\ claim' = [claim EXCEPT ![c].st = "voucher"]
          /\ UNCHANGED voucher
    /\ UNCHANGED <<row, given, prio, date, onSale, task, job>>

\* valid_until is over (waiting_list_hours).
Lapse(c) ==
    /\ claim[c].st = "voucher"
    /\ Drop(c)
    /\ UNCHANGED <<row, given, prio, date, onSale, task, job>>

-----------------------------------------------------------------------------
(* send_voucher *)

\* Mutant: the voucher is not saved.
Give_NotSaved(e, p, byHand) ==
    /\ Unused # {}
    /\ voucher' = [voucher EXCEPT ![e] = NewClaim]
    /\ row' = [row EXCEPT ![e] = "list"]
    /\ prio' = [prio EXCEPT ![e] = p]
    /\ UNCHANGED <<claim, date>>
\* The transaction: a voucher, and the entry saved as it was loaded, which brings back
\* a row that was deleted since; its date is of no use any more.
Give(e, p, byHand) ==
    /\ Unused # {}
    /\ claim' = [claim EXCEPT ![NewClaim] =
                   [st |-> "voucher", product |-> WaitsFor[e], entry |-> e, hand |-> byHand]]
    /\ voucher' = [voucher EXCEPT ![e] = NewClaim]
    /\ row' = [row EXCEPT ![e] = "list"]
    /\ prio' = [prio EXCEPT ![e] = p]
    /\ UNCHANGED date

-----------------------------------------------------------------------------
(* assign_automatically *)

\* Mutant: by date alone.
Ahead_NoPriority(e, f, p, d) == d[e] < d[f]
\* order_by("-priority", "created")
Ahead(e, f, p, d) == p[e] > p[f] \/ (p[e] = p[f] /\ d[e] < d[f])

\* Mutant: vouchers are not looked at.
Candidates_All == {e \in Entry : row[e] = "list"}
Candidates == {e \in Entry : Waiting(e)}

\* The periodic task, or a canceled or changed order: the list is read under the lock.
AssignRead ==
    /\ LockFree
    /\ \E e \in Entry : Waiting(e)
    /\ task' = [Idle EXCEPT !.pc = "next", !.read = Candidates, !.todo = Candidates,
                             !.prio = prio, !.date = date, !.sale = onSale]
    /\ UNCHANGED <<row, voucher, given, prio, date, claim, onSale, job>>

Turn(e) ==
    /\ task.pc = "next" /\ e \in task.todo
    /\ \A f \in task.todo \ {e} : Ahead(e, f, task.prio, task.date)

\* The product has been found sold out before, or is not on sale.
AssignSkip(e) ==
    LET p == WaitsFor[e] IN
    /\ Turn(e)
    /\ p \in task.gone \/ p \notin task.sale
    /\ task' = [task EXCEPT !.todo = @ \ {e}, !.gone = @ \cup ({p} \ task.sale)]
    /\ UNCHANGED <<row, voucher, given, prio, date, claim, onSale, job>>

\* Quotas that have been asked before are answered from the cache.
Asked(p) == [q \in Quota |-> IF q \in QuotasOf[p] /\ task.cache[q] = Unread THEN Left(q) ELSE task.cache[q]]

\* assign_automatically takes None for room, send_voucher does not.
AssignLook(e) ==
    LET p == WaitsFor[e] left == Asked(p) IN
    /\ Turn(e)
    /\ p \notin task.gone /\ p \in task.sale
    /\ \/ /\ Roomy(p, left) /\ Limited(p, left)
          /\ task' = [task EXCEPT !.pc = "send", !.cache = left, !.e = e]
       \/ /\ ~(Roomy(p, left) /\ Limited(p, left))
          /\ task' = [task EXCEPT !.cache = left, !.todo = @ \ {e},
                                  !.gone = IF Roomy(p, left) THEN @ ELSE @ \cup {p}]
    /\ UNCHANGED <<row, voucher, given, prio, date, claim, onSale, job>>

\* Mutant: the quotas of the product are not reduced in the cache.
Reduced_Not(p) == task.cache
\* "Reduce affected quotas in cache"
Reduced(p) == [q \in Quota |-> IF q \notin QuotasOf[p] THEN task.cache[q]
                               ELSE IF task.cache[q] = Unlimited THEN Plenty ELSE task.cache[q] - 1]

AssignSend ==
    /\ task.pc = "send"
    /\ Give(task.e, task.prio[task.e], FALSE)
    /\ given' = given \cup {task.e}
    /\ task' = [task EXCEPT !.pc = "next", !.todo = @ \ {task.e}, !.done = @ \cup {task.e},
                            !.cache = Reduced(WaitsFor[task.e]), !.e = 0]
    /\ UNCHANGED <<onSale, job>>

AssignEnd ==
    /\ task.pc = "next" /\ task.todo = {}
    /\ task' = Idle
    /\ UNCHANGED <<row, voucher, given, prio, date, claim, onSale, job>>

\* The process dies with work left; the lock is free after its timeout.
AssignDie ==
    /\ "die" \in Ops
    /\ task.pc # "idle" /\ task.todo # {}
    /\ task' = Idle
    /\ UNCHANGED <<row, voucher, given, prio, date, claim, onSale, job>>

-----------------------------------------------------------------------------
(* The organiser *)

\* A view has loaded the entry.
Loaded(what, e) == [pc |-> what, e |-> e, prio |-> prio[e], date |-> date[e]]

\* The view loads the entry and asks the quotas, without the lock.
HandLook(s, e) ==
    LET left == [q \in Quota |-> Left(q)] IN
    /\ "hand" \in Ops
    /\ job[s].pc = "idle" /\ e \in Handled /\ Waiting(e)
    /\ Roomy(WaitsFor[e], left) /\ Limited(WaitsFor[e], left)
    /\ job' = [job EXCEPT ![s] = Loaded("send", e)]
    /\ UNCHANGED <<row, voucher, given, prio, date, claim, onSale, task>>

HandSend(s) ==
    /\ job[s].pc = "send"
    /\ Give(job[s].e, job[s].prio, TRUE)
    /\ job' = [job EXCEPT ![s] = NoJob]
    /\ UNCHANGED <<given, onSale, task>>

\* "This entry can not be deleted as it has already been assigned a voucher."
DeleteLook(s, e) ==
    /\ "delete" \in Ops
    /\ job[s].pc = "idle" /\ e \in Handled /\ Waiting(e)
    /\ job' = [job EXCEPT ![s] = Loaded("delete", e)]
    /\ UNCHANGED <<row, voucher, given, prio, date, claim, onSale, task>>

Delete(s) ==
    LET e == job[s].e IN
    /\ job[s].pc = "delete"
    /\ row' = [row EXCEPT ![e] = "deleted"]
    /\ voucher' = [voucher EXCEPT ![e] = 0]
    /\ job' = [job EXCEPT ![s] = NoJob]
    /\ UNCHANGED <<given, prio, date, claim, onSale, task>>

\* "This entry can not be changed as it has already been assigned a voucher."
EditLook(s, e) ==
    /\ "edit" \in Ops
    /\ job[s].pc = "idle" /\ e \in Handled /\ Waiting(e)
    /\ job' = [job EXCEPT ![s] = Loaded("edit", e)]
    /\ UNCHANGED <<row, voucher, given, prio, date, claim, onSale, task>>

\* Bound: a priority is given while nobody has one.
NewPrios == IF \A e \in Entry : prio[e] = 0 THEN Moves ELSE {}

\* A date after all others.  Bound: MaxDate.
Later == {d \in 1..MaxDate : (\A e \in Entry : date[e] < d) /\ \A s \in Staff : job[s].date < d}

\* PUT, PATCH: the entry is saved as it was loaded, whatever was assigned since; the priority may
\* be one of the fields to change.  A row that was deleted since is a new one, at the end.
Edit(s) ==
    LET e == job[s].e IN
    /\ job[s].pc = "edit"
    /\ row' = [row EXCEPT ![e] = "list"]
    /\ voucher' = [voucher EXCEPT ![e] = 0]
    /\ given' = given \ {e}
    /\ \E p \in {job[s].prio} \cup NewPrios : prio' = [prio EXCEPT ![e] = p]
    /\ \E d \in IF row[e] = "deleted" THEN Later ELSE {job[s].date} : date' = [date EXCEPT ![e] = d]
    /\ job' = [job EXCEPT ![s] = NoJob]
    /\ UNCHANGED <<claim, onSale, task>>

\* move_top and move_end save the priority alone.
Move(e) ==
    /\ "move" \in Ops
    /\ e \in Handled /\ row[e] = "list"
    /\ \E p \in NewPrios : prio' = [prio EXCEPT ![e] = p]
    /\ UNCHANGED <<row, voucher, given, date, claim, onSale, task, job>>

\* A product is taken off sale (its end of sale, the end of presale).
EndSale(p) ==
    /\ p \in Ending \cap onSale
    /\ onSale' = onSale \ {p}
    /\ UNCHANGED <<row, voucher, given, prio, date, claim, task, job>>

-----------------------------------------------------------------------------

Assign == AssignRead \/ AssignSend \/ AssignEnd \/ \E e \in Entry : AssignSkip(e) \/ AssignLook(e)

Next ==
    \/ Assign \/ AssignDie
    \/ \E e \in Entry : Join(e) \/ Move(e)
    \/ \E p \in Product : Buy(p) \/ EndSale(p)
    \/ \E c \in Claim : Redeem(c) \/ Cancel(c) \/ Lapse(c)
    \/ \E s \in Staff, e \in Entry : HandLook(s, e) \/ DeleteLook(s, e) \/ EditLook(s, e)
    \/ \E s \in Staff : HandSend(s) \/ Delete(s) \/ Edit(s)

Spec == Init /\ [][Next]_vars

\* The periodic task comes again and again and goes through the list.
FairSpec == Spec /\ WF_vars(Assign)

-----------------------------------------------------------------------------
(* Properties *)

\* Vouchers the organiser sent by hand, whose quota was asked without the lock.
ByHand(q) == {c \in Uses(q) : claim[c].hand}

\* "making sure your limit is never exceeded" (concepts.rst): whatever shares the quotas, a
\* list that is assigned automatically promises no ticket that is sold or promised; what
\* is too much was sent by hand.
PromisesFit ==
    \A q \in Quota : Sizes[q] # Unlimited => Cardinality(Uses(q) \ ByHand(q)) <= Sizes[q]

\* "A voucher has already been sent to this person.": however often the list is assigned and
\* whatever is bought, canceled, moved, deleted and sent by hand meanwhile, it gives a second
\* voucher for an entry only if the organiser has saved, over the first, the entry as they had
\* loaded it before.
AutoOnce == [][\A e \in Entry : AssignSend /\ task.e = e => e \notin given]_vars

\* "it will be reserved for the first person on the waiting list": nobody gets a voucher while
\* somebody who was ahead in the list that was read, for the same product, has not got one yet.
FirstComesFirst ==
    [][\A e \in Entry : AssignSend /\ task.e = e =>
         \A f \in task.read \ (task.done \cup {e}) :
             WaitsFor[f] = WaitsFor[e] =>
               task.prio[f] < task.prio[e] \/ (task.prio[f] = task.prio[e] /\ task.date[f] > task.date[e])]_vars

\* "If ticket capacity becomes free, automatically create a voucher": nobody waits for ever for
\* a product on sale whose quotas have room, whoever else is in the list.
NobodyForgotten ==
    <>[][~AssignDie]_vars =>
      \A e \in Entry :
        ~<>[](/\ Waiting(e) /\ WaitsFor[e] \in onSale
              /\ \A q \in QuotasOf[WaitsFor[e]] : Sizes[q] = Unlimited \/ Used(q) < Sizes[q])
=============================================================================
