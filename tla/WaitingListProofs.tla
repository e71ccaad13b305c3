-------------------------- MODULE WaitingListProofs --------------------------
(***************************************************************************)
(* Proofs about WaitingList, for any number of people, requests, products  *)
(* and quotas of any size.  The invariant says what the task may rely on   *)
(* while it goes through the list with what it read at its start: nobody   *)
(* it has still to serve has a voucher from the list, and what its         *)
(* cache still grants is free, because all who add claims wait for the     *)
(* lock, except the organiser, whose claims the bound leaves out.          *)
(***************************************************************************)
EXTENDS WaitingList, FiniteSetTheorems, TLAPS

\* Claims that were granted under the lock.
Kept(q) ==
    {c \in Claim : claim[c].st \in {"ticket", "voucher"} /\ ~claim[c].hand /\ q \in QuotasOf[claim[c].product]}

\* What is sent was in the list, and the cache has room for it.
Sending ==
    task.pc = "send" =>
      /\ task.e \in task.todo
      /\ \A q \in QuotasOf[WaitsFor[task.e]] : task.cache[q] = Unlimited \/ task.cache[q] >= 1

Named == \A s \in Staff : job[s].pc # "idle" => job[s].e \in Entry

NoTask == task.pc = "idle" => task = Idle

Types == TypeOK /\ Sending /\ Named /\ NoTask

\* Who was given a voucher is no longer waiting, nor is the task about to serve them.
Once == \A e \in given : row[e] # "none" /\ ~Waiting(e) /\ e \notin task.todo

\* What the cache grants is free.
Free(q) ==
    Sizes[q] # Unlimited =>
      /\ Cardinality(Kept(q)) <= Sizes[q]
      /\ task.cache[q] # Unread =>
           task.cache[q] \in Nat /\ Cardinality(Kept(q)) + task.cache[q] <= Sizes[q]

IInv == Types /\ Once /\ \A q \in Quota : Free(q)

-----------------------------------------------------------------------------
(* Claims *)

\* A new claim is one that was not in use.
LEMMA NewIsUnused == Unused # {} => NewClaim \in Claim /\ claim[NewClaim].st = "none"
  BY DEF NewClaim, Unused

\* Sets of claims are finite; a part is not more than the whole.
LEMMA Fewer ==
  ASSUME NEW S, NEW T, S \subseteq T, T \subseteq Claim
  PROVE  Cardinality(S) \in Nat /\ Cardinality(T) \in Nat /\ Cardinality(S) <= Cardinality(T)
<1>1. IsFiniteSet(T)
  BY PeopleAssumption, FS_Subset
<1> QED
  BY <1>1, FS_Subset, FS_CardinalityType

\* One more claim is at most one more.
LEMMA OneMore ==
  ASSUME NEW S, NEW T, NEW c \in Claim, T \subseteq S \cup {c}, S \subseteq Claim
  PROVE  Cardinality(S) \in Nat /\ Cardinality(T) \in Nat /\ Cardinality(T) <= Cardinality(S) + 1
<1>1. IsFiniteSet(S)
  BY PeopleAssumption, FS_Subset
<1>0. Cardinality(S) \in Nat
  BY <1>1, FS_CardinalityType
<1>a. IsFiniteSet(S \cup {c}) /\ (Cardinality(S \cup {c}) = IF c \in S THEN Cardinality(S) ELSE Cardinality(S) + 1)
  BY <1>1, FS_AddElement
<1>2. IsFiniteSet(S \cup {c}) /\ Cardinality(S \cup {c}) <= Cardinality(S) + 1
  BY <1>0, <1>a
<1>3. Cardinality(T) <= Cardinality(S \cup {c})
  BY <1>2, FS_Subset
<1>4. Cardinality(S) \in Nat /\ Cardinality(T) \in Nat /\ Cardinality(S \cup {c}) \in Nat
  BY <1>1, <1>2, FS_Subset, FS_CardinalityType
<1> QED
  BY <1>2, <1>3, <1>4

\* What was granted under the lock is what is used less what was sent by hand.
LEMMA KeptIs == \A q \in Quota : Uses(q) \ ByHand(q) = Kept(q) /\ Kept(q) \subseteq Uses(q) /\ Uses(q) \subseteq Claim
  BY DEF Uses, ByHand, Kept

-----------------------------------------------------------------------------
(* Types *)

LEMMA ClaimTypes == NoClaim \in [st : States, product : Product, entry : Entry \cup {0}, hand : BOOLEAN]
<1>1. (CHOOSE p \in Product : TRUE) \in Product
  BY PeopleAssumption
<1> QED
  BY <1>1 DEF NoClaim, States

TaskType ==
    [pc : {"idle", "next", "send"}, read : SUBSET Entry, todo : SUBSET Entry, done : SUBSET Entry,
     prio : [Entry -> Prio], date : [Entry -> Nat], cache : [Quota -> Nat \cup {Unlimited, Unread}],
     gone : SUBSET Product, sale : SUBSET Product, e : Entry \cup {0}]

JobType == [Staff -> [pc : {"idle", "send", "delete", "edit"}, e : Entry \cup {0}, prio : Prio, date : Nat]]

LEMMA IdleTypes == Idle \in TaskType /\ Idle.pc = "idle"
  BY DEF Idle, TaskType, Prio

\* A step of the task that changes nothing else.
LEMMA TaskOnly ==
  ASSUME TypeOK, task' \in TaskType, UNCHANGED <<row, voucher, given, prio, date, claim, onSale, job>>
  PROVE  TypeOK'
<1>1. row' = row /\ voucher' = voucher /\ given' = given /\ prio' = prio /\ date' = date /\ claim' = claim
      /\ onSale' = onSale /\ job' = job
  OBVIOUS
<1> QED
  BY <1>1 DEF TypeOK, TaskType

\* Quotas are answered with a number or None.
LEMMA LeftTypes == ASSUME TypeOK, NEW q \in Quota PROVE Left(q) \in Nat \cup {Unlimited}
<1>1. Used(q) \in Nat
  <2>1. Uses(q) \subseteq Claim
    BY DEF Uses
  <2> QED
    BY <2>1, Fewer DEF Used
<1>2. Sizes[q] \in Nat \cup {Unlimited}
  BY QuotaAssumption
<1> QED
  BY <1>1, <1>2 DEF Left, Unlimited

LEMMA AskedTypes ==
  ASSUME TypeOK, NEW p \in Product
  PROVE  /\ Asked(p) \in [Quota -> Nat \cup {Unlimited, Unread}]
         /\ \A q \in QuotasOf[p] : q \in Quota
<1>1. QuotasOf[p] \subseteq Quota
  BY QuotaAssumption
<1>2. task.cache \in [Quota -> Nat \cup {Unlimited, Unread}]
  BY DEF TypeOK
<1>3. \A q \in Quota : Left(q) \in Nat \cup {Unlimited, Unread}
  BY LeftTypes
<1> QED
  BY <1>1, <1>2, <1>3 DEF Asked

\* The transaction of send_voucher keeps the types.
LEMMA GiveTypes ==
  ASSUME TypeOK, NEW e \in Entry, NEW p \in Prio, NEW byHand \in BOOLEAN, Give(e, p, byHand)
  PROVE  /\ row' \in [Entry -> {"none", "list", "deleted"}]
         /\ voucher' \in [Entry -> Claim \cup {0, Lapsed}]
         /\ prio' \in [Entry -> Prio] /\ date' \in [Entry -> Nat]
         /\ claim' \in [Claim -> [st : States, product : Product, entry : Entry \cup {0}, hand : BOOLEAN]]
         /\ \A f \in Entry : voucher'[f] \in Claim =>
              claim'[voucher'[f]].st # "none" /\ claim'[voucher'[f]].entry = f
<1>1. NewClaim \in Claim /\ claim[NewClaim].st = "none"
  BY NewIsUnused DEF Give
<1>2. WaitsFor[e] \in Product
  BY QuotaAssumption
<1>3. claim' \in [Claim -> [st : States, product : Product, entry : Entry \cup {0}, hand : BOOLEAN]]
  BY <1>1, <1>2 DEF TypeOK, Give, States
<1>4. voucher' = [voucher EXCEPT ![e] = NewClaim] /\ voucher' \in [Entry -> Claim \cup {0, Lapsed}]
  BY <1>1 DEF TypeOK, Give
<1>5. row' \in [Entry -> {"none", "list", "deleted"}] /\ prio' \in [Entry -> Prio] /\ date' \in [Entry -> Nat]
  BY DEF TypeOK, Give
<1>6. claim'[NewClaim].st = "voucher" /\ claim'[NewClaim].entry = e
      /\ \A c \in Claim \ {NewClaim} : claim'[c] = claim[c]
  BY <1>1 DEF TypeOK, Give
<1>7. \A f \in Entry : voucher'[f] \in Claim =>
        claim'[voucher'[f]].st # "none" /\ claim'[voucher'[f]].entry = f
  <2> SUFFICES ASSUME NEW f \in Entry, voucher'[f] \in Claim
               PROVE  claim'[voucher'[f]].st # "none" /\ claim'[voucher'[f]].entry = f
    OBVIOUS
  <2>1. CASE f = e
    BY <2>1, <1>4, <1>6 DEF TypeOK
  <2>2. CASE f # e
    <3>1. voucher'[f] = voucher[f]
      BY <2>2, <1>4 DEF TypeOK
    <3>2. claim[voucher[f]].st # "none" /\ claim[voucher[f]].entry = f
      BY <3>1 DEF TypeOK
    <3> QED
      BY <3>1, <3>2, <1>1, <1>6
  <2> QED
    BY <2>1, <2>2
<1> QED
  BY <1>3, <1>4, <1>5, <1>7

\* A claim that goes leaves no entry that points to it.
LEMMA DropTypes ==
  ASSUME TypeOK, NEW c \in Claim, Drop(c)
  PROVE  /\ voucher' \in [Entry -> Claim \cup {0, Lapsed}]
         /\ claim' \in [Claim -> [st : States, product : Product, entry : Entry \cup {0}, hand : BOOLEAN]]
         /\ \A f \in Entry : voucher'[f] \in Claim =>
              claim'[voucher'[f]].st # "none" /\ claim'[voucher'[f]].entry = f
<1>1. Lapsed \notin Claim
  BY PeopleAssumption DEF Lapsed
<1>2. \A f \in Entry : voucher'[f] \in Claim => voucher'[f] = voucher[f] /\ voucher[f] # c
  BY <1>1 DEF Drop
<1>3. \A d \in Claim \ {c} : claim'[d] = claim[d]
  BY DEF Drop, TypeOK
<1> QED
  BY <1>2, <1>3, ClaimTypes DEF Drop, TypeOK

LEMMA TypesStep == ASSUME Types, Next PROVE Types'
<1> USE DEF Types
<1>1. ASSUME NEW e \in Entry, Join(e) PROVE Types'
  BY <1>1 DEF Join, TypeOK, Sending, Named, NoTask
<1>2. ASSUME NEW e \in Entry, Move(e) PROVE Types'
  <2>1. prio' \in [Entry -> Prio]
    BY <1>2, PeopleAssumption DEF Move, NewPrios, TypeOK, Prio
  <2> QED
    BY <1>2, <2>1 DEF Move, TypeOK, Sending, Named, NoTask
<1>3. ASSUME NEW p \in Product, Buy(p) PROVE Types'
  <2>1. NewClaim \in Claim /\ claim[NewClaim].st = "none"
    BY <1>3, NewIsUnused DEF Buy
  <2>2. claim' \in [Claim -> [st : States, product : Product, entry : Entry \cup {0}, hand : BOOLEAN]]
    BY <1>3, <2>1 DEF Buy, TypeOK, States
  <2>3. \A c \in Claim \ {NewClaim} : claim'[c] = claim[c]
    BY <1>3, <2>1 DEF Buy, TypeOK
  <2>4. \A e \in Entry : voucher'[e] \in Claim => claim'[voucher'[e]].st # "none" /\ claim'[voucher'[e]].entry = e
    BY <1>3, <2>1, <2>3 DEF Buy, TypeOK
  <2> QED
    BY <1>3, <2>2, <2>4 DEF Buy, TypeOK, Sending, Named, NoTask
<1>4. ASSUME NEW p \in Product, EndSale(p) PROVE Types'
  BY <1>4 DEF EndSale, TypeOK, Sending, Named, NoTask
<1>5. ASSUME NEW c \in Claim, Redeem(c) PROVE Types'
  BY <1>5 DEF Redeem, TypeOK, Sending, Named, NoTask, States
<1>6. ASSUME NEW c \in Claim, Cancel(c) PROVE Types'
  <2>1. CASE Drop(c)
    BY <1>6, <2>1, DropTypes DEF Cancel, TypeOK, Sending, Named, NoTask
  <2>2. CASE claim' = [claim EXCEPT ![c].st = "voucher"] /\ UNCHANGED voucher
    BY <1>6, <2>2 DEF Cancel, TypeOK, Sending, Named, NoTask, States
  <2> QED
    BY <1>6, <2>1, <2>2 DEF Cancel
<1>7. ASSUME NEW c \in Claim, Lapse(c) PROVE Types'
  BY <1>7, DropTypes DEF Lapse, TypeOK, Sending, Named, NoTask
<1>8. CASE AssignRead
  BY <1>8 DEF AssignRead, Candidates, Idle, TypeOK, Sending, Named, NoTask
<1>9. ASSUME NEW e \in Entry, AssignSkip(e) PROVE Types'
  <2>1. WaitsFor[e] \in Product
    BY QuotaAssumption
  <2> QED
    BY <1>9, <2>1 DEF AssignSkip, Turn, TypeOK, Sending, Named, NoTask
<1>10. ASSUME NEW e \in Entry, AssignLook(e) PROVE Types'
  <2>1. WaitsFor[e] \in Product
    BY QuotaAssumption
  <2>2. Asked(WaitsFor[e]) \in [Quota -> Nat \cup {Unlimited, Unread}]
    BY <2>1, AskedTypes
  <2>4. Sending'
    <3>1. e \in task.todo /\ task.pc = "next"
      BY <1>10 DEF AssignLook, Turn
    <3>2. CASE Roomy(WaitsFor[e], Asked(WaitsFor[e])) /\ task' = [task EXCEPT !.pc = "send", !.cache = Asked(WaitsFor[e]), !.e = e]
      <4>1. task'.todo = task.todo /\ task'.e = e /\ task'.cache = Asked(WaitsFor[e])
        BY <3>2 DEF TypeOK
      <4> QED
        BY <3>1, <3>2, <4>1 DEF Sending, Roomy
    <3>3. CASE task'.pc = task.pc
      BY <3>1, <3>3 DEF Sending
    <3> QED
      BY <1>10, <3>2, <3>3 DEF AssignLook, TypeOK
  <2>a. UNCHANGED <<row, voucher, given, prio, date, claim, onSale, job>>
    BY <1>10 DEF AssignLook
  <2>b. CASE task' = [task EXCEPT !.pc = "send", !.cache = Asked(WaitsFor[e]), !.e = e]
    <3>1. task' \in TaskType
      BY <2>2, <2>b DEF TypeOK, TaskType
    <3>2. TypeOK'
      BY <2>a, <3>1, TaskOnly
    <3>3. task'.pc = "send"
      BY <2>b DEF TypeOK
    <3> QED
      BY <2>4, <2>a, <3>2, <3>3 DEF Named, NoTask
  <2>c. CASE task' = [task EXCEPT !.cache = Asked(WaitsFor[e]), !.todo = @ \ {e},
                        !.gone = IF Roomy(WaitsFor[e], Asked(WaitsFor[e])) THEN @ ELSE @ \cup {WaitsFor[e]}]
    <3>1. task' \in TaskType
      BY <2>1, <2>2, <2>c DEF TypeOK, TaskType
    <3>2. task.pc # "idle" /\ task'.pc = task.pc
      BY <1>10, <2>c DEF TypeOK, AssignLook, Turn
    <3>3. TypeOK'
      BY <2>a, <3>1, TaskOnly
    <3> QED
      BY <2>4, <2>a, <3>2, <3>3 DEF Named, NoTask
  <2> QED
    BY <1>10, <2>b, <2>c DEF AssignLook
<1>11. CASE AssignSend
  <2>1. task.e \in Entry /\ task.prio[task.e] \in Prio /\ WaitsFor[task.e] \in Product
    BY <1>11, QuotaAssumption DEF AssignSend, Sending, TypeOK
  <2>2. Reduced(WaitsFor[task.e]) \in [Quota -> Nat \cup {Unlimited, Unread}]
    <3>1. task.cache \in [Quota -> Nat \cup {Unlimited, Unread}]
      BY DEF TypeOK
    <3>2. \A q \in Quota : q \in QuotasOf[WaitsFor[task.e]] /\ task.cache[q] # Unlimited =>
            task.cache[q] - 1 \in Nat
      BY <1>11, <3>1 DEF AssignSend, Sending, Unlimited, Unread
    <3> QED
      BY <3>1, <3>2 DEF Reduced, Plenty
  <2>3. given' \subseteq Entry
    BY <1>11, <2>1 DEF AssignSend, TypeOK
  <2>4. Give(task.e, task.prio[task.e], FALSE)
    BY <1>11 DEF AssignSend
  <2>5. /\ row' \in [Entry -> {"none", "list", "deleted"}]
        /\ voucher' \in [Entry -> Claim \cup {0, Lapsed}]
        /\ prio' \in [Entry -> Prio] /\ date' \in [Entry -> Nat]
        /\ claim' \in [Claim -> [st : States, product : Product, entry : Entry \cup {0}, hand : BOOLEAN]]
        /\ \A f \in Entry : voucher'[f] \in Claim =>
             claim'[voucher'[f]].st # "none" /\ claim'[voucher'[f]].entry = f
    BY <2>1, <2>4, GiveTypes
  <2>6. task' \in TaskType
    BY <1>11, <2>1, <2>2 DEF AssignSend, TypeOK, TaskType
  <2>7. task'.pc = "next" /\ UNCHANGED <<onSale, job>>
    BY <1>11 DEF AssignSend, TypeOK
  <2> QED
    BY <2>3, <2>5, <2>6, <2>7 DEF TypeOK, TaskType, Sending, Named, NoTask
<1>12. CASE AssignEnd
  BY <1>12, IdleTypes DEF AssignEnd, TypeOK, TaskType, Sending, Named, NoTask
<1>13. CASE AssignDie
  BY <1>13, IdleTypes DEF AssignDie, TypeOK, TaskType, Sending, Named, NoTask
<1>14. ASSUME NEW s \in Staff, NEW e \in Entry, HandLook(s, e) PROVE Types'
  BY <1>14 DEF HandLook, Loaded, TypeOK, Sending, Named, NoTask
<1>15. ASSUME NEW s \in Staff, NEW e \in Entry, DeleteLook(s, e) PROVE Types'
  BY <1>15 DEF DeleteLook, Loaded, TypeOK, Sending, Named, NoTask
<1>16. ASSUME NEW s \in Staff, HandSend(s) PROVE Types'
  <2>1. job[s].e \in Entry /\ job[s].prio \in Prio
    BY <1>16 DEF HandSend, Named, TypeOK
  <2>2. Give(job[s].e, job[s].prio, TRUE)
    BY <1>16 DEF HandSend
  <2>3. /\ row' \in [Entry -> {"none", "list", "deleted"}]
        /\ voucher' \in [Entry -> Claim \cup {0, Lapsed}]
        /\ prio' \in [Entry -> Prio] /\ date' \in [Entry -> Nat]
        /\ claim' \in [Claim -> [st : States, product : Product, entry : Entry \cup {0}, hand : BOOLEAN]]
        /\ \A f \in Entry : voucher'[f] \in Claim =>
             claim'[voucher'[f]].st # "none" /\ claim'[voucher'[f]].entry = f
    BY <2>1, <2>2, GiveTypes
  <2>4. job' \in JobType
    BY <1>16 DEF HandSend, NoJob, TypeOK, JobType, Prio
  <2> QED
    BY <1>16, <2>3, <2>4 DEF HandSend, NoJob, TypeOK, JobType, Sending, Named, NoTask
<1>17. ASSUME NEW s \in Staff, Delete(s) PROVE Types'
  <2>1. 0 \notin Claim
    BY PeopleAssumption
  <2>2. job' \in JobType
    BY <1>17 DEF Delete, NoJob, TypeOK, JobType, Prio
  <2> QED
    BY <1>17, <2>1, <2>2 DEF Delete, NoJob, TypeOK, JobType, Sending, Named, NoTask
<1>18. ASSUME NEW s \in Staff, NEW e \in Entry, EditLook(s, e) PROVE Types'
  BY <1>18 DEF EditLook, Loaded, TypeOK, Sending, Named, NoTask
<1>19. ASSUME NEW s \in Staff, Edit(s) PROVE Types'
  <2>1. job[s].e \in Entry /\ job[s].prio \in Prio /\ job[s].date \in Nat
    BY <1>19 DEF Edit, Named, TypeOK
  <2>2. job' \in JobType
    BY <1>19 DEF Edit, NoJob, TypeOK, JobType, Prio
  <2>3. prio' \in [Entry -> Prio]
    BY <1>19, <2>1, PeopleAssumption DEF Edit, NewPrios, TypeOK, Prio
  <2>4. date' \in [Entry -> Nat]
    BY <1>19, <2>1 DEF Edit, Later, TypeOK
  <2>5. row' \in [Entry -> {"none", "list", "deleted"}] /\ voucher' = [voucher EXCEPT ![job[s].e] = 0]
        /\ given' \subseteq Entry
    BY <1>19 DEF Edit, TypeOK
  <2>6. 0 \notin Claim /\ UNCHANGED <<claim, onSale, task>>
    BY <1>19, PeopleAssumption DEF Edit
  <2>7. TypeOK'
    BY <2>2, <2>3, <2>4, <2>5, <2>6 DEF TypeOK, JobType
  <2> QED
    BY <1>19, <2>6, <2>7 DEF Edit, NoJob, TypeOK, Sending, Named, NoTask
<1> QED
  BY <1>1, <1>2, <1>3, <1>4, <1>5, <1>6, <1>7, <1>8, <1>9, <1>10, <1>11, <1>12, <1>13, <1>14,
     <1>15, <1>16, <1>17, <1>18, <1>19 DEF Next, Assign

LEMMA InitInv == Init => IInv
<1> SUFFICES ASSUME Init PROVE IInv
  OBVIOUS
<1>1. TypeOK
  <2>1. claim \in [Claim -> [st : States, product : Product, entry : Entry \cup {0}, hand : BOOLEAN]]
    BY ClaimTypes DEF Init
  <2>2. task \in TaskType
    BY IdleTypes DEF Init
  <2>3. job \in JobType
    BY DEF Init, NoJob, Prio, JobType
  <2>4. prio \in [Entry -> Prio] /\ \A e \in Entry : voucher[e] \notin Claim
    BY PeopleAssumption DEF Init, Prio
  <2>5. date \in [Entry -> Nat]
    BY DEF Init, Entry
  <2> QED
    BY <2>1, <2>2, <2>3, <2>4, <2>5 DEF Init, TypeOK, TaskType, JobType
<1>2. Types
  BY <1>1, IdleTypes DEF Init, Types, Sending, Named, NoTask, NoJob
<1>3. Once
  BY DEF Init, Once, Waiting, Idle
<1>4. ASSUME NEW q \in Quota PROVE Free(q)
  <2>1. Kept(q) = {}
    BY DEF Init, Kept, NoClaim
  <2>2. Sizes[q] # Unlimited => Sizes[q] \in Nat
    BY QuotaAssumption
  <2> QED
    BY <2>1, <2>2, FS_EmptySet DEF Init, Free, Idle
<1> QED
  BY <1>2, <1>3, <1>4 DEF IInv

-----------------------------------------------------------------------------
(* One voucher for an entry *)

\* Steps that bring nobody back to the list.
LEMMA Rather ==
  ASSUME Types, Once, given' = given, task'.todo \subseteq task.todo,
         \A e \in Entry : row'[e] # "none" \/ row[e] = "none",
         \A e \in Entry : Waiting(e)' => Waiting(e) \/ row[e] = "none"
  PROVE  Once'
<1>1. given \subseteq Entry
  BY DEF Types, TypeOK
<1> QED
  BY <1>1 DEF Once

LEMMA OnceStep == ASSUME Types, Once, Next PROVE Once'
<1>a. row \in [Entry -> {"none", "list", "deleted"}] /\ voucher \in [Entry -> Claim \cup {0, Lapsed}]
      /\ given \subseteq Entry
  BY DEF Types, TypeOK
<1>b. 0 \notin Claim /\ Lapsed # 0
  BY PeopleAssumption DEF Lapsed
<1>1. ASSUME NEW e \in Entry, Join(e) PROVE Once'
  BY <1>1, <1>a, Rather DEF Join, Waiting
<1>2. ASSUME NEW e \in Entry, Move(e) PROVE Once'
  BY <1>2, <1>a, Rather DEF Move, Waiting
<1>3. ASSUME NEW p \in Product, Buy(p) PROVE Once'
  BY <1>3, <1>a, Rather DEF Buy, Waiting
<1>4. ASSUME NEW p \in Product, EndSale(p) PROVE Once'
  BY <1>4, <1>a, Rather DEF EndSale, Waiting
<1>5. ASSUME NEW c \in Claim, Redeem(c) PROVE Once'
  BY <1>5, <1>a, Rather DEF Redeem, Waiting
<1>6. ASSUME NEW c \in Claim, Cancel(c) PROVE Once'
  BY <1>6, <1>a, <1>b, Rather DEF Cancel, Drop, Waiting
<1>7. ASSUME NEW c \in Claim, Lapse(c) PROVE Once'
  BY <1>7, <1>a, <1>b, Rather DEF Lapse, Drop, Waiting
<1>8. CASE AssignRead
  <2>1. task'.todo = Candidates
    BY <1>8 DEF AssignRead, Idle
  <2>2. \A e \in Candidates : e \notin given
    BY DEF Once, Candidates
  <2>3. UNCHANGED <<given, row, voucher>>
    BY <1>8 DEF AssignRead
  <2> QED
    BY <2>1, <2>2, <2>3 DEF Once, Waiting
<1>9. ASSUME NEW e \in Entry, AssignSkip(e) PROVE Once'
  BY <1>9, <1>a, Rather DEF AssignSkip, Waiting, Types, TypeOK
<1>10. ASSUME NEW e \in Entry, AssignLook(e) PROVE Once'
  <2>1. CASE task'.todo = task.todo
    BY <2>1, <1>10, <1>a, Rather DEF AssignLook, Waiting
  <2>2. CASE task'.todo = task.todo \ {e}
    BY <2>2, <1>10, <1>a, Rather DEF AssignLook, Waiting
  <2>3. task \in TaskType
    BY DEF Types, TypeOK, TaskType
  <2>4. task'.todo = task.todo \/ task'.todo = task.todo \ {e}
    BY <1>10, <2>3 DEF AssignLook, TaskType
  <2> QED
    BY <2>1, <2>2, <2>4
<1>11. CASE AssignSend
  <2>1. task.e \in Entry /\ task.todo \subseteq Entry
    BY <1>11 DEF AssignSend, Types, Sending, TypeOK
  <2>2. given' = given \cup {task.e} /\ task'.todo = task.todo \ {task.e}
    BY <1>11 DEF AssignSend, Types, TypeOK
  <2>3. NewClaim \in Claim
    BY <1>11, NewIsUnused DEF AssignSend, Give
  <2>4. row' = [row EXCEPT ![task.e] = "list"] /\ voucher' = [voucher EXCEPT ![task.e] = NewClaim]
    BY <1>11 DEF AssignSend, Give
  <2>5. ASSUME NEW e \in Entry, e = task.e PROVE row'[e] # "none" /\ ~Waiting(e)' /\ e \notin task'.todo
    <3>1. row'[e] = "list" /\ voucher'[e] \in Claim
      BY <2>1, <2>3, <2>4, <2>5, <1>a
    <3> QED
      BY <3>1, <2>2, <2>5, <1>b DEF Waiting
  <2>6. ASSUME NEW e \in Entry, e \in given, e # task.e PROVE row'[e] # "none" /\ ~Waiting(e)' /\ e \notin task'.todo
    <3>1. row'[e] = row[e] /\ voucher'[e] = voucher[e]
      BY <2>1, <2>4, <2>6, <1>a
    <3> QED
      BY <3>1, <2>2, <2>6 DEF Once, Waiting
  <2> QED
    BY <2>1, <2>2, <2>5, <2>6, <1>a DEF Once
<1>12. CASE AssignEnd \/ AssignDie
  BY <1>12, <1>a, Rather DEF AssignEnd, AssignDie, Idle, Waiting
<1>13. ASSUME NEW s \in Staff, NEW e \in Entry, HandLook(s, e) PROVE Once'
  BY <1>13, <1>a, Rather DEF HandLook, Waiting
<1>14. ASSUME NEW s \in Staff, NEW e \in Entry, DeleteLook(s, e) PROVE Once'
  BY <1>14, <1>a, Rather DEF DeleteLook, Waiting
<1>15. ASSUME NEW s \in Staff, HandSend(s) PROVE Once'
  <2>1. NewClaim \in Claim
    BY <1>15, NewIsUnused DEF HandSend, Give
  <2> QED
    BY <1>15, <2>1, <1>a, <1>b, Rather DEF HandSend, Give, Waiting
<1>16. ASSUME NEW s \in Staff, Delete(s) PROVE Once'
  BY <1>16, <1>a, Rather DEF Delete, Waiting
<1>17. ASSUME NEW s \in Staff, NEW e \in Entry, EditLook(s, e) PROVE Once'
  BY <1>17, <1>a, Rather DEF EditLook, Waiting
<1>18. ASSUME NEW s \in Staff, Edit(s) PROVE Once'
  <2>1. given' = given \ {job[s].e} /\ task' = task
    BY <1>18 DEF Edit
  <2>2. row' = [row EXCEPT ![job[s].e] = "list"] /\ voucher' = [voucher EXCEPT ![job[s].e] = 0]
    BY <1>18 DEF Edit
  <2> QED
    BY <2>1, <2>2, <1>a DEF Once, Waiting
<1> QED
  BY <1>1, <1>2, <1>3, <1>4, <1>5, <1>6, <1>7, <1>8, <1>9, <1>10, <1>11, <1>12, <1>13, <1>14,
     <1>15, <1>16, <1>17, <1>18 DEF Next, Assign

-----------------------------------------------------------------------------
(* What is promised under the lock fits *)

\* Steps that add no claim and learn nothing about quotas.
LEMMA NoMore ==
  ASSUME Types, NEW q \in Quota, Free(q), Kept(q)' \subseteq Kept(q), task'.cache[q] \in {task.cache[q], Unread}
  PROVE  Free(q)'
<1>1. Kept(q) \subseteq Claim
  BY DEF Kept
<1>2. /\ Cardinality(Kept(q)) \in Nat /\ Cardinality(Kept(q)') \in Nat
      /\ Cardinality(Kept(q)') <= Cardinality(Kept(q))
  BY <1>1, Fewer
<1>3. Sizes[q] # Unlimited => Sizes[q] \in Nat
  BY QuotaAssumption
<1> QED
  BY <1>2, <1>3 DEF Free

LEMMA FreeStep == ASSUME Types, Next, NEW q \in Quota, Free(q) PROVE Free(q)'
<1>a. claim \in [Claim -> [st : States, product : Product, entry : Entry \cup {0}, hand : BOOLEAN]]
  BY DEF Types, TypeOK
<1>b. Sizes[q] # Unlimited => Sizes[q] \in Nat
  BY QuotaAssumption
<1>c. Kept(q) \subseteq Uses(q) /\ Uses(q) \subseteq Claim
  BY KeptIs
<1>d. ASSUME UNCHANGED <<claim, task>> PROVE Free(q)'
  BY <1>d DEF Free, Kept
<1>1. ASSUME NEW e \in Entry, Join(e) \/ Move(e) PROVE Free(q)'
  BY <1>1, <1>d DEF Join, Move
<1>3. ASSUME NEW p \in Product, Buy(p) PROVE Free(q)'
  <2>1. NewClaim \in Claim
    BY <1>3, NewIsUnused DEF Buy
  <2>2. claim' = [claim EXCEPT ![NewClaim] = [st |-> "ticket", product |-> p, entry |-> 0, hand |-> FALSE]]
        /\ task' = task
    BY <1>3 DEF Buy
  <2>3. task.cache[q] = Unread
    BY <1>3 DEF Buy, LockFree, Types, NoTask, Idle
  <2>4. CASE q \in QuotasOf[p] /\ Sizes[q] # Unlimited
    <3>1. Sizes[q] - Used(q) - WaitingFor(q) >= 1
      BY <1>3, <2>4 DEF Buy, LeftOver
    <3>2. WaitingFor(q) \in Nat
      <4>1. {e \in Entry : Waiting(e) /\ q \in QuotasOf[WaitsFor[e]]} \subseteq Entry /\ IsFiniteSet(Entry)
        BY PeopleAssumption, FS_Interval DEF Entry
      <4> QED
        BY <4>1, FS_Subset, FS_CardinalityType DEF WaitingFor
    <3>3. Kept(q)' \subseteq Kept(q) \cup {NewClaim}
      BY <2>1, <2>2, <1>a DEF Kept
    <3>4. Cardinality(Kept(q)') <= Cardinality(Kept(q)) + 1 /\ Cardinality(Kept(q)') \in Nat
          /\ Cardinality(Kept(q)) \in Nat
      BY <2>1, <3>3, <1>c, OneMore
    <3>5. Cardinality(Kept(q)) <= Used(q) /\ Used(q) \in Nat
      BY <1>c, Fewer DEF Used
    <3>6. Cardinality(Kept(q)') <= Sizes[q]
      BY <3>1, <3>2, <3>4, <3>5, <2>4, <1>b
    <3> QED
      BY <3>6, <2>2, <2>3 DEF Free
  <2>5. CASE q \notin QuotasOf[p]
    <3>1. Kept(q)' \subseteq Kept(q)
      BY <2>1, <2>2, <2>5, <1>a DEF Kept
    <3> QED
      BY <3>1, <2>2, NoMore
  <2>6. CASE Sizes[q] = Unlimited
    BY <2>6 DEF Free
  <2> QED
    BY <2>4, <2>5, <2>6
<1>4. ASSUME NEW p \in Product, EndSale(p) PROVE Free(q)'
  BY <1>4, <1>d DEF EndSale
<1>5. ASSUME NEW c \in Claim, Redeem(c) PROVE Free(q)'
  <2>1. Kept(q)' \subseteq Kept(q)
    BY <1>5, <1>a DEF Redeem, Kept
  <2> QED
    BY <1>5, <2>1, NoMore DEF Redeem
<1>6. ASSUME NEW c \in Claim, Drop(c), task' = task PROVE Free(q)'
  <2>1. Kept(q)' \subseteq Kept(q)
    BY <1>6, <1>a DEF Drop, Kept, NoClaim
  <2> QED
    BY <1>6, <2>1, NoMore
<1>7. ASSUME NEW c \in Claim, Cancel(c) PROVE Free(q)'
  <2>1. CASE Drop(c)
    BY <1>6, <1>7, <2>1 DEF Cancel
  <2>2. CASE claim' = [claim EXCEPT ![c].st = "voucher"]
    <3>1. Kept(q)' \subseteq Kept(q)
      BY <1>7, <2>2, <1>a DEF Cancel, Kept
    <3> QED
      BY <1>7, <3>1, NoMore DEF Cancel
  <2> QED
    BY <1>7, <2>1, <2>2 DEF Cancel
<1>8. ASSUME NEW c \in Claim, Lapse(c) PROVE Free(q)'
  BY <1>6, <1>8 DEF Lapse
<1>9. CASE AssignRead \/ AssignEnd \/ AssignDie
  <2>a. Idle.cache = [r \in Quota |-> Unread]
    BY DEF Idle
  <2>b. CASE task' = Idle
    BY <1>9, <2>a, <2>b, NoMore DEF AssignRead, AssignEnd, AssignDie, Kept
  <2>c. CASE AssignRead
    <3>1. task'.cache = Idle.cache /\ claim' = claim
      BY <2>c DEF AssignRead, Idle
    <3> QED
      BY <3>1, <2>a, NoMore DEF Kept
  <2> QED
    BY <1>9, <2>b, <2>c DEF AssignEnd, AssignDie
<1>10. ASSUME NEW e \in Entry, AssignSkip(e) PROVE Free(q)'
  <2>1. task'.cache = task.cache /\ claim' = claim
    BY <1>10 DEF AssignSkip, Types, TypeOK
  <2> QED
    BY <2>1, NoMore DEF Kept
<1>11. ASSUME NEW e \in Entry, AssignLook(e) PROVE Free(q)'
  <2>1. task'.cache = Asked(WaitsFor[e]) /\ claim' = claim
    BY <1>11 DEF AssignLook, Types, TypeOK
  <2>2. CASE task'.cache[q] = task.cache[q]
    BY <2>1, <2>2, NoMore DEF Kept
  <2>3. CASE task'.cache[q] = Left(q)
    <3>1. Cardinality(Kept(q)) \in Nat /\ Used(q) \in Nat /\ Cardinality(Kept(q)) <= Used(q)
      BY <1>c, Fewer DEF Used
    <3>2. Kept(q)' = Kept(q)
      BY <2>1 DEF Kept
    <3> QED
      BY <2>3, <3>1, <3>2, <1>b DEF Free, Left
  <2> QED
    BY <2>1, <2>2, <2>3 DEF Asked
<1>12. CASE AssignSend
  <2>1. NewClaim \in Claim /\ Give(task.e, task.prio[task.e], FALSE)
    BY <1>12, NewIsUnused DEF AssignSend, Give
  <2>2. claim' = [claim EXCEPT ![NewClaim] =
                   [st |-> "voucher", product |-> WaitsFor[task.e], entry |-> task.e, hand |-> FALSE]]
    BY <2>1 DEF Give
  <2>3. task'.cache = Reduced(WaitsFor[task.e]) /\ task.cache \in [Quota -> Nat \cup {Unlimited, Unread}]
    BY <1>12 DEF AssignSend, Types, TypeOK
  <2>4. CASE q \notin QuotasOf[WaitsFor[task.e]]
    <3>1. Kept(q)' \subseteq Kept(q)
      BY <2>1, <2>2, <2>4, <1>a DEF Kept
    <3>2. task'.cache[q] = task.cache[q]
      BY <2>3, <2>4 DEF Reduced
    <3> QED
      BY <3>1, <3>2, NoMore
  <2>5. CASE q \in QuotasOf[WaitsFor[task.e]] /\ Sizes[q] # Unlimited
    <3>1. task.cache[q] = Unlimited \/ task.cache[q] >= 1
      BY <1>12, <2>5 DEF AssignSend, Types, Sending
    <3>2. /\ task.cache[q] \in Nat /\ task.cache[q] >= 1
          /\ Cardinality(Kept(q)) + task.cache[q] <= Sizes[q]
      BY <2>3, <2>5, <3>1 DEF Free, Unread, Unlimited
    <3>3. task'.cache[q] = task.cache[q] - 1
      BY <2>3, <2>5, <3>2 DEF Reduced, Unlimited
    <3>4. Kept(q)' \subseteq Kept(q) \cup {NewClaim}
      BY <2>1, <2>2, <1>a DEF Kept
    <3>5. Cardinality(Kept(q)') <= Cardinality(Kept(q)) + 1 /\ Cardinality(Kept(q)') \in Nat
          /\ Cardinality(Kept(q)) \in Nat
      BY <2>1, <3>4, <1>c, OneMore
    <3> QED
      BY <2>5, <3>2, <3>3, <3>5, <1>b DEF Free
  <2>6. CASE Sizes[q] = Unlimited
    BY <2>6 DEF Free
  <2> QED
    BY <2>4, <2>5, <2>6
<1>13. ASSUME NEW s \in Staff, NEW e \in Entry, HandLook(s, e) \/ DeleteLook(s, e) \/ EditLook(s, e) PROVE Free(q)'
  BY <1>13, <1>d DEF HandLook, DeleteLook, EditLook
<1>14. ASSUME NEW s \in Staff, HandSend(s) PROVE Free(q)'
  <2>1. NewClaim \in Claim /\ task' = task
    BY <1>14, NewIsUnused DEF HandSend, Give
  <2>2. Kept(q)' \subseteq Kept(q)
    BY <1>14, <2>1, <1>a DEF HandSend, Give, Kept
  <2> QED
    BY <2>1, <2>2, NoMore
<1>15. ASSUME NEW s \in Staff, Delete(s) \/ Edit(s) PROVE Free(q)'
  BY <1>15, <1>d DEF Delete, Edit
<1> QED
  BY <1>1, <1>3, <1>4, <1>5, <1>7, <1>8, <1>9, <1>10, <1>11, <1>12, <1>13, <1>14, <1>15 DEF Next, Assign

-----------------------------------------------------------------------------
(* Who is served first *)

\* Whoever joined waits for a limited quota; who is in hand is in the list.
Joined ==
    /\ \A e \in Entry : row[e] # "none" => \E q \in QuotasOf[WaitsFor[e]] : Sizes[q] # Unlimited
    /\ \A s \in Staff : job[s].pc # "idle" => row[job[s].e] # "none"
    /\ task.todo \subseteq task.read /\ \A e \in task.read : row[e] # "none"

\* Whom the task has passed over waits for a product that it takes as sold out.
PassedOver == \A f \in task.read \ (task.todo \cup task.done) : WaitsFor[f] \in task.gone

\* Whom it is about to serve is the first of those it has left, for a product that is not.
FirstOfTheRest ==
    task.pc = "send" =>
      /\ WaitsFor[task.e] \notin task.gone
      /\ \A f \in task.todo \ {task.e} : Ahead(task.e, f, task.prio, task.date)

Orderly == Joined /\ PassedOver /\ FirstOfTheRest

\* Steps beside the task: no row goes back to none.
LEMMA Beside ==
  ASSUME Types, Orderly, task' = task,
         \A e \in Entry : row[e] # "none" => row'[e] # "none",
         \A e \in Entry : row'[e] # "none" => row[e] # "none" \/ \E q \in QuotasOf[WaitsFor[e]] : Sizes[q] # Unlimited,
         \A s \in Staff : job'[s] = job[s] \/ job'[s].pc = "idle" \/ (job'[s].e \in Entry /\ row[job'[s].e] # "none")
  PROVE  Orderly'
<1>1. task.read \subseteq Entry /\ task.todo \subseteq Entry
  BY DEF Types, TypeOK
<1>2. \A s \in Staff : job[s].pc # "idle" => job[s].e \in Entry
  BY DEF Types, Named
<1>3. Joined'
  BY <1>1, <1>2 DEF Orderly, Joined
<1>4. PassedOver'
  BY DEF Orderly, PassedOver
<1>5. FirstOfTheRest'
  BY DEF Orderly, FirstOfTheRest, Ahead
<1> QED
  BY <1>3, <1>4, <1>5 DEF Orderly

\* What the task has asked is limited for a product that somebody joined the list for.
LEMMA AskedLimited ==
  ASSUME Types, \A q \in Quota : Free(q), NEW p \in Product, NEW q \in QuotasOf[p], Sizes[q] # Unlimited
  PROVE  Limited(p, Asked(p))
<1>1. q \in Quota
  BY QuotaAssumption
<1>2. Sizes[q] \in Nat
  BY <1>1, QuotaAssumption
<1>3. Used(q) \in Nat
  BY <1>1, KeptIs, Fewer DEF Used
<1>4. Left(q) # Unlimited
  BY <1>2, <1>3 DEF Left, Unlimited
<1>5. task.cache[q] # Unread => task.cache[q] # Unlimited
  BY <1>1 DEF Free, Unlimited
<1>6. Asked(p)[q] # Unlimited
  BY <1>1, <1>4, <1>5 DEF Asked
<1> QED
  BY <1>6 DEF Limited

LEMMA OrderlyStep == ASSUME IInv, Orderly, Next PROVE Orderly'
<1>t. Types /\ Once /\ \A q \in Quota : Free(q)
  BY DEF IInv
<1>a. row \in [Entry -> {"none", "list", "deleted"}] /\ voucher \in [Entry -> Claim \cup {0, Lapsed}]
      /\ task \in TaskType
      /\ job \in JobType
  BY <1>t DEF Types, TypeOK, TaskType, JobType
<1>b. 0 \notin Claim /\ Lapsed # 0
  BY PeopleAssumption DEF Lapsed
<1>c. \A s \in Staff : job[s].pc # "idle" => job[s].e \in Entry /\ row[job[s].e] # "none"
  BY <1>t DEF Types, Named, Orderly, Joined
<1>1. ASSUME NEW e \in Entry, Join(e) PROVE Orderly'
  <2>1. \E q \in QuotasOf[WaitsFor[e]] : Sizes[q] # Unlimited
    BY <1>1 DEF Join, LeftOver
  <2> QED
    BY <1>1, <2>1, <1>t, <1>a, Beside DEF Join
<1>2. ASSUME NEW e \in Entry, Move(e) PROVE Orderly'
  BY <1>2, <1>t, Beside DEF Move
<1>3. ASSUME NEW p \in Product, Buy(p) \/ EndSale(p) PROVE Orderly'
  BY <1>3, <1>t, Beside DEF Buy, EndSale
<1>4. ASSUME NEW c \in Claim, Redeem(c) \/ Cancel(c) \/ Lapse(c) PROVE Orderly'
  BY <1>4, <1>t, Beside DEF Redeem, Cancel, Lapse
<1>5. CASE AssignRead
  <2>1. task'.pc = "next" /\ task'.read = Candidates /\ task'.todo = Candidates
    BY <1>5 DEF AssignRead, Idle
  <2>2. UNCHANGED <<row, voucher, job>>
    BY <1>5 DEF AssignRead
  <2>3. \A e \in Candidates : e \in Entry /\ row[e] # "none"
    BY DEF Candidates, Waiting
  <2>4. Joined'
    BY <2>1, <2>2, <2>3 DEF Orderly, Joined
  <2> QED
    BY <2>1, <2>4 DEF Orderly, PassedOver, FirstOfTheRest
<1>6. ASSUME NEW e \in Entry, AssignSkip(e) PROVE Orderly'
  <2>1. /\ task'.pc = "next" /\ task'.read = task.read /\ task'.todo = task.todo \ {e}
        /\ task'.done = task.done /\ task.gone \subseteq task'.gone /\ WaitsFor[e] \in task'.gone
    BY <1>6, <1>a DEF AssignSkip, Turn, TaskType
  <2>2. UNCHANGED <<row, voucher, job>>
    BY <1>6 DEF AssignSkip
  <2>3. Joined'
    BY <2>1, <2>2 DEF Orderly, Joined
  <2>4. PassedOver'
    BY <2>1 DEF Orderly, PassedOver
  <2> QED
    BY <2>1, <2>3, <2>4 DEF Orderly, FirstOfTheRest
<1>7. ASSUME NEW e \in Entry, AssignLook(e) PROVE Orderly'
  <2>2. UNCHANGED <<row, voucher, job>>
    BY <1>7 DEF AssignLook
  <2>3. CASE task' = [task EXCEPT !.pc = "send", !.cache = Asked(WaitsFor[e]), !.e = e]
    <3>1. /\ task'.pc = "send" /\ task'.read = task.read /\ task'.todo = task.todo
          /\ task'.gone = task.gone /\ task'.prio = task.prio /\ task'.e = e
          /\ task'.done = task.done /\ task'.date = task.date
      BY <2>3, <1>a DEF TaskType
    <3>2. Joined' /\ PassedOver'
      BY <2>2, <3>1 DEF Orderly, Joined, PassedOver
    <3>3. FirstOfTheRest'
      BY <1>7, <3>1 DEF AssignLook, Turn, FirstOfTheRest, Ahead
    <3> QED
      BY <3>2, <3>3 DEF Orderly
  <2>4. CASE /\ ~(Roomy(WaitsFor[e], Asked(WaitsFor[e])) /\ Limited(WaitsFor[e], Asked(WaitsFor[e])))
             /\ task' = [task EXCEPT !.cache = Asked(WaitsFor[e]), !.todo = @ \ {e},
                          !.gone = IF Roomy(WaitsFor[e], Asked(WaitsFor[e])) THEN @ ELSE @ \cup {WaitsFor[e]}]
    <3>1. e \in task.todo /\ task.pc = "next"
      BY <1>7 DEF AssignLook, Turn
    <3>2. row[e] # "none"
      BY <3>1 DEF Orderly, Joined
    <3>3. PICK q \in QuotasOf[WaitsFor[e]] : Sizes[q] # Unlimited
      BY <3>2 DEF Orderly, Joined
    <3>4. WaitsFor[e] \in Product
      BY QuotaAssumption
    <3>5. Limited(WaitsFor[e], Asked(WaitsFor[e]))
      BY <3>3, <3>4, <1>t, AskedLimited
    <3>6. ~Roomy(WaitsFor[e], Asked(WaitsFor[e]))
      BY <3>5, <2>4
    <3>7. /\ task'.pc = "next" /\ task'.read = task.read /\ task'.todo = task.todo \ {e}
          /\ task'.done = task.done /\ task'.gone = task.gone \cup {WaitsFor[e]}
      BY <2>4, <3>1, <3>6, <1>a DEF TaskType
    <3>8. Joined'
      BY <3>7, <2>2 DEF Orderly, Joined
    <3>9. PassedOver'
      BY <3>7 DEF Orderly, PassedOver
    <3> QED
      BY <3>7, <3>8, <3>9 DEF Orderly, FirstOfTheRest
  <2> QED
    BY <1>7, <2>3, <2>4 DEF AssignLook
<1>8. CASE AssignSend
  <2>1. task.e \in Entry /\ task.e \in task.todo
    BY <1>8, <1>a, <1>t DEF AssignSend, Types, Sending, TaskType
  <2>2. /\ task'.pc = "next" /\ task'.read = task.read /\ task'.todo = task.todo \ {task.e}
        /\ task'.done = task.done \cup {task.e} /\ task'.gone = task.gone /\ job' = job
    BY <1>8, <1>a DEF AssignSend, TaskType
  <2>3. NewClaim \in Claim /\ Give(task.e, task.prio[task.e], FALSE)
    BY <1>8, NewIsUnused DEF AssignSend, Give
  <2>4. row' = [row EXCEPT ![task.e] = "list"] /\ voucher' = [voucher EXCEPT ![task.e] = NewClaim]
    BY <2>3 DEF Give
  <2>5. row[task.e] # "none" /\ task.read \subseteq Entry
    BY <2>1, <1>a DEF Orderly, Joined, TaskType
  <2>7. \A f \in Entry : row'[f] # "none" <=> row[f] # "none"
    BY <2>1, <2>4, <2>5, <1>a
  <2>8. Joined'
    BY <2>2, <2>5, <2>7, <1>c DEF Orderly, Joined
  <2>9. PassedOver'
    BY <2>2 DEF Orderly, PassedOver
  <2> QED
    BY <2>2, <2>8, <2>9 DEF Orderly, FirstOfTheRest
<1>9. CASE AssignEnd \/ AssignDie
  <2>1. task' = Idle /\ UNCHANGED <<row, voucher, job>>
    BY <1>9 DEF AssignEnd, AssignDie
  <2> QED
    BY <2>1, <1>c DEF Idle, Orderly, Joined, PassedOver, FirstOfTheRest
<1>10. ASSUME NEW s \in Staff, NEW e \in Entry, HandLook(s, e) \/ DeleteLook(s, e) \/ EditLook(s, e) PROVE Orderly'
  <2>1. row[e] # "none"
    BY <1>10 DEF HandLook, DeleteLook, EditLook, Waiting
  <2>2. UNCHANGED <<row, voucher, task>>
    BY <1>10 DEF HandLook, DeleteLook, EditLook
  <2>3. \A r \in Staff : job'[r] = job[r] \/ job'[r].e = e
    BY <1>10, <1>a DEF HandLook, DeleteLook, EditLook, Loaded, JobType
  <2> QED
    BY <2>1, <2>2, <2>3, <1>t, Beside
<1>11. ASSUME NEW s \in Staff, HandSend(s) PROVE Orderly'
  <2>1. NewClaim \in Claim /\ Give(job[s].e, job[s].prio, TRUE)
    BY <1>11, NewIsUnused DEF HandSend, Give
  <2>2. job[s].e \in Entry /\ row[job[s].e] # "none"
    BY <1>11, <1>c DEF HandSend
  <2>3. row' = [row EXCEPT ![job[s].e] = "list"] /\ voucher' = [voucher EXCEPT ![job[s].e] = NewClaim]
    BY <2>1 DEF Give
  <2>4. task' = task /\ \A r \in Staff : job'[r] = job[r] \/ job'[r].pc = "idle"
    BY <1>11, <1>a DEF HandSend, NoJob, JobType
  <2>5. \A f \in Entry : row'[f] # "none" <=> row[f] # "none"
    BY <2>2, <2>3, <1>a
  <2> QED
    BY <2>4, <2>5, <1>t, Beside
<1>12. ASSUME NEW s \in Staff, Delete(s) PROVE Orderly'
  <2>1. job[s].e \in Entry /\ row[job[s].e] # "none"
    BY <1>12, <1>c DEF Delete
  <2>2. row' = [row EXCEPT ![job[s].e] = "deleted"] /\ voucher' = [voucher EXCEPT ![job[s].e] = 0]
    BY <1>12 DEF Delete
  <2>3. task' = task /\ \A r \in Staff : job'[r] = job[r] \/ job'[r].pc = "idle"
    BY <1>12, <1>a DEF Delete, NoJob, JobType
  <2>4. \A f \in Entry : row'[f] # "none" <=> row[f] # "none"
    BY <2>1, <2>2, <1>a
  <2> QED
    BY <2>3, <2>4, <1>t, Beside
<1>13. ASSUME NEW s \in Staff, Edit(s) PROVE Orderly'
  <2>1. job[s].e \in Entry /\ row[job[s].e] # "none"
    BY <1>13, <1>c DEF Edit
  <2>2. row' = [row EXCEPT ![job[s].e] = "list"] /\ task' = task
    BY <1>13 DEF Edit
  <2>3. \A r \in Staff : job'[r] = job[r] \/ job'[r].pc = "idle"
    BY <1>13, <1>a DEF Edit, NoJob, JobType
  <2>4. \A f \in Entry : row'[f] # "none" <=> row[f] # "none"
    BY <2>1, <2>2, <1>a
  <2> QED
    BY <2>2, <2>3, <2>4, <1>t, Beside
<1> QED
  BY <1>1, <1>2, <1>3, <1>4, <1>5, <1>6, <1>7, <1>8, <1>9, <1>10, <1>11, <1>12, <1>13 DEF Next, Assign

-----------------------------------------------------------------------------
(* Theorems *)

LEMMA Invariant == Spec => []IInv
<1>1. IInv /\ [Next]_vars => IInv'
  <2> SUFFICES ASSUME IInv, [Next]_vars PROVE IInv'
    OBVIOUS
  <2>1. CASE Next
    BY <2>1, TypesStep, OnceStep, FreeStep DEF IInv
  <2>2. CASE UNCHANGED vars
    BY <2>2 DEF vars, IInv, Types, TypeOK, Sending, Named, NoTask, Once, Waiting, Free, Kept
  <2> QED
    BY <2>1, <2>2
<1> QED
  BY <1>1, InitInv, PTL DEF Spec

\* Entries, claims, what the task carries and what the organiser has loaded are well formed,
\* and the voucher of an entry is one that was made for it.
THEOREM TypeCorrect == Spec => []TypeOK
<1>1. IInv => TypeOK
  BY DEF IInv, Types
<1> QED
  BY <1>1, Invariant, PTL

\* However often the list is assigned, and whatever the organiser does meanwhile, it gives an entry
\* a voucher again only after an edit has written over the one it gave.
THEOREM GivenOnce == Spec => AutoOnce
<1> DEFINE New == \A e \in Entry : AssignSend /\ task.e = e => e \notin given
<1>1. IInv => New
  <2> SUFFICES ASSUME IInv, AssignSend PROVE task.e \notin given
    OBVIOUS
  <2>1. task.e \in task.todo
    BY DEF IInv, Types, Sending, AssignSend
  <2> QED
    BY <2>1 DEF IInv, Once
<1> HIDE DEF New
<1>2. Spec => [][New]_vars
  BY <1>1, Invariant, PTL
<1> QED
  BY <1>2 DEF AutoOnce, New

\* What is sold and what the list promises fit the quota, except for what was sent by hand.
THEOREM PromisesKept == Spec => []PromisesFit
<1>1. IInv => PromisesFit
  BY KeptIs DEF IInv, Free, PromisesFit
<1> QED
  BY <1>1, Invariant, PTL

\* Nobody gets a voucher while somebody who was ahead of them in the list the task has read, for
\* the same product, has not been served.
THEOREM ServedInOrder == Spec => FirstComesFirst
<1> DEFINE Sent == \A e \in Entry : AssignSend /\ task.e = e =>
              \A f \in task.read \ (task.done \cup {e}) :
                WaitsFor[f] = WaitsFor[e] =>
                  task.prio[f] < task.prio[e] \/ (task.prio[f] = task.prio[e] /\ task.date[f] > task.date[e])
<1>1. Init => Orderly
  BY DEF Init, Idle, NoJob, Orderly, Joined, PassedOver, FirstOfTheRest
<1>2. IInv /\ Orderly /\ [Next]_vars => Orderly'
  <2> SUFFICES ASSUME IInv, Orderly, [Next]_vars PROVE Orderly'
    OBVIOUS
  <2>1. CASE UNCHANGED vars
    BY <2>1 DEF vars, Orderly, Joined, PassedOver, FirstOfTheRest, Ahead
  <2> QED
    BY <2>1, OrderlyStep
<1>3. IInv /\ Orderly => Sent
  <2> SUFFICES ASSUME IInv, Orderly, AssignSend, NEW f \in task.read \ (task.done \cup {task.e}),
                      task.e \in Entry, WaitsFor[f] = WaitsFor[task.e]
               PROVE  \/ task.prio[f] < task.prio[task.e]
                      \/ (task.prio[f] = task.prio[task.e] /\ task.date[f] > task.date[task.e])
    OBVIOUS
  <2>1. task.pc = "send"
    BY DEF AssignSend
  <2>2. f \in task.todo
    BY <2>1 DEF Orderly, PassedOver, FirstOfTheRest
  <2>3. Ahead(task.e, f, task.prio, task.date)
    BY <2>1, <2>2 DEF Orderly, FirstOfTheRest
  <2>4. f \in Entry /\ task.prio \in [Entry -> Prio] /\ task.date \in [Entry -> Nat]
    BY DEF IInv, Types, TypeOK
  <2> QED
    BY <2>3, <2>4 DEF Ahead, Prio
<1> HIDE DEF Sent
<1>4. Spec => []Orderly
  BY <1>1, <1>2, Invariant, PTL DEF Spec
<1>5. Spec => [][Sent]_vars
  BY <1>3, <1>4, Invariant, PTL
<1> QED
  BY <1>5 DEF FirstComesFirst, Sent
=============================================================================
