------------------------------ MODULE Schedules ------------------------------
(***************************************************************************)
(* The draft of an event's schedule and its released versions              *)
(* (base/models/schedule.py), and the talks whose state decides whether     *)
(* they have a slot in the draft (base/models/submission.py).               *)
(*                                                                         *)
(* Releases hold a draft they have read before; a reset to an old version  *)
(* and an edit of the draft take one step: what they do when a release     *)
(* gets in between is in the README.                                       *)
(***************************************************************************)
EXTENDS Naturals

CONSTANTS
    Talk,        \* submissions
    Name,        \* names of versions, equal if they differ by case only
    Clerk,       \* requests that release the draft
    NoName,      \* the version of a draft
    MaxSchedules \* bound: schedules that are ever created

ASSUME SchedulesAssumption == MaxSchedules \in Nat \ {0} /\ NoName \notin Name

Schedule == 1..MaxSchedules

VARIABLES
    rows,    \* the schedules that exist
    name,    \* Schedule.version
    slots,   \* the talks that have a slot in a schedule
    placed,  \* those whose slot has a start
    visible, \* those whose slot is_visible
    breaks,  \* the schedules that have breaks: slots whose submission is null
    state,   \* Submission.state
    held,    \* the draft a clerk's request has read, 0 if none
    created  \* how many schedules were created

vars == <<rows, name, slots, placed, visible, breaks, state, held, created>>

State == {"submitted", "accepted", "rejected", "confirmed", "canceled", "withdrawn"}
Accepted == {"accepted", "confirmed"}

\* SubmissionStates.valid_next_states
NextStates(s) ==
    CASE s = "submitted" -> {"rejected", "withdrawn", "accepted"}
      [] s = "rejected" -> {"accepted", "submitted"}
      [] s = "accepted" -> {"confirmed", "canceled", "rejected", "submitted", "withdrawn"}
      [] s = "confirmed" -> {"accepted", "canceled"}
      [] s = "canceled" -> {"accepted", "confirmed"}
      [] s = "withdrawn" -> {"submitted"}

Drafts == {s \in rows : name[s] = NoName}

\* The types; there is one draft, and only slots are placed or visible.
TypeOK ==
    /\ rows \subseteq Schedule /\ breaks \subseteq rows
    /\ name \in [Schedule -> Name \cup {NoName}]
    /\ slots \in [Schedule -> SUBSET Talk]
    /\ placed \in [Schedule -> SUBSET Talk] /\ visible \in [Schedule -> SUBSET Talk]
    /\ state \in [Talk -> State]
    /\ held \in [Clerk -> 0..MaxSchedules] /\ created \in Schedule
    /\ \E s \in rows : Drafts = {s}
    /\ \A s \in rows : placed[s] \cup visible[s] \subseteq slots[s]

Init ==
    /\ rows = {1} /\ created = 1
    /\ name = [s \in Schedule |-> NoName]
    /\ slots = [s \in Schedule |-> {}] /\ placed = slots /\ visible = slots /\ breaks = {}
    /\ state = [t \in Talk |-> "submitted"]
    /\ held = [c \in Clerk |-> 0]

\* Event.wip_schedule; it always exists here once the first was created.
Draft == CHOOSE s \in rows : name[s] = NoName

-----------------------------------------------------------------------------
(* Talks and their slots in the draft *)

\* update_talk_slots: as many slots as wanted, which is one here, or none.
Adjust(t, new) ==
    /\ slots' = [slots EXCEPT ![Draft] = IF new \in Accepted THEN @ \cup {t} ELSE @ \ {t}]
    /\ placed' = [placed EXCEPT ![Draft] = IF new \in Accepted THEN @ ELSE @ \ {t}]
    /\ visible' = [visible EXCEPT ![Draft] = IF new = "confirmed" THEN @ \cup {t} ELSE @ \ {t}]

\* Submission._set_state
SetState(t, new) ==
    /\ new \in NextStates(state[t])
    /\ state' = [state EXCEPT ![t] = new]
    /\ Adjust(t, new)
    /\ UNCHANGED <<rows, name, breaks, held, created>>

\* TalkUpdate.patch: the slot gets a start and a room, or loses them.
Move(t) ==
    /\ t \in slots[Draft]
    /\ placed' = [placed EXCEPT ![Draft] = IF t \in @ THEN @ \ {t} ELSE @ \cup {t}]
    /\ UNCHANGED <<rows, name, slots, visible, breaks, state, held, created>>

\* TalkList.post adds a break, TalkUpdate.delete takes one away.
EditBreaks ==
    /\ breaks' = IF Draft \in breaks THEN breaks \ {Draft} ELSE breaks \cup {Draft}
    /\ UNCHANGED <<rows, name, slots, placed, visible, state, held, created>>

-----------------------------------------------------------------------------
(* Releasing and resetting *)

\* release: the request reads the draft, and waits for the lock of the event.
ReadDraft(c) ==
    /\ held[c] = 0
    /\ held' = [held EXCEPT ![c] = Draft]
    /\ UNCHANGED <<rows, name, slots, placed, visible, breaks, state, created>>

\* Mutant: by the version that was read before the lock.
Releasable_AsRead(s) == s \in rows
\* The row is read again under the lock: it is gone, or was released by somebody else.
Releasable(s) == s \in rows /\ name[s] = NoName

\* version__iexact
NameFree(n) == \A s \in rows : name[s] # n

\* Confirmed talks that have a start.
Public(s) == {t \in placed[s] : state[t] = "confirmed"}

\* freeze: the draft gets the name, and a new draft a copy of every slot.
Freeze(c, n) ==
    LET s == held[c]  new == created + 1 IN
    /\ s # 0 /\ Releasable(s) /\ NameFree(n) /\ created < MaxSchedules
    /\ created' = new
    /\ rows' = rows \cup {new}
    /\ name' = [name EXCEPT ![s] = n]
    /\ slots' = [slots EXCEPT ![new] = slots[s]]
    /\ placed' = [placed EXCEPT ![new] = placed[s]]
    /\ visible' = [visible EXCEPT ![s] = Public(s), ![new] = Public(s)]
    /\ breaks' = breaks \cup IF s \in breaks THEN {new} ELSE {}
    /\ held' = [held EXCEPT ![c] = 0]
    /\ UNCHANGED state

\* ValidationError
FreezeRefused(c, n) ==
    /\ held[c] # 0 /\ ~(Releasable(held[c]) /\ NameFree(n))
    /\ held' = [held EXCEPT ![c] = 0]
    /\ UNCHANGED <<rows, name, slots, placed, visible, breaks, state, created>>

\* Mutant: only what the old version has.
Newer_None(old) == {}
\* "collect all talks, which have been added since this schedule": those of the draft that are
\* NOT IN the submissions of the old version.  A break among these is a null, and NOT IN then
\* is true of no talk.
Newer(old) == IF old \in breaks THEN {} ELSE slots[Draft] \ slots[old]

\* unfreeze: a new draft with the slots of the old version and the newer ones; the draft goes.
\* Breaks of the draft, which have no submission, are always among the newer ones.
Unfreeze(old) ==
    LET new == created + 1 IN
    /\ old \in rows /\ name[old] # NoName /\ created < MaxSchedules
    /\ created' = new
    /\ rows' = (rows \cup {new}) \ {Draft}
    /\ slots' = [slots EXCEPT ![new] = slots[old] \cup Newer(old), ![Draft] = {}]
    /\ placed' = [placed EXCEPT ![new] = placed[old] \cup (Newer(old) \cap placed[Draft]),
                                ![Draft] = {}]
    /\ visible' = [visible EXCEPT ![new] = visible[old] \cup (Newer(old) \cap visible[Draft]),
                                  ![Draft] = {}]
    /\ breaks' = (breaks \ {Draft}) \cup IF {old, Draft} \cap breaks # {} THEN {new} ELSE {}
    /\ UNCHANGED <<name, state, held>>

-----------------------------------------------------------------------------

Next ==
    \/ EditBreaks
    \/ \E t \in Talk : Move(t) \/ \E new \in State : SetState(t, new)
    \/ \E c \in Clerk : ReadDraft(c) \/ \E n \in Name : Freeze(c, n) \/ FreezeRefused(c, n)
    \/ \E s \in Schedule : Unfreeze(s)

Spec == Init /\ [][Next]_vars

-----------------------------------------------------------------------------
(* Properties *)

\* "Releases the current WIP schedule as a fixed schedule version": whatever is read before the
\* lock, released, reset or edited afterwards, a version keeps its name and its slots.
ReleasedFixed ==
    [][\A s \in rows : name[s] # NoName =>
         /\ s \in rows' /\ name'[s] = name[s]
         /\ slots'[s] = slots[s] /\ placed'[s] = placed[s] /\ visible'[s] = visible[s]
         /\ s \in breaks' <=> s \in breaks]_vars

\* "collect all talks, which have been added since this schedule (#72)": a talk that becomes
\* accepted gets a slot in the draft, and no step takes it away while the talk is accepted,
\* except for a reset to a version that has a break and does not have the talk, which loses it.
DraftKeepsTalks ==
    [][\A t \in Talk :
         /\ state'[t] \in Accepted
         /\ t \in slots[Draft] \/ state[t] \notin Accepted
         /\ ~\E old \in breaks : Unfreeze(old) /\ t \notin slots[old]
         => t \in (slots[Draft])']_vars
=============================================================================
