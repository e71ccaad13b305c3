--------------------------- MODULE SchedulesProofs ---------------------------
(***************************************************************************)
(* Proofs about the schedules of an event, for any number of talks, names,  *)
(* clerks and schedules: there is always one draft, a talk that is accepted *)
(* has its slot there until the draft is reset to a version with breaks,    *)
(* and what was released stays as it was.                                   *)
(***************************************************************************)
EXTENDS Schedules, TLAPS

\* Schedules are numbered as they are created; those to come have no version yet.
Numbered ==
    /\ rows \subseteq 1..created
    /\ \A s \in Schedule : s > created => name[s] = NoName

IInv == TypeOK /\ Numbered

-----------------------------------------------------------------------------
\* The draft is the one schedule that has no version.
LEMMA OneDraft ==
    ASSUME TypeOK
    PROVE  /\ Draft \in rows /\ Draft \in Schedule /\ name[Draft] = NoName
           /\ \A s \in rows : name[s] = NoName => s = Draft
<1>1. PICK d \in rows : Drafts = {d}
  BY DEF TypeOK
<1>2. name[d] = NoName /\ \A s \in rows : name[s] = NoName => s = d
  BY <1>1 DEF Drafts
<1>3. Draft \in rows /\ name[Draft] = NoName
  BY <1>2 DEF Draft
<1> QED
  BY <1>2, <1>3 DEF TypeOK

\* What is the only one of its kind is the one that is chosen.
LEMMA TheOnly ==
    ASSUME NEW R, NEW f, NEW d \in R, f[d] = NoName, \A s \in R : f[s] = NoName => s = d
    PROVE  (CHOOSE s \in R : f[s] = NoName) = d
  OBVIOUS

\* A schedule that is created gets the next number.
LEMMA NextNumber ==
    ASSUME TypeOK, Numbered, created < MaxSchedules
    PROVE  /\ created + 1 \in Schedule /\ created + 1 \notin rows
           /\ name[created + 1] = NoName
<1>1. created \in Nat /\ created + 1 \in Schedule
  BY SchedulesAssumption DEF TypeOK, Schedule
<1> QED
  BY <1>1 DEF Numbered

-----------------------------------------------------------------------------
LEMMA Initially == Init => IInv
<1> SUFFICES ASSUME Init PROVE IInv
  OBVIOUS
<1>1. 1 \in Schedule
  BY SchedulesAssumption DEF Schedule
<1>2. Drafts = {1}
  BY <1>1 DEF Init, Drafts
<1>3. TypeOK
  BY <1>1, <1>2, SchedulesAssumption DEF Init, TypeOK, State
<1> QED
  BY <1>1, <1>3 DEF Init, IInv, Numbered

\* A talk changes its state: only the slots of the draft follow.
LEMMA StateStep ==
    ASSUME IInv, NEW t \in Talk, NEW new \in State, SetState(t, new)
    PROVE  IInv'
<1>1. UNCHANGED <<rows, name, breaks, held, created>> /\ Draft' = Draft
  BY DEF SetState, Draft
<1>2. Draft \in Schedule /\ Draft \in rows
  BY OneDraft DEF IInv
<1>3. /\ slots' = [slots EXCEPT ![Draft] = IF new \in Accepted THEN @ \cup {t} ELSE @ \ {t}]
      /\ placed' = [placed EXCEPT ![Draft] = IF new \in Accepted THEN @ ELSE @ \ {t}]
      /\ visible' = [visible EXCEPT ![Draft] = IF new = "confirmed" THEN @ \cup {t} ELSE @ \ {t}]
      /\ state' = [state EXCEPT ![t] = new]
  BY DEF SetState, Adjust
<1>4. TypeOK'
  <2>1. /\ slots' \in [Schedule -> SUBSET Talk] /\ placed' \in [Schedule -> SUBSET Talk]
        /\ visible' \in [Schedule -> SUBSET Talk] /\ state' \in [Talk -> State]
    BY <1>2, <1>3 DEF IInv, TypeOK
  <2>2. ASSUME NEW s \in rows
        PROVE  placed'[s] \cup visible'[s] \subseteq slots'[s]
    <3>1. s \in Schedule /\ placed[s] \cup visible[s] \subseteq slots[s]
      BY DEF IInv, TypeOK
    <3>2. CASE s = Draft
      BY <1>3, <3>1, <3>2 DEF IInv, TypeOK, Accepted
    <3>3. CASE s # Draft
      BY <1>3, <3>1, <3>3 DEF IInv, TypeOK
    <3> QED
      BY <3>2, <3>3
  <2>3. Drafts' = Drafts
    BY <1>1 DEF Drafts
  <2> QED
    BY <1>1, <2>1, <2>2, <2>3 DEF IInv, TypeOK
<1> QED
  BY <1>1, <1>4 DEF IInv, Numbered

\* The slot of a talk is moved, breaks come and go; a clerk's request reads the draft or is refused.
LEMMA SmallStep ==
    ASSUME IInv,
           \/ EditBreaks
           \/ \E t \in Talk : Move(t)
           \/ \E c \in Clerk : ReadDraft(c) \/ \E n \in Name : FreezeRefused(c, n)
    PROVE  IInv'
<1>1. UNCHANGED <<rows, name, slots, visible, state, created>> /\ Draft' = Draft /\ Drafts' = Drafts
  BY DEF EditBreaks, Move, ReadDraft, FreezeRefused, Draft, Drafts
<1>2. Draft \in Schedule /\ Draft \in rows
  BY OneDraft DEF IInv
<1>3. TypeOK'
  <2>1. CASE \E t \in Talk : Move(t)
    BY <1>1, <1>2, <2>1 DEF Move, IInv, TypeOK
  <2>2. CASE \E c \in Clerk : ReadDraft(c) \/ \E n \in Name : FreezeRefused(c, n)
    <3>1. placed' = placed /\ breaks' = breaks
      BY <2>2 DEF ReadDraft, FreezeRefused
    <3>2. held' \in [Clerk -> 0..MaxSchedules]
      <4>1. Draft \in 0..MaxSchedules /\ 0 \in 0..MaxSchedules
        BY <1>2, SchedulesAssumption DEF Schedule
      <4> QED
        BY <2>2, <4>1 DEF ReadDraft, FreezeRefused, IInv, TypeOK
    <3> QED
      BY <1>1, <3>1, <3>2 DEF IInv, TypeOK
  <2>3. CASE EditBreaks
    BY <1>1, <1>2, <2>3 DEF EditBreaks, IInv, TypeOK
  <2> QED
    BY <2>1, <2>2, <2>3
<1> QED
  BY <1>1, <1>3 DEF IInv, Numbered

\* The draft is released: it gets the name, and its copy is the draft from then on.
LEMMA FreezeStep ==
    ASSUME IInv, NEW c \in Clerk, NEW n \in Name, Freeze(c, n)
    PROVE  IInv' /\ (slots[Draft])' = slots[Draft]
<1> DEFINE s == held[c]
           new == created + 1
<1>1. s \in rows /\ name[s] = NoName /\ s = Draft /\ s \in Schedule
  BY OneDraft DEF Freeze, Releasable, IInv, TypeOK
<1>2. new \in Schedule /\ new \notin rows /\ name[new] = NoName /\ new # s
  BY <1>1, NextNumber DEF Freeze, IInv
<1>3. /\ created' = new /\ rows' = rows \cup {new} /\ name' = [name EXCEPT ![s] = n]
      /\ slots' = [slots EXCEPT ![new] = slots[s]]
      /\ placed' = [placed EXCEPT ![new] = placed[s]]
      /\ visible' = [visible EXCEPT ![s] = Public(s), ![new] = Public(s)]
      /\ breaks' = breaks \cup IF s \in breaks THEN {new} ELSE {}
      /\ held' = [held EXCEPT ![c] = 0] /\ state' = state
  BY DEF Freeze
<1>4. Public(s) \subseteq placed[s] /\ placed[s] \subseteq slots[s] /\ slots[s] \subseteq Talk
  BY <1>1 DEF Public, IInv, TypeOK
<1>5. n # NoName
  BY SchedulesAssumption
<1>6. name'[new] = NoName /\ \A r \in rows' : name'[r] = NoName => r = new
  <2>1. \A r \in rows : r # s => name[r] # NoName
    BY <1>1, OneDraft DEF IInv
  <2> QED
    BY <1>1, <1>2, <1>3, <1>5, <2>1 DEF IInv, TypeOK
<1>7. Draft' = new /\ Drafts' = {new}
  <2>1. new \in rows'
    BY <1>3
  <2>2. Drafts' = {new}
    BY <1>6, <2>1 DEF Drafts
  <2>3. Draft' = new
    BY <1>6, <2>1, TheOnly DEF Draft
  <2> QED
    BY <2>2, <2>3
<1>8. TypeOK'
  <2>1. /\ rows' \subseteq Schedule /\ name' \in [Schedule -> Name \cup {NoName}]
        /\ created' \in Schedule /\ state' \in [Talk -> State] /\ breaks' \subseteq rows'
    BY <1>2, <1>3 DEF IInv, TypeOK
  <2>5. held' \in [Clerk -> 0..MaxSchedules]
    <3>1. 0 \in 0..MaxSchedules
      BY SchedulesAssumption
    <3> QED
      BY <1>3, <3>1 DEF IInv, TypeOK
  <2>2. /\ slots' \in [Schedule -> SUBSET Talk] /\ placed' \in [Schedule -> SUBSET Talk]
        /\ visible' \in [Schedule -> SUBSET Talk]
    BY <1>1, <1>2, <1>3, <1>4 DEF IInv, TypeOK
  <2>3. ASSUME NEW r \in rows'
        PROVE  placed'[r] \cup visible'[r] \subseteq slots'[r]
    <3>1. CASE r = new
      BY <1>1, <1>2, <1>3, <1>4, <3>1 DEF IInv, TypeOK
    <3>2. CASE r = s
      BY <1>1, <1>2, <1>3, <1>4, <3>2 DEF IInv, TypeOK
    <3>3. CASE r # s /\ r # new
      BY <1>3, <3>3 DEF IInv, TypeOK
    <3> QED
      BY <3>1, <3>2, <3>3
  <2>4. \E r \in rows' : Drafts' = {r}
    BY <1>3, <1>7
  <2> QED
    BY <2>1, <2>2, <2>3, <2>4, <2>5 DEF TypeOK
<1>9. Numbered'
  <2>1. created \in Nat
    BY DEF IInv, TypeOK, Schedule
  <2>2. s <= created /\ s \in Nat
    BY <1>1, <2>1 DEF IInv, Numbered, Schedule
  <2>3. rows' \subseteq 1..created'
    BY <1>3, <2>1 DEF IInv, Numbered
  <2>4. \A r \in Schedule : r > created' => name'[r] = NoName
    BY <1>3, <2>1, <2>2 DEF IInv, Numbered, TypeOK, Schedule
  <2> QED
    BY <2>3, <2>4 DEF Numbered
<1>10. (slots[Draft])' = slots[Draft]
  BY <1>1, <1>2, <1>3, <1>7 DEF IInv, TypeOK
<1> QED
  BY <1>8, <1>9, <1>10 DEF IInv

\* The draft is replaced by an old version and what is newer in the draft.
LEMMA UnfreezeStep ==
    ASSUME IInv, NEW old \in Schedule, Unfreeze(old)
    PROVE  IInv' /\ (slots[Draft])' = slots[old] \cup Newer(old)
<1> DEFINE d == Draft
           new == created + 1
<1>1. d \in rows /\ d \in Schedule /\ name[d] = NoName /\ \A r \in rows : name[r] = NoName => r = d
  BY OneDraft DEF IInv
<1>2. new \in Schedule /\ new \notin rows /\ name[new] = NoName /\ new # d
  BY <1>1, NextNumber DEF Unfreeze, IInv
<1>3. /\ old \in rows /\ old # d
      /\ created' = new /\ rows' = (rows \cup {new}) \ {d}
      /\ slots' = [slots EXCEPT ![new] = slots[old] \cup Newer(old), ![d] = {}]
      /\ placed' = [placed EXCEPT ![new] = placed[old] \cup (Newer(old) \cap placed[d]), ![d] = {}]
      /\ visible' = [visible EXCEPT ![new] = visible[old] \cup (Newer(old) \cap visible[d]),
                                    ![d] = {}]
      /\ breaks' = (breaks \ {d}) \cup IF {old, d} \cap breaks # {} THEN {new} ELSE {}
      /\ UNCHANGED <<name, state, held>>
  BY <1>1 DEF Unfreeze
<1>4. Newer(old) \subseteq slots[d]
  BY DEF Newer
<1>5. new \in rows' /\ name'[new] = NoName /\ \A r \in rows' : name'[r] = NoName => r = new
  BY <1>1, <1>2, <1>3
<1>6. Draft' = new /\ Drafts' = {new}
  <2>1. Drafts' = {new}
    BY <1>5 DEF Drafts
  <2>2. Draft' = new
    BY <1>5, TheOnly DEF Draft
  <2> QED
    BY <2>1, <2>2
<1>7. TypeOK'
  <2>1. /\ rows' \subseteq Schedule /\ created' \in Schedule /\ breaks' \subseteq rows'
        /\ slots' \in [Schedule -> SUBSET Talk] /\ placed' \in [Schedule -> SUBSET Talk]
        /\ visible' \in [Schedule -> SUBSET Talk]
    BY <1>1, <1>2, <1>3, <1>4 DEF IInv, TypeOK
  <2>2. ASSUME NEW r \in rows'
        PROVE  placed'[r] \cup visible'[r] \subseteq slots'[r]
    <3>1. CASE r = new
      BY <1>1, <1>2, <1>3, <1>4, <3>1 DEF IInv, TypeOK
    <3>2. CASE r # new
      BY <1>3, <3>2 DEF IInv, TypeOK
    <3> QED
      BY <3>1, <3>2
  <2>3. \E r \in rows' : Drafts' = {r}
    BY <1>5, <1>6
  <2> QED
    BY <1>3, <2>1, <2>2, <2>3 DEF IInv, TypeOK
<1>8. Numbered'
  <2>1. created \in Nat
    BY DEF IInv, TypeOK, Schedule
  <2>2. rows' \subseteq 1..created'
    <3>1. rows \subseteq 1..created /\ 1..created \subseteq 1..(created + 1)
      BY <2>1 DEF IInv, Numbered
    <3>2. created + 1 \in 1..(created + 1)
      BY <2>1
    <3> QED
      BY <1>3, <3>1, <3>2
  <2>3. \A s \in Schedule : s > created' => name'[s] = NoName
    BY <1>3, <2>1 DEF IInv, Numbered, Schedule
  <2> QED
    BY <2>2, <2>3 DEF Numbered
<1>9. (slots[Draft])' = slots[old] \cup Newer(old)
  BY <1>2, <1>3, <1>6 DEF IInv, TypeOK
<1> QED
  BY <1>7, <1>8, <1>9 DEF IInv

LEMMA Steps == IInv /\ [Next]_vars => IInv'
<1> SUFFICES ASSUME IInv, [Next]_vars PROVE IInv'
  OBVIOUS
<1>1. CASE UNCHANGED vars
  BY <1>1 DEF vars, IInv, TypeOK, Numbered, Draft, Drafts
<1>2. CASE Next
  BY <1>2, StateStep, SmallStep, FreezeStep, UnfreezeStep DEF Next
<1> QED
  BY <1>1, <1>2

LEMMA Invariance == Spec => []IInv
  BY Initially, Steps, PTL DEF Spec

-----------------------------------------------------------------------------
\* There is one draft at any time, and only what has a slot is placed or visible, whoever
\* releases, resets and edits.
THEOREM SchedulesTyped == Spec => []TypeOK
<1>1. IInv => TypeOK
  BY DEF IInv
<1> QED
  BY <1>1, Invariance, PTL

\* A talk that is accepted gets a slot in the draft and keeps it through every release, edit and
\* reset, except for a reset to a version with a break that does not have the talk.
THEOREM DraftKeepsAllTalks == Spec => DraftKeepsTalks
<1> DEFINE Kept(t) ==
      /\ state'[t] \in Accepted
      /\ t \in slots[Draft] \/ state[t] \notin Accepted
      /\ ~\E old \in breaks : Unfreeze(old) /\ t \notin slots[old]
      => t \in (slots[Draft])'
<1>1. IInv /\ [Next]_vars => [\A t \in Talk : Kept(t)]_vars
  <2> SUFFICES ASSUME IInv, Next, NEW t \in Talk, state'[t] \in Accepted,
                      t \in slots[Draft] \/ state[t] \notin Accepted,
                      ~\E old \in breaks : Unfreeze(old) /\ t \notin slots[old]
               PROVE  t \in (slots[Draft])'
    OBVIOUS
  <2>1. Draft \in Schedule
    BY OneDraft DEF IInv
  <2>2. ASSUME NEW u \in Talk, NEW new \in State, SetState(u, new)
        PROVE  t \in (slots[Draft])'
    <3>1. Draft' = Draft
      BY <2>2 DEF SetState, Draft
    <3>2. /\ slots' = [slots EXCEPT ![Draft] = IF new \in Accepted THEN @ \cup {u} ELSE @ \ {u}]
          /\ state' = [state EXCEPT ![u] = new]
      BY <2>2 DEF SetState, Adjust
    <3>3. CASE t = u
      BY <2>1, <3>1, <3>2, <3>3 DEF IInv, TypeOK
    <3>4. CASE t # u
      BY <2>1, <3>1, <3>2, <3>4 DEF IInv, TypeOK
    <3> QED
      BY <3>3, <3>4
  <2>3. ASSUME state' = state, (slots[Draft])' = slots[Draft]
        PROVE  t \in (slots[Draft])'
    BY <2>3
  <2>4. CASE \/ EditBreaks
             \/ \E u \in Talk : Move(u)
             \/ \E c \in Clerk : ReadDraft(c) \/ \E n \in Name : FreezeRefused(c, n)
    BY <2>3, <2>4 DEF EditBreaks, Move, ReadDraft, FreezeRefused, Draft
  <2>5. ASSUME NEW c \in Clerk, NEW n \in Name, Freeze(c, n)
        PROVE  t \in (slots[Draft])'
    <3>1. (slots[Draft])' = slots[Draft] /\ state' = state
      BY <2>5, FreezeStep DEF Freeze
    <3> QED
      BY <2>3, <3>1
  <2>6. ASSUME NEW old \in Schedule, Unfreeze(old)
        PROVE  t \in (slots[Draft])'
    <3>1. (slots[Draft])' = slots[old] \cup Newer(old) /\ state' = state
      BY <2>6, UnfreezeStep DEF Unfreeze
    <3>2. t \in slots[Draft]
      BY <3>1
    <3>3. CASE old \in breaks
      BY <2>6, <3>1, <3>3
    <3>4. CASE old \notin breaks
      BY <3>1, <3>2, <3>4 DEF Newer
    <3> QED
      BY <3>3, <3>4
  <2> QED
    BY <2>2, <2>4, <2>5, <2>6 DEF Next
<1> QED
  BY <1>1, Invariance, PTL DEF Spec, DraftKeepsTalks

\* A released version is neither renamed, nor deleted, nor changed, by no step of anybody.
THEOREM ReleasesAreFixed == Spec => ReleasedFixed
<1> DEFINE Kept(s) ==
      /\ s \in rows' /\ name'[s] = name[s]
      /\ slots'[s] = slots[s] /\ placed'[s] = placed[s] /\ visible'[s] = visible[s]
      /\ s \in breaks' <=> s \in breaks
<1>1. IInv /\ [Next]_vars => [\A s \in rows : name[s] # NoName => Kept(s)]_vars
  <2> SUFFICES ASSUME IInv, Next, NEW s \in rows, name[s] # NoName PROVE Kept(s)
    OBVIOUS
  <2>1. Draft \in rows /\ s # Draft /\ s \in Schedule
    BY OneDraft DEF IInv, TypeOK
  <2>2. CASE \E t \in Talk : Move(t) \/ \E new \in State : SetState(t, new)
    BY <2>1, <2>2 DEF Move, SetState, Adjust, IInv, TypeOK
  <2>3. CASE \E c \in Clerk : ReadDraft(c) \/ \E n \in Name : FreezeRefused(c, n)
    BY <2>3 DEF ReadDraft, FreezeRefused
  <2>6. CASE EditBreaks
    BY <2>1, <2>6 DEF EditBreaks
  <2>4. ASSUME NEW c \in Clerk, NEW n \in Name, Freeze(c, n)
        PROVE  Kept(s)
    <3>1. held[c] # s /\ created + 1 # s
      BY <2>4, NextNumber DEF Freeze, Releasable, IInv
    <3> QED
      BY <2>1, <2>4, <3>1 DEF Freeze, IInv, TypeOK
  <2>5. ASSUME NEW old \in Schedule, Unfreeze(old)
        PROVE  Kept(s)
    <3>1. created + 1 # s
      BY <2>5, NextNumber DEF Unfreeze, IInv
    <3> QED
      BY <2>1, <2>5, <3>1 DEF Unfreeze, IInv, TypeOK
  <2> QED
    BY <2>2, <2>3, <2>4, <2>5, <2>6 DEF Next
<1> QED
  BY <1>1, Invariance, PTL DEF Spec, ReleasedFixed
=============================================================================
