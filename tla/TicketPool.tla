----------------------------- MODULE TicketPool -----------------------------
(***************************************************************************)
(* What the quota of an event promises (concepts.rst, "Quotas"; tests in   *)
(* test_quota.py): a pool of tickets that are reserved, bought and given   *)
(* back, and never more of them than there are.  TicketSales implements it.*)
(***************************************************************************)
EXTENDS Integers, FiniteSets

CONSTANTS
    Slot,   \* those who can hold a ticket
    Size    \* Quota.size

VARIABLES
    reserved,   \* reservations that have not run out
    sold        \* positions of pending and paid orders

poolVars == <<reserved, sold>>

TypeOK == reserved \in SUBSET Slot /\ sold \in SUBSET (Slot \ reserved)

Init == reserved = {} /\ sold = {}

\* QuotaAvailability: what is not taken is free.
Fits(r, s) == Cardinality(r) + Cardinality(s) <= Size

\* Reservations run out or are given up.
Drop ==
    /\ \E D \in SUBSET reserved : reserved' = reserved \ D
    /\ UNCHANGED sold

\* A cart changes: some reservations go, others come if there is room.
Reserve ==
    /\ \E R \in SUBSET (Slot \ sold) : Fits(R, sold) /\ reserved' = R
    /\ UNCHANGED sold

\* Checkout: only what is reserved, and nobody asks for room again.
Sell ==
    \E S \in SUBSET reserved : reserved' = reserved \ S /\ sold' = sold \cup S

\* Orders expire, are canceled or lose positions.
Return ==
    /\ \E S \in SUBSET sold : sold' = sold \ S
    /\ UNCHANGED reserved

\* Late payment, extension, reactivation, new positions of an order.
Revive ==
    /\ \E S \in SUBSET (Slot \ (reserved \cup sold)) :
         Fits(reserved, sold \cup S) /\ sold' = sold \cup S
    /\ UNCHANGED reserved

Next == Drop \/ Reserve \/ Sell \/ Return \/ Revive

Spec == Init /\ [][Next]_poolVars

\* "making sure your limit is never exceeded" (concepts.rst).
LimitKept == Cardinality(reserved) + Cardinality(sold) <= Size
=============================================================================
