--------------------------- MODULE MC_WaitingList ---------------------------
(* WaitingList with two products: one that all quotas count and one that has  *)
(* only the quota of the whole event.                                         *)
EXTENDS WaitingList, TLC

CONSTANTS std, vip, all, few, any

TwoQuotas == (std :> {all, any}) @@ (vip :> {all, few})
TwoSizes == (all :> 1) @@ (few :> 1) @@ (any :> Unlimited)
Wishes == (1 :> vip) @@ (2 :> std) @@ (3 :> vip)
=============================================================================
