----------------------------- MODULE MC_Schedules -----------------------------
(* Instances of Schedules for TLC. *)
EXTENDS Schedules, TLC

Symmetric == Permutations(Talk) \cup Permutations(Clerk) \cup Permutations(Name)
=============================================================================
