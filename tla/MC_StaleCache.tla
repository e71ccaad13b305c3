---------------------------- MODULE MC_StaleCache ----------------------------
(* StaleCache as it is: the constants are sets of model values and numbers.   *)
EXTENDS StaleCache
=============================================================================
