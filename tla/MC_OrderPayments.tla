--------------------------- MODULE MC_OrderPayments ---------------------------
(* OrderPayments with interchangeable workers.                                 *)
EXTENDS OrderPayments, TLC

Symmetric == Permutations(Worker)
=============================================================================
