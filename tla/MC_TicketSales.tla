--------------------------- MODULE MC_TicketSales ---------------------------
(* TicketSales with two carts, two workers, two tickets and a voucher.        *)
EXTENDS TicketSales, TLC

Symmetric == Permutations(Session) \cup Permutations(Worker)
=============================================================================
