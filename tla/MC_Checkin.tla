------------------------------ MODULE MC_Checkin ------------------------------
(* Checkin with two scanning devices at different gates.                       *)
EXTENDS Checkin, TLC

CONSTANTS n1, n2

Gates == (n1 :> "north") @@ (n2 :> "south") @@ (NoNonce :> "none")

Strict == [multiple |-> FALSE, reentry |-> FALSE, daily |-> FALSE, gated |-> FALSE, pending |-> FALSE]
OneGate == [n \in {n1, n2, NoNonce} |-> "none"]
Symmetric == Permutations(Worker)
AllSymmetric == Permutations(Worker) \cup Permutations(Nonce)

OnceLists == {Strict, [Strict EXCEPT !.reentry = TRUE]}
LimitLists == {[Strict EXCEPT !.multiple = TRUE, !.daily = d, !.gated = g] : d, g \in BOOLEAN}
                \ {[Strict EXCEPT !.multiple = TRUE]}
=============================================================================
