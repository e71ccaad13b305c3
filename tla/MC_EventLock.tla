---------------------------- MODULE MC_EventLock ----------------------------
(* EventLock with two Event objects; a third, dead holder is covered, as a    *)
(* client may be reloaded while the row or key it made stays behind.  Every   *)
(* client refers to at most two tokens (own, seen) and the store to one.      *)
EXTENDS EventLock

ASSUME EnoughTokens == Cardinality(Token) >= 2 * Cardinality(Client) + 2
=============================================================================
