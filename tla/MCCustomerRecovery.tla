------------------------- MODULE MCCustomerRecovery -------------------------
(* Worker threads are interchangeable. *)
EXTENDS CustomerRecovery, TLC

Threads == Permutations(Handler)
=============================================================================
