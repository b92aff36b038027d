----------------------------- MODULE MCDelivery -----------------------------
(***************************************************************************)
(* Two interventions of one merchant, either network-wide or its own.      *)
(***************************************************************************)
EXTENDS Delivery, TLC

HighSeverity == {[scope |-> scope, severity |-> 3] : scope \in {"network", "merchant"}}

Symmetry == Permutations(Handler) \cup Permutations(Intervention)
=============================================================================
