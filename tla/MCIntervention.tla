--------------------------- MODULE MCIntervention ---------------------------
(***************************************************************************)
(* Two findings of two merchants with one pattern: they form a network     *)
(* cluster when both are flagged, and neither does alone.                  *)
(***************************************************************************)
EXTENDS Intervention, TLC

CONSTANTS f1, f2, m1, m2, upi

MCMerchantOf == (f1 :> m1) @@ (f2 :> m2)
MCPatternOf == (f1 :> upi) @@ (f2 :> upi)
=============================================================================
