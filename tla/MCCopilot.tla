----------------------------- MODULE MCCopilot ------------------------------
(* Two merchants, two dashboards and two threads. *)
EXTENDS Copilot
=============================================================================
