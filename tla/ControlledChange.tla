-------------------------- MODULE ControlledChange --------------------------
(***************************************************************************)
(* What the intervention workflow promises, with no policy, agents,        *)
(* threads or tables: a change is applied only once it has been cleared,   *)
(* at most once, is judged once, and is reverted only when it did harm.    *)
(* A refused change is never applied.  A new demo run forgets everything.  *)
(***************************************************************************)
CONSTANT Item

VARIABLES cleared, refused, applied, settled, harmful, reverted

vars == <<cleared, refused, applied, settled, harmful, reverted>>

Init ==
    /\ cleared = {} /\ refused = {} /\ applied = {}
    /\ settled = {} /\ harmful = {} /\ reverted = {}

Clear(i) ==
    /\ i \notin cleared \cup refused
    /\ cleared' = cleared \cup {i}
    /\ UNCHANGED <<refused, applied, settled, harmful, reverted>>

Refuse(i) ==
    /\ i \notin cleared \cup refused
    /\ refused' = refused \cup {i}
    /\ UNCHANGED <<cleared, applied, settled, harmful, reverted>>

Apply(i) ==
    /\ i \in cleared \ applied
    /\ applied' = applied \cup {i}
    /\ UNCHANGED <<cleared, refused, settled, harmful, reverted>>

Settle(i) ==
    /\ i \in applied \ (settled \cup harmful)
    /\ settled' = settled \cup {i}
    /\ UNCHANGED <<cleared, refused, applied, harmful, reverted>>

Blame(i) ==
    /\ i \in applied \ (settled \cup harmful)
    /\ harmful' = harmful \cup {i}
    /\ UNCHANGED <<cleared, refused, applied, settled, reverted>>

Revert(i) ==
    /\ i \in harmful \ reverted
    /\ reverted' = reverted \cup {i}
    /\ UNCHANGED <<cleared, refused, applied, settled, harmful>>

Renew ==
    /\ cleared' = {} /\ refused' = {} /\ applied' = {}
    /\ settled' = {} /\ harmful' = {} /\ reverted' = {}

Next ==
    \/ Renew
    \/ \E i \in Item : \/ Clear(i) \/ Refuse(i) \/ Apply(i)
                       \/ Settle(i) \/ Blame(i) \/ Revert(i)

Spec == Init /\ [][Next]_vars
=============================================================================
