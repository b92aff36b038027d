--------------------------- MODULE MCRecoveryCase ---------------------------
(***************************************************************************)
(* One case of a few paise; the limits of config/policy.yaml.                *)
(***************************************************************************)
EXTENDS RecoveryCase, TLC

TwoPaise == [due |-> 2, contacts |-> 1, zone |-> 11]
ThreePaise == [due |-> 3, contacts |-> 1, zone |-> 11]

\* A contact, and actions the gate lets through at any hour.
ReminderOrStop == {[type |-> "send_reminder", discount |-> 0],
                   [type |-> "stop", discount |-> 0]}

ContactKinds ==
    {[type |-> "send_reminder", discount |-> 0],
     [type |-> "offer_discount_link", discount |-> 20],
     [type |-> "offer_payment_plan", discount |-> 0]}

Threads == Permutations(Handler)
=============================================================================
