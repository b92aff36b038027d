---------------------------- MODULE MCPolicyGate ----------------------------
(***************************************************************************)
(* The policy gate on every combination of a few cases, actions, policies  *)
(* and instants, with what a small budget ledger says remains.             *)
(***************************************************************************)
EXTENDS PolicyGate, BudgetLedger

CONSTANTS MaxNow,           \* last instant looked at
          this, other,      \* the action the gate looks at, and another one
          thisCase, otherCase

ASSUME InstanceAssumption == {this, other} \subseteq ActionId /\ this # other

VARIABLES action, case, policy, now

looked == <<action, case, policy, now>>
ledger == <<cap, reservation>>
vars == <<looked, ledger>>

Caps == {5, 30}

\* policy.yaml, and the same with other quiet hours and a longer cooldown.
With(start, end, cooldown) ==
    [Yaml EXCEPT !.quietHours = [start |-> start, end |-> end], !.cooldown = cooldown]

Policies ==
    {With(h[1], h[2], c) : h \in {<<42, 18>>, <<4, 20>>, <<30, 30>>, <<47, 0>>}, c \in {24, 53}}

Plans == {[total |-> t, upfront |-> u, installments |-> 2, lastDue |-> 60, discount |-> d] :
             t \in {3, 197}, u \in {1, 60}, d \in {0, 20}}

Actions ==
    {[type |-> t, discount |-> d, plan |-> NoPlan] :
        t \in {"send_reminder", "offer_discount_link", "stop"}, d \in {-1, 0, 10, 26}} \cup
    {[type |-> "offer_payment_plan", discount |-> 0, plan |-> p] : p \in Plans}

Cases ==
    {[status |-> "action_proposed", dispute |-> x, optOut |-> FALSE, attempts |-> 1,
      llmCalls |-> 2, transitions |-> 2, contacts |-> 1, lastContact |-> l, zone |-> z,
      due |-> d, recovered |-> r] :
        x \in BOOLEAN, l \in {Never, 9}, z \in {0, 11}, d \in {3, 8, 200}, r \in {0, 3}}

Init ==
    /\ action \in Actions
    /\ case \in Cases
    /\ \E paise \in Caps : BudgetInit(paise)
    /\ policy \in Policies
    /\ now = 0

\* The simulation clock goes on, half an hour at a time.
Tick == now < MaxNow /\ now' = now + 1 /\ UNCHANGED <<action, case, policy, ledger>>

Gate == Evaluate(action, case, Remaining, now, policy)

\* The ledger moves at the last instant only, to keep the instance small: what
\* the gate approved is reserved, and another case's discounts, the program
\* restarts with another cap, the demo is reset.
Ledger ==
    /\ now = MaxNow
    /\ \/ Gate.decision = "approved" /\ Reserve(this, thisCase, Gate.discount)
       \/ \E paise \in {3, 20} : Reserve(other, otherCase, paise)
       \/ \E paise \in Caps : Initialize(paise)
       \/ Clear
    /\ UNCHANGED looked

Next == Tick \/ Ledger

Spec == Init /\ [][Next]_vars

-----------------------------------------------------------------------------
\* The quiet hours, told by walking from their start to their end.
QuietLength == (policy.quietHours.end - policy.quietHours.start) % DayLength
InQuietHours(t) ==
    \E k \in 0..QuietLength - 1 :
        LocalTime(t, case.zone) = (policy.quietHours.start + k) % DayLength

\* A quiet hour's retry is the first instant after it that is not quiet, in
\* the customer's timezone, on either side of midnight.
RetriesWhenQuietEnds ==
    LET retry == QuietHoursRetryAt(now, case.zone, policy.quietHours)
    IN  IF InQuietHours(now)
        THEN /\ ~InQuietHours(retry)
             /\ retry > now
             /\ \A t \in now..retry - 1 : InQuietHours(t)
        ELSE retry = Never

\* A deferral is no longer than it must be and does not repeat itself: at
\* every instant of the wait the action would be deferred again, and at its
\* end not for the same reason.
DeferralIsTight ==
    LET gate(t) == Evaluate(action, case, Remaining, t, policy)
        result == gate(now)
    IN  result.decision = "deferred" =>
            /\ result.retryAt > now
            /\ \A t \in now..result.retryAt - 1 : gate(t).decision = "deferred"
            /\ gate(result.retryAt).reason # result.reason

\* Asking for a larger discount never gets an easier decision.
MoreDiscountIsNeverEasier ==
    LET rank == [approved |-> 0, deferred |-> 0, escalate |-> 1, rejected |-> 2]
        of(pct) == rank[Evaluate([action EXCEPT !.discount = pct], case, Remaining,
                                 now, policy).decision]
    IN  \A less, more \in {0, 9, 10, 11, 25, 26, 100} : less <= more => of(less) <= of(more)

\* The gate and the ledger count alike: a discount the gate approves is one the
\* ledger grants, whatever other cases hold and however the cap was lowered;
\* one the gate escalates for the budget is one the ledger would refuse,
\* unless it is already this action's.
GateAgreesWithLedger ==
    LET held == reservation[this] # Free
        granted == Answer(this, thisCase, Gate.discount) = "granted"
    IN  /\ Gate.decision = "approved" /\ Gate.discount > 0 => granted
        /\ Gate.reason = "batch_discount_budget_exceeded" => (granted <=> held)

\* Whoever reserves, and in whatever order with restarts and resets: what is
\* reserved grows only as far as the cap of that moment.
ReservationsFit == [][Reserved' > Reserved => Reserved' <= cap']_vars

\* The plan the seeded agent works out for any balance it can be worked out
\* for is one the gate has no objection to.
SeededPlanIsAccepted ==
    LET plan == SeededPlan(case.due - case.recovered, now + policy.maxDuration)
    IN  plan # NoPlan =>
            PlanChecks([type |-> "offer_payment_plan", plan |-> plan], case, now, policy) = Pass
=============================================================================
