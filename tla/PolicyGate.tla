----------------------------- MODULE PolicyGate -----------------------------
(***************************************************************************)
(* The deterministic policy gate: what may be done next for one case.      *)
(* Instants and durations are half hours in UTC (policy.yaml's times are   *)
(* whole hours, India is five and a half hours east); a customer's         *)
(* timezone is its offset, without daylight saving.  Amounts are paise.    *)
(***************************************************************************)
EXTENDS Integers

DayLength == 48
Never == -1        \* NULL instead of an instant

ContactActions ==
    {"send_payment_link", "send_reminder", "offer_discount_link", "offer_payment_plan"}

ActionType == ContactActions \cup {"schedule_followup", "escalate", "stop"}

\* config/policy.yaml
Yaml ==
    [killSwitch |-> FALSE, maxContacts |-> 3, cooldown |-> 24,
     quietHours |-> [start |-> 42, end |-> 18], autoApproveMax |-> 10, hardMax |-> 25,
     plansEnabled |-> TRUE, minUpfront |-> 25, maxInstallments |-> 3,
     maxDuration |-> 30 * DayLength, planReviewAbove |-> 5000000,
     reviewAbove |-> 5000000, reviewHighValue |-> TRUE,
     escalateOnDispute |-> TRUE, escalateOnOptout |-> TRUE,
     maxAttempts |-> 2, maxLlmCalls |-> 6, maxTransitions |-> 30]

\* A plan that fails PaymentPlan's validation, and a missing one, is NoPlan.
NoPlan == [total |-> 0]

Approved(paise) == [decision |-> "approved", reason |-> "all_policy_checks_passed",
                    retryAt |-> Never, discount |-> paise]
Reject(why) == [decision |-> "rejected", reason |-> why, retryAt |-> Never, discount |-> 0]
Escalate(why, paise) ==
    [decision |-> "escalate", reason |-> why, retryAt |-> Never, discount |-> paise]
Defer(why, until) ==
    [decision |-> "deferred", reason |-> why, retryAt |-> until, discount |-> 0]

\* A group of checks lets the action through to the next one.
Pass == [decision |-> "pass"]
Then(first, second) == IF first = Pass THEN second ELSE first

-----------------------------------------------------------------------------
\* Quiet hours are local; they may cross midnight, and start = end is none.

LocalTime(now, zone) == (now + zone) % DayLength
LocalMidnight(now, zone) == now - LocalTime(now, zone)

IsQuiet(now, zone, hours) ==
    LET t == LocalTime(now, zone)
    IN  IF hours.start > hours.end THEN t >= hours.start \/ t < hours.end
        ELSE hours.start <= t /\ t < hours.end

\* Mutant of QuietHoursRetryAt: the morning of the same day, always.
QuietHoursRetrySameDay(now, zone, hours) ==
    IF IsQuiet(now, zone, hours) THEN LocalMidnight(now, zone) + hours.end ELSE Never

QuietHoursRetryAt(now, zone, hours) ==
    IF ~IsQuiet(now, zone, hours) THEN Never
    ELSE IF hours.start > hours.end /\ LocalTime(now, zone) >= hours.start
    THEN LocalMidnight(now, zone) + DayLength + hours.end
    ELSE LocalMidnight(now, zone) + hours.end

-----------------------------------------------------------------------------
\* Mutant of CaseChecks: nobody looks whether the customer has opted out.
CaseChecksForgetOptOut(case, policy) ==
    IF case.status = "paid" THEN Reject("case_already_paid")
    ELSE IF policy.killSwitch THEN Reject("kill_switch")
    ELSE IF case.dispute /\ policy.escalateOnDispute THEN Escalate("customer_dispute", 0)
    ELSE IF case.attempts >= policy.maxAttempts THEN Escalate("strategy_attempt_limit", 0)
    ELSE IF case.llmCalls >= policy.maxLlmCalls THEN Escalate("llm_call_limit", 0)
    ELSE IF case.transitions >= policy.maxTransitions THEN Reject("transition_limit")
    ELSE Pass

CaseChecks(case, policy) ==
    IF case.status = "paid" THEN Reject("case_already_paid")
    ELSE IF policy.killSwitch THEN Reject("kill_switch")
    ELSE IF case.dispute /\ policy.escalateOnDispute THEN Escalate("customer_dispute", 0)
    ELSE IF case.optOut /\ policy.escalateOnOptout THEN Escalate("customer_opt_out", 0)
    ELSE IF case.attempts >= policy.maxAttempts THEN Escalate("strategy_attempt_limit", 0)
    ELSE IF case.llmCalls >= policy.maxLlmCalls THEN Escalate("llm_call_limit", 0)
    ELSE IF case.transitions >= policy.maxTransitions THEN Reject("transition_limit")
    ELSE Pass

\* Mutant of ContactChecks: the cooldown is counted from now.
ContactChecksFromNow(action, case, now, policy) ==
    IF action.type \notin ContactActions THEN Pass
    ELSE IF case.contacts >= policy.maxContacts THEN Reject("max_contacts")
    ELSE IF IsQuiet(now, case.zone, policy.quietHours)
    THEN Defer("quiet_hours", QuietHoursRetryAt(now, case.zone, policy.quietHours))
    ELSE IF case.lastContact # Never /\ case.lastContact + policy.cooldown > now
    THEN Defer("contact_cooldown", now + policy.cooldown)
    ELSE Pass

ContactChecks(action, case, now, policy) ==
    IF action.type \notin ContactActions THEN Pass
    ELSE IF case.contacts >= policy.maxContacts THEN Reject("max_contacts")
    ELSE IF IsQuiet(now, case.zone, policy.quietHours)
    THEN Defer("quiet_hours", QuietHoursRetryAt(now, case.zone, policy.quietHours))
    ELSE IF case.lastContact # Never /\ case.lastContact + policy.cooldown > now
    THEN Defer("contact_cooldown", case.lastContact + policy.cooldown)
    ELSE Pass

PlanChecks(action, case, now, policy) ==
    IF action.type # "offer_payment_plan" THEN Pass
    ELSE IF ~policy.plansEnabled THEN Reject("payment_plans_disabled")
    ELSE IF action.plan = NoPlan THEN Reject("invalid_payment_plan")
    ELSE IF action.plan.total # case.due - case.recovered
    THEN Reject("plan_does_not_match_outstanding_balance")
    ELSE IF action.plan.upfront * 100 < policy.minUpfront * action.plan.total
    THEN Reject("plan_upfront_below_minimum")
    ELSE IF action.plan.installments > policy.maxInstallments
    THEN Reject("plan_too_many_installments")
    ELSE IF action.plan.lastDue > now + policy.maxDuration
    THEN Reject("plan_duration_too_long")
    ELSE Pass

ReviewChecks(action, case, policy) ==
    IF /\ action.type \in ContactActions /\ policy.reviewHighValue
       /\ case.due > policy.reviewAbove
    THEN Escalate("high_value_customer_facing_action", 0)
    ELSE IF action.type = "offer_payment_plan" /\ case.due > policy.planReviewAbove
    THEN Escalate("high_value_payment_plan", 0)
    ELSE Pass

Larger(a, b) == IF a >= b THEN a ELSE b

\* ROUND_HALF_UP of due * pct / 100.
DiscountRequired(due, pct) == (due * pct + 50) \div 100

\* Mutant of DiscountChecks: the budget is looked at first.
DiscountChecksBudgetFirst(action, case, remaining, policy) ==
    LET paise == DiscountRequired(case.due, action.discount)
        share == action.discount * case.due
    IN  IF paise > remaining THEN Escalate("batch_discount_budget_exceeded", paise)
        ELSE IF share > policy.hardMax * case.due THEN Reject("discount_above_hard_max")
        ELSE IF share > policy.autoApproveMax * case.due
        THEN Escalate("discount_above_auto_approve", paise)
        ELSE Approved(paise)

\* A plan's discount replaces the percentage; share is the percentage * due.
\* A negative percentage stands for all that is not one: no agent proposes it.
DiscountChecks(action, case, remaining, policy) ==
    LET plan == action.type = "offer_payment_plan"
        asked == DiscountRequired(case.due, action.discount)
        paise == IF plan THEN Larger(asked, action.plan.discount) ELSE asked
        share == IF plan /\ action.plan.discount > 0 THEN action.plan.discount * 100
                 ELSE action.discount * case.due
    IN  IF action.discount < 0 THEN Reject("invalid_discount")
        ELSE IF share > policy.hardMax * case.due THEN Reject("discount_above_hard_max")
        ELSE IF share > policy.autoApproveMax * case.due
        THEN Escalate("discount_above_auto_approve", paise)
        ELSE IF paise > remaining THEN Escalate("batch_discount_budget_exceeded", paise)
        ELSE Approved(paise)

Evaluate(action, case, remaining, now, policy) ==
    Then(CaseChecks(case, policy),
    Then(ContactChecks(action, case, now, policy),
    Then(PlanChecks(action, case, now, policy),
    Then(ReviewChecks(action, case, policy),
         DiscountChecks(action, case, remaining, policy)))))

-----------------------------------------------------------------------------
\* The seeded agent's plan: three installments, the first rounded up.

\* Mutant of SeededUpfront: the first installment is rounded down.
SeededUpfrontDown(total) == total \div 4

SeededUpfront(total) == (total + 3) \div 4

\* Fixed dates, the last one a month less three days after the demo's start.
SeededPlan(total, lastDue) ==
    LET rest == total - SeededUpfront(total)
    IN  IF rest \div 2 = 0 THEN NoPlan   \* PaymentPlan raises
        ELSE [total |-> total, upfront |-> SeededUpfront(total), installments |-> 3,
              lastDue |-> lastDue, discount |-> 0]
=============================================================================
