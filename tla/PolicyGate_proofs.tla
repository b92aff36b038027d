--------------------------- MODULE PolicyGate_proofs ---------------------------
(***************************************************************************)
(* Proofs about the policy gate, for any case, action, policy, instant and *)
(* budget: the state is any state of the right shape, not only those of    *)
(* the instance that is model-checked.                                     *)
(***************************************************************************)
EXTENDS MCPolicyGate, Sums, TLAPS

Times == 0..DayLength - 1

-----------------------------------------------------------------------------
\* Local time walks through the day.
LEMMA LocalTimes ==
    ASSUME NEW t \in Int, NEW zone \in Int
    PROVE  /\ LocalTime(t, zone) \in Times
           /\ LocalMidnight(t, zone) \in Int
           /\ LocalTime(t, zone) = t - LocalMidnight(t, zone)
           /\ \A k \in 0..DayLength :
                LocalTime(t + k, zone) =
                  IF LocalTime(t, zone) + k < DayLength THEN LocalTime(t, zone) + k
                  ELSE LocalTime(t, zone) + k - DayLength
BY SMT DEF LocalTime, LocalMidnight, Times, DayLength

\* The walk from the start of the quiet hours to their end meets an hour
\* exactly when the code's comparison says so.
LEMMA QuietWalk ==
    ASSUME NEW x \in Times, NEW s \in Times, NEW e \in Times
    PROVE  (\E k \in 0..((e - s) % DayLength) - 1 : x = (s + k) % DayLength)
           <=> IF s > e THEN x >= s \/ x < e ELSE s <= x /\ x < e
<1> DEFINE long == IF s > e THEN e - s + DayLength ELSE e - s
           k0 == IF x >= s THEN x - s ELSE x - s + DayLength
<1>1. (e - s) % DayLength = long
  BY SMT DEF Times, DayLength
<1>2. \A k \in 0..DayLength - 1 :
         (s + k) % DayLength = IF s + k < DayLength THEN s + k ELSE s + k - DayLength
  BY SMT DEF Times, DayLength
<1>3. ASSUME IF s > e THEN x >= s \/ x < e ELSE s <= x /\ x < e
      PROVE  \E k \in 0..long - 1 : x = (s + k) % DayLength
  <2>1. k0 \in 0..long - 1 /\ k0 \in 0..DayLength - 1
    BY <1>3 DEF Times, DayLength
  <2>2. x = (s + k0) % DayLength
    BY <1>2, <2>1 DEF Times, DayLength
  <2> QED
    BY <2>1, <2>2
<1>4. ASSUME NEW k \in 0..long - 1, x = (s + k) % DayLength
      PROVE  IF s > e THEN x >= s \/ x < e ELSE s <= x /\ x < e
  <2>1. k \in 0..DayLength - 1
    BY DEF Times, DayLength
  <2>2. x = IF s + k < DayLength THEN s + k ELSE s + k - DayLength
    BY <1>2, <1>4, <2>1
  <2> QED
    BY <2>2 DEF Times, DayLength
<1> HIDE DEF long, k0
<1> QED
  BY <1>1, <1>3, <1>4

Hours == [start : Times, end : Times]

\* Where the quiet hours end, seen from an instant in them.
LEMMA QuietEnds ==
    ASSUME NEW t \in Int, NEW zone \in Int, NEW hours \in Hours, IsQuiet(t, zone, hours)
    PROVE  LET retry == QuietHoursRetryAt(t, zone, hours)
           IN  /\ retry \in Int /\ retry > t
               /\ ~IsQuiet(retry, zone, hours)
               /\ \A u \in t..retry - 1 : IsQuiet(u, zone, hours)
<1> DEFINE x == LocalTime(t, zone)
           s == hours.start
           e == hours.end
           ahead == IF s > e /\ x >= s THEN DayLength + e - x ELSE e - x
           retry == QuietHoursRetryAt(t, zone, hours)
<1>1. x \in Times /\ s \in Times /\ e \in Times
  BY LocalTimes DEF Hours
<1>2. IF s > e THEN x >= s \/ x < e ELSE s <= x /\ x < e
  BY DEF IsQuiet
<1>3. \A k \in 0..DayLength :
         LocalTime(t + k, zone) = IF x + k < DayLength THEN x + k ELSE x + k - DayLength
  BY LocalTimes
<1> HIDE DEF x, s, e, retry
<1>4. retry = t + ahead
  <2>1. PICK m \in Int : m = LocalMidnight(t, zone) /\ x = t - m
    BY LocalTimes DEF x
  <2>2. retry = IF s > e /\ x >= s THEN m + DayLength + e ELSE m + e
    BY <2>1 DEF QuietHoursRetryAt, retry, x, s, e
  <2> QED
    BY <1>1, <2>1, <2>2 DEF Times, DayLength
<1>5. ahead \in 1..DayLength
  BY <1>1, <1>2 DEF Times, DayLength
<1>6. ASSUME NEW k \in 0..ahead - 1 PROVE IsQuiet(t + k, zone, hours)
  <2>1. k \in 0..DayLength
    BY <1>5 DEF DayLength
  <2>2. LocalTime(t + k, zone) = IF x + k < DayLength THEN x + k ELSE x + k - DayLength
    BY <1>3, <2>1
  <2>3. PICK y \in Int : /\ y = LocalTime(t + k, zone)
                        /\ y = IF x + k < DayLength THEN x + k ELSE x + k - DayLength
    BY <1>1, <2>2 DEF Times, DayLength
  <2>4. IF s > e THEN y >= s \/ y < e ELSE s <= y /\ y < e
    BY <1>1, <1>2, <1>5, <2>3 DEF Times, DayLength
  <2> QED
    BY <2>3, <2>4 DEF IsQuiet, s, e
<1>7. ~IsQuiet(t + ahead, zone, hours)
  <2>1. LocalTime(t + ahead, zone) =
            IF x + ahead < DayLength THEN x + ahead ELSE x + ahead - DayLength
    BY <1>3, <1>5
  <2>2. PICK y \in Int : /\ y = LocalTime(t + ahead, zone)
                        /\ y = IF x + ahead < DayLength THEN x + ahead
                               ELSE x + ahead - DayLength
    BY <1>1, <1>5, <2>1 DEF Times, DayLength
  <2>3. ~(IF s > e THEN y >= s \/ y < e ELSE s <= y /\ y < e)
    BY <1>1, <1>2, <2>2 DEF Times, DayLength
  <2> QED
    BY <2>2, <2>3 DEF IsQuiet, s, e
<1>8. ASSUME NEW u \in t..retry - 1 PROVE IsQuiet(u, zone, hours)
  <2>1. u - t \in 0..ahead - 1 /\ t + (u - t) = u
    BY <1>4, <1>5 DEF DayLength
  <2> QED
    BY <1>6, <2>1
<1> QED
  BY <1>4, <1>5, <1>7, <1>8 DEF retry

\* What the gate reads of a state: instants and durations, any at all.
Instants ==
    /\ now \in Int /\ case.zone \in Int /\ case.lastContact \in Int
    /\ policy.quietHours \in Hours /\ policy.cooldown \in Int

LEMMA WalkedQuietHours ==
    ASSUME Instants, NEW t \in Int
    PROVE  InQuietHours(t) <=> IsQuiet(t, case.zone, policy.quietHours)
<1> DEFINE s == policy.quietHours.start
           e == policy.quietHours.end
           x == LocalTime(t, case.zone)
<1>1. x \in Times /\ s \in Times /\ e \in Times
  BY LocalTimes DEF Instants, Hours
<1>2. (\E k \in 0..((e - s) % DayLength) - 1 : x = (s + k) % DayLength)
      <=> IF s > e THEN x >= s \/ x < e ELSE s <= x /\ x < e
  BY <1>1, QuietWalk
<1> QED
  BY <1>2 DEF InQuietHours, QuietLength, IsQuiet

\* For any timezone, any quiet hours, on either side of midnight or empty, and
\* at any instant: a retry is given in the quiet hours only, and it is the
\* first instant after them.
THEOREM RetryIsTheEndOfQuiet ==
    ASSUME Instants
    PROVE  RetriesWhenQuietEnds
<1> DEFINE retry == QuietHoursRetryAt(now, case.zone, policy.quietHours)
<1>1. CASE IsQuiet(now, case.zone, policy.quietHours)
  <2>1. /\ retry \in Int /\ retry > now
        /\ ~IsQuiet(retry, case.zone, policy.quietHours)
        /\ \A t \in now..retry - 1 : IsQuiet(t, case.zone, policy.quietHours)
    BY <1>1, QuietEnds DEF Instants
  <2>2. \A t \in now..retry - 1 : t \in Int
    BY <2>1 DEF Instants
  <2> HIDE DEF retry
  <2>3. /\ InQuietHours(now) /\ ~InQuietHours(retry)
        /\ \A t \in now..retry - 1 : InQuietHours(t)
    BY <1>1, <2>1, <2>2, WalkedQuietHours DEF Instants
  <2> QED
    BY <2>1, <2>3 DEF RetriesWhenQuietEnds, retry
<1>2. CASE ~IsQuiet(now, case.zone, policy.quietHours)
  <2>1. ~InQuietHours(now) /\ retry = Never
    BY <1>2, WalkedQuietHours DEF Instants, QuietHoursRetryAt
  <2> QED
    BY <2>1 DEF RetriesWhenQuietEnds
<1> QED
  BY <1>1, <1>2

-----------------------------------------------------------------------------
\* Which groups of checks can say what.
LEMMA Groups ==
    ASSUME NEW a, NEW c, NEW remaining, NEW t, NEW p
    PROVE  /\ CaseChecks(c, p) = Pass \/ CaseChecks(c, p).decision \in {"rejected", "escalate"}
           /\ PlanChecks(a, c, t, p) = Pass \/ PlanChecks(a, c, t, p).decision = "rejected"
           /\ ReviewChecks(a, c, p) = Pass \/ ReviewChecks(a, c, p).decision = "escalate"
           /\ DiscountChecks(a, c, remaining, p).decision \in {"approved", "escalate", "rejected"}
<1>1. CaseChecks(c, p) = Pass \/ CaseChecks(c, p).decision \in {"rejected", "escalate"}
  BY DEF CaseChecks, Reject, Escalate
<1>2. PlanChecks(a, c, t, p) = Pass \/ PlanChecks(a, c, t, p).decision = "rejected"
  BY DEF PlanChecks, Reject
<1>3. ReviewChecks(a, c, p) = Pass \/ ReviewChecks(a, c, p).decision = "escalate"
  BY DEF ReviewChecks, Escalate
<1>4. DiscountChecks(a, c, remaining, p).decision \in {"approved", "escalate", "rejected"}
  BY DEF DiscountChecks, Reject, Escalate, Approved
<1> QED
  BY <1>1, <1>2, <1>3, <1>4

\* Only the contact checks defer.
LEMMA Deferrals ==
    ASSUME NEW a, NEW c, NEW remaining, NEW t, NEW p
    PROVE  LET result == Evaluate(a, c, remaining, t, p)
           IN  result.decision = "deferred" <=>
                   /\ CaseChecks(c, p) = Pass
                   /\ ContactChecks(a, c, t, p).decision = "deferred"
                   /\ result = ContactChecks(a, c, t, p)
<1>1. /\ CaseChecks(c, p) = Pass \/ CaseChecks(c, p).decision \in {"rejected", "escalate"}
      /\ PlanChecks(a, c, t, p) = Pass \/ PlanChecks(a, c, t, p).decision = "rejected"
      /\ ReviewChecks(a, c, p) = Pass \/ ReviewChecks(a, c, p).decision = "escalate"
      /\ DiscountChecks(a, c, remaining, p).decision \in {"approved", "escalate", "rejected"}
  BY Groups
<1>2. ContactChecks(a, c, t, p).decision = "deferred" => ContactChecks(a, c, t, p) # Pass
  BY DEF Pass
<1> QED
  BY <1>1, <1>2 DEF Evaluate, Then

\* A contact is deferred in the quiet hours and in the cooldown, in this order.
LEMMA ContactDeferred ==
    ASSUME NEW a, NEW c, NEW t \in Int, NEW p
    PROVE  LET result == ContactChecks(a, c, t, p)
               quiet == IsQuiet(t, c.zone, p.quietHours)
               cooling == c.lastContact # Never /\ c.lastContact + p.cooldown > t
           IN  /\ result.decision = "deferred" <=>
                      /\ a.type \in ContactActions /\ ~(c.contacts >= p.maxContacts)
                      /\ quiet \/ cooling
               /\ result.decision = "deferred" =>
                      IF quiet THEN result = Defer("quiet_hours",
                                                   QuietHoursRetryAt(t, c.zone, p.quietHours))
                      ELSE result = Defer("contact_cooldown", c.lastContact + p.cooldown)
BY DEF ContactChecks, Pass, Reject, Defer

\* The two reasons of a deferral are given by the contact checks only.
LEMMA Reasons ==
    ASSUME NEW a, NEW c, NEW remaining, NEW t, NEW p
    PROVE  LET why == Evaluate(a, c, remaining, t, p).reason
           IN  /\ why = "quiet_hours" => IsQuiet(t, c.zone, p.quietHours)
               /\ why = "contact_cooldown" =>
                      c.lastContact # Never /\ c.lastContact + p.cooldown > t
<1> DEFINE Others == {"quiet_hours", "contact_cooldown"}
<1>1. CaseChecks(c, p) = Pass \/ CaseChecks(c, p).reason \notin Others
  BY DEF CaseChecks, Reject, Escalate
<1>2. PlanChecks(a, c, t, p) = Pass \/ PlanChecks(a, c, t, p).reason \notin Others
  BY DEF PlanChecks, Reject
<1>3. ReviewChecks(a, c, p) = Pass \/ ReviewChecks(a, c, p).reason \notin Others
  BY DEF ReviewChecks, Escalate
<1>4. DiscountChecks(a, c, remaining, p).reason \notin Others
  BY DEF DiscountChecks, Reject, Escalate, Approved
<1>5. \/ ContactChecks(a, c, t, p) = Pass
      \/ LET why == ContactChecks(a, c, t, p).reason
         IN  /\ why = "quiet_hours" => IsQuiet(t, c.zone, p.quietHours)
             /\ why = "contact_cooldown" =>
                    c.lastContact # Never /\ c.lastContact + p.cooldown > t
  BY DEF ContactChecks, Reject, Defer
<1> QED
  BY <1>1, <1>2, <1>3, <1>4, <1>5 DEF Evaluate, Then

\* For any case, action, budget and policy, and at any instant: a deferral ends
\* as soon as its reason does, and the action is deferred all the while.
THEOREM DeferralIsAlwaysTight ==
    ASSUME Instants
    PROVE  DeferralIsTight
<1> DEFINE gate(t) == Evaluate(action, case, Remaining, t, policy)
           contact(t) == ContactChecks(action, case, t, policy)
           quiet(t) == IsQuiet(t, case.zone, policy.quietHours)
           cooling(t) == case.lastContact # Never /\ case.lastContact + policy.cooldown > t
           retry == gate(now).retryAt
<1> SUFFICES ASSUME gate(now).decision = "deferred"
    PROVE  /\ retry > now
           /\ \A t \in now..retry - 1 : gate(t).decision = "deferred"
           /\ gate(retry).reason # gate(now).reason
  BY DEF DeferralIsTight
<1>1. gate(now) = contact(now) /\ contact(now).decision = "deferred"
  BY Deferrals
<1>2. /\ CaseChecks(case, policy) = Pass
      /\ action.type \in ContactActions /\ ~(case.contacts >= policy.maxContacts)
  BY Deferrals, <1>1, ContactDeferred DEF Instants
<1>3. \A t \in Int : quiet(t) \/ cooling(t) => gate(t).decision = "deferred"
  <2>1. \A t \in Int : quiet(t) \/ cooling(t) => contact(t).decision = "deferred"
    BY <1>2, ContactDeferred
  <2>2. \A t : contact(t).decision = "deferred" => contact(t) # Pass
    BY DEF Pass
  <2> QED
    BY <1>2, <2>1, <2>2 DEF Evaluate, Then
<1>4. CASE quiet(now)
  <2>1. retry = QuietHoursRetryAt(now, case.zone, policy.quietHours)
        /\ gate(now).reason = "quiet_hours"
    <3>1. now \in Int
      BY DEF Instants
    <3>2. contact(now) = Defer("quiet_hours",
                               QuietHoursRetryAt(now, case.zone, policy.quietHours))
      BY <1>1, <1>4, <3>1, ContactDeferred
    <3> QED
      BY <1>1, <3>2 DEF Defer
  <2>2. retry \in Int /\ retry > now /\ ~quiet(retry)
        /\ \A t \in now..retry - 1 : quiet(t)
    BY <1>4, <2>1, QuietEnds DEF Instants
  <2>3. \A t \in now..retry - 1 : t \in Int
    BY <2>2 DEF Instants
  <2>4. gate(retry).reason # "quiet_hours"
    BY <2>2, Reasons
  <2> QED
    BY <1>3, <2>1, <2>2, <2>3, <2>4
<1>5. CASE ~quiet(now)
  <2>1. retry = case.lastContact + policy.cooldown /\ cooling(now)
        /\ gate(now).reason = "contact_cooldown"
    BY <1>1, <1>5, ContactDeferred DEF Instants, Defer
  <2>2. retry \in Int /\ retry > now /\ ~cooling(retry)
        /\ \A t \in now..retry - 1 : t \in Int /\ cooling(t)
    BY <2>1 DEF Instants
  <2>3. gate(retry).reason # "contact_cooldown"
    BY <2>2, Reasons
  <2> QED
    BY <1>3, <2>1, <2>2, <2>3
<1> QED
  BY <1>4, <1>5

-----------------------------------------------------------------------------
\* What the gate reads of an action and a case when it looks at the discount.
Amounts ==
    /\ case.due \in Nat /\ Remaining \in Int
    /\ policy.hardMax \in Int /\ policy.autoApproveMax \in Int
    /\ action = [type |-> action.type, discount |-> action.discount, plan |-> action.plan]
    /\ action.type = "offer_payment_plan" /\ action.plan # NoPlan =>
           action.plan.discount \in Int

Rank == [approved |-> 0, deferred |-> 0, escalate |-> 1, rejected |-> 2]

LEMMA LargerDiscount ==
    ASSUME NEW due \in Nat, NEW less \in Nat, NEW more \in Nat, less <= more
    PROVE  /\ less * due \in Nat /\ more * due \in Nat /\ less * due <= more * due
           /\ DiscountRequired(due, less) \in Int /\ DiscountRequired(due, more) \in Int
           /\ DiscountRequired(due, less) <= DiscountRequired(due, more)
<1>1. less * due \in Nat /\ more * due \in Nat /\ less * due <= more * due
  OBVIOUS
<1>2. due * less = less * due /\ due * more = more * due
  OBVIOUS
<1>3. \A a, b \in Nat : a <= b =>
          (a + 50) \div 100 \in Int /\ (b + 50) \div 100 \in Int
          /\ (a + 50) \div 100 <= (b + 50) \div 100
  OBVIOUS
<1> QED
  BY <1>1, <1>2, <1>3 DEF DiscountRequired

LEMMA DiscountIsMonotone ==
    ASSUME NEW a, NEW b, NEW c, NEW remaining \in Int, NEW p,
           a.type = b.type, a.plan = b.plan,
           a.discount \in Nat, b.discount \in Nat, a.discount <= b.discount,
           c.due \in Nat, p.hardMax \in Int, p.autoApproveMax \in Int,
           a.type = "offer_payment_plan" => a.plan.discount \in Int
    PROVE  Rank[DiscountChecks(a, c, remaining, p).decision] <=
           Rank[DiscountChecks(b, c, remaining, p).decision]
<1> DEFINE plan == a.type = "offer_payment_plan"
           Paise(x) == IF plan THEN Larger(DiscountRequired(c.due, x.discount), a.plan.discount)
                       ELSE DiscountRequired(c.due, x.discount)
           Share(x) == IF plan /\ a.plan.discount > 0 THEN a.plan.discount * 100
                       ELSE x.discount * c.due
           Result(x) == IF Share(x) > p.hardMax * c.due THEN "rejected"
                        ELSE IF Share(x) > p.autoApproveMax * c.due \/ Paise(x) > remaining
                        THEN "escalate" ELSE "approved"
<1>1. /\ a.discount * c.due \in Nat /\ b.discount * c.due \in Nat
      /\ a.discount * c.due <= b.discount * c.due
      /\ DiscountRequired(c.due, a.discount) \in Int
      /\ DiscountRequired(c.due, b.discount) \in Int
      /\ DiscountRequired(c.due, a.discount) <= DiscountRequired(c.due, b.discount)
  BY LargerDiscount
<1>2. PICK hard \in Int, auto \in Int : hard = p.hardMax * c.due /\ auto = p.autoApproveMax * c.due
  OBVIOUS
<1>3. /\ Paise(a) \in Int /\ Paise(b) \in Int /\ Paise(a) <= Paise(b)
      /\ Share(a) \in Int /\ Share(b) \in Int /\ Share(a) <= Share(b)
  BY <1>1 DEF Larger
<1>4. /\ DiscountChecks(a, c, remaining, p).decision = Result(a)
      /\ DiscountChecks(b, c, remaining, p).decision = Result(b)
  <2>1. ~(a.discount < 0) /\ ~(b.discount < 0)
    OBVIOUS
  <2> QED
    BY <2>1 DEF DiscountChecks, Reject, Escalate, Approved
<1> HIDE DEF Paise, Share
<1>5. \/ Result(a) = Result(b)
      \/ Result(a) = "approved"
      \/ Result(b) = "rejected"
  BY <1>2, <1>3
<1>6. Result(a) \in {"approved", "escalate", "rejected"}
      /\ Result(b) \in {"approved", "escalate", "rejected"}
  OBVIOUS
<1> HIDE DEF Result
<1> QED
  BY <1>4, <1>5, <1>6 DEF Rank

\* For any case, action, budget and policy: a larger discount is never decided
\* on more easily than a smaller one.
THEOREM DiscountsAreMonotone ==
    ASSUME Amounts
    PROVE  MoreDiscountIsNeverEasier
<1> SUFFICES ASSUME NEW less \in {0, 9, 10, 11, 25, 26, 100},
                    NEW more \in {0, 9, 10, 11, 25, 26, 100}, less <= more
    PROVE  Rank[Evaluate([action EXCEPT !.discount = less], case, Remaining, now, policy).decision]
        <= Rank[Evaluate([action EXCEPT !.discount = more], case, Remaining, now, policy).decision]
  BY DEF MoreDiscountIsNeverEasier, Rank
<1>1. PICK a, b : /\ a = [action EXCEPT !.discount = less]
                  /\ b = [action EXCEPT !.discount = more]
  OBVIOUS
<1>2. /\ a.type = action.type /\ b.type = action.type
      /\ a.plan = action.plan /\ b.plan = action.plan
      /\ a.discount = less /\ b.discount = more
  BY <1>1 DEF Amounts
<1>3. /\ ContactChecks(a, case, now, policy) = ContactChecks(b, case, now, policy)
      /\ PlanChecks(a, case, now, policy) = PlanChecks(b, case, now, policy)
      /\ ReviewChecks(a, case, policy) = ReviewChecks(b, case, policy)
  BY <1>2 DEF ContactChecks, PlanChecks, ReviewChecks
<1>4. PICK first \in {CaseChecks(case, policy), ContactChecks(a, case, now, policy),
                      PlanChecks(a, case, now, policy), ReviewChecks(a, case, policy), Pass} :
         /\ Evaluate(a, case, Remaining, now, policy) =
                Then(first, DiscountChecks(a, case, Remaining, policy))
         /\ Evaluate(b, case, Remaining, now, policy) =
                Then(first, DiscountChecks(b, case, Remaining, policy))
         /\ first = Pass => PlanChecks(a, case, now, policy) = Pass
  BY <1>3 DEF Evaluate, Then
<1>5. CASE first # Pass
  <2>1. first.decision \in {"deferred", "escalate", "rejected"}
    BY <1>4, <1>5, Groups DEF ContactChecks, Reject, Defer
  <2> QED
    BY <1>1, <1>4, <1>5, <2>1 DEF Then, Rank
<1>6. CASE first = Pass
  <2>1. a.type = "offer_payment_plan" => a.plan.discount \in Int
    <3>1. a.type = "offer_payment_plan" => a.plan # NoPlan
      BY <1>4, <1>6 DEF PlanChecks, Pass, Reject
    <3> QED
      BY <1>2, <3>1 DEF Amounts
  <2>2. Rank[DiscountChecks(a, case, Remaining, policy).decision] <=
        Rank[DiscountChecks(b, case, Remaining, policy).decision]
    <3>1. /\ a.type = b.type /\ a.plan = b.plan
          /\ a.discount \in Nat /\ b.discount \in Nat /\ a.discount <= b.discount
      BY <1>2
    <3>2. a.type = "offer_payment_plan" => a.plan.discount \in Int
      BY <2>1
    <3>3. /\ case.due \in Nat /\ Remaining \in Int
          /\ policy.hardMax \in Int /\ policy.autoApproveMax \in Int
      BY DEF Amounts
    <3> HIDE DEF Amounts
    <3> QED
      BY <3>1, <3>2, <3>3, DiscountIsMonotone
  <2> QED
    BY <1>1, <1>4, <1>6, <2>2 DEF Then
<1> QED
  BY <1>5, <1>6

\* policy.yaml's terms for a payment plan, or easier ones.
PlanTerms ==
    /\ case.due \in Int /\ case.recovered \in Int /\ now \in Int
    /\ policy.plansEnabled /\ policy.maxDuration \in Int
    /\ policy.minUpfront \in Nat /\ policy.minUpfront <= 25
    /\ policy.maxInstallments \in Nat /\ policy.maxInstallments >= 3

\* For any balance: rounding the first installment up keeps the seeded plan
\* above the smallest share the policy asks for at once, so the gate takes it.
THEOREM SeededPlanIsAlwaysAccepted ==
    ASSUME PlanTerms, case.due >= case.recovered
    PROVE  SeededPlanIsAccepted
<1> DEFINE total == case.due - case.recovered
           plan == SeededPlan(total, now + policy.maxDuration)
<1>1. total \in Nat
  BY DEF PlanTerms
<1>2. \A t \in Nat, share \in Nat :
          share <= 25 => ~(((t + 3) \div 4) * 100 < share * t)
  <2> SUFFICES ASSUME NEW t \in Nat, NEW share \in Nat, share <= 25
      PROVE  ~(((t + 3) \div 4) * 100 < share * t)
    OBVIOUS
  <2>1. ((t + 3) \div 4) * 4 >= t
    OBVIOUS
  <2>2. share * t <= 25 * t
    OBVIOUS
  <2>3. (t + 3) \div 4 \in Int /\ share * t \in Int
    OBVIOUS
  <2> QED
    BY <2>1, <2>2, <2>3
<1>3. SUFFICES ASSUME plan # NoPlan
      PROVE  PlanChecks([type |-> "offer_payment_plan", plan |-> plan], case, now, policy) = Pass
  BY DEF SeededPlanIsAccepted
<1>4. plan = [total |-> total, upfront |-> (total + 3) \div 4, installments |-> 3,
              lastDue |-> now + policy.maxDuration, discount |-> 0]
  BY <1>3 DEF SeededPlan, SeededUpfront
<1>5. /\ ~(plan.upfront * 100 < policy.minUpfront * plan.total)
      /\ ~(plan.installments > policy.maxInstallments)
      /\ ~(plan.lastDue > now + policy.maxDuration)
      /\ plan.total = case.due - case.recovered
  BY <1>1, <1>2, <1>4 DEF PlanTerms
<1> HIDE DEF plan
<1> QED
  BY <1>3, <1>5 DEF PlanChecks, PlanTerms

\* The model-checked instance is one of those states all along, so both hold
\* of it however far its clock goes.
THEOREM QuietHoursAlwaysEndRight ==
    Spec => [](RetriesWhenQuietEnds /\ DeferralIsTight)
<1>1. Init => Instants
  <2> SUFFICES ASSUME Init PROVE Instants
    OBVIOUS
  <2>1. /\ now \in Int /\ case.zone \in {0, 11} /\ case.lastContact \in {-1, 9}
    <3>1. PICK x \in BOOLEAN, l \in {Never, 9}, z \in {0, 11}, d \in {3, 8, 200}, r \in {0, 3} :
             case = [status |-> "action_proposed", dispute |-> x, optOut |-> FALSE,
                     attempts |-> 1, llmCalls |-> 2, transitions |-> 2, contacts |-> 1,
                     lastContact |-> l, zone |-> z, due |-> d, recovered |-> r]
      BY DEF Init, Cases
    <3>2. case.zone = z /\ case.lastContact = l
      BY <3>1
    <3> QED
      BY <3>2 DEF Init, Never
  <2>2. PICK h \in {<<42, 18>>, <<4, 20>>, <<30, 30>>, <<47, 0>>}, c \in {24, 53} :
           policy = With(h[1], h[2], c)
    BY DEF Init, Policies
  <2>3. policy.quietHours = [start |-> h[1], end |-> h[2]] /\ policy.cooldown = c
    BY <2>2 DEF With, Yaml
  <2>4. h[1] \in Times /\ h[2] \in Times
    BY DEF Times, DayLength
  <2> QED
    BY <2>1, <2>3, <2>4 DEF Instants, Hours
<1>2. Instants /\ [Next]_vars => Instants'
  BY DEF Instants, Next, Tick, Ledger, vars, looked
<1>3. Instants => RetriesWhenQuietEnds /\ DeferralIsTight
  BY RetryIsTheEndOfQuiet, DeferralIsAlwaysTight
<1> QED
  BY <1>1, <1>2, <1>3, PTL DEF Spec

-----------------------------------------------------------------------------
\* The ledger: each action holds nothing, or the one amount it asked for.
Held == [case : {thisCase, otherCase}, paise : Nat]
LedgerTyped == cap \in Int /\ reservation \in [ActionId -> Held \cup {Free}]

Amount == [a \in ActionId |-> reservation[a].paise]

LEMMA AmountTyped ==
    ASSUME LedgerTyped
    PROVE  /\ Amount \in [ActionId -> Nat] /\ Amount \in [ActionId -> Int]
           /\ Reserved = SumFunction(Amount) /\ Reserved \in Nat
           /\ Available = cap - Reserved /\ Available \in Int
<1>1. \A h \in Held \cup {Free} : h.paise \in Nat
  BY DEF Held, Free
<1>2. Amount \in [ActionId -> Nat]
  BY <1>1 DEF LedgerTyped, Amount
<1>3. Amount \in [ActionId -> Int]
  BY <1>2
<1>4. Reserved = SumFunction(Amount)
  BY DEF Reserved, Amount
<1>5. SumFunction(Amount) \in Nat
  <2> HIDE DEF Amount
  <2> QED
    BY <1>2, SumFunctionType, LedgerAssumption
<1> QED
  BY <1>2, <1>3, <1>4, <1>5 DEF Available, LedgerTyped

\* What DiscountChecks works out, whatever remains of the budget.
Required ==
    LET asked == DiscountRequired(case.due, action.discount)
    IN  IF action.type = "offer_payment_plan" THEN Larger(asked, action.plan.discount)
        ELSE asked

\* What the budget has to do with what the gate says.
LEMMA GateAsksForRequired ==
    /\ Gate.decision = "approved" =>
           Gate.discount = Required /\ ~(Required > Remaining)
    /\ Gate.reason = "batch_discount_budget_exceeded" =>
           Gate.discount = Required /\ Required > Remaining
<1> DEFINE case1 == CaseChecks(case, policy)
           contact == ContactChecks(action, case, now, policy)
           plan == PlanChecks(action, case, now, policy)
           review == ReviewChecks(action, case, policy)
           last == DiscountChecks(action, case, Remaining, policy)
           Budget == "batch_discount_budget_exceeded"
<1>1. case1 = Pass \/ (case1.decision # "approved" /\ case1.reason # Budget)
  BY DEF CaseChecks, Reject, Escalate
<1>2. contact = Pass \/ (contact.decision # "approved" /\ contact.reason # Budget)
  BY DEF ContactChecks, Reject, Defer
<1>3. plan = Pass \/ (plan.decision # "approved" /\ plan.reason # Budget)
  BY DEF PlanChecks, Reject
<1>4. review = Pass \/ (review.decision # "approved" /\ review.reason # Budget)
  BY DEF ReviewChecks, Escalate
<1>5. /\ last.decision = "approved" => last.discount = Required /\ ~(Required > Remaining)
      /\ last.reason = Budget => last.discount = Required /\ Required > Remaining
  BY DEF DiscountChecks, Reject, Escalate, Approved, Required
<1>6. Gate \in {case1, contact, plan, review, last} \ {Pass} \/ Gate = last
  BY DEF Gate, Evaluate, Then
<1> HIDE DEF case1, contact, plan, review, last
<1> QED
  BY <1>1, <1>2, <1>3, <1>4, <1>5, <1>6

\* What this action may hold, and what is known of the ledger then.
Agreeing ==
    /\ LedgerTyped
    /\ Required \in Int
    /\ reservation[this] \in {Free, [case |-> thisCase, paise |-> Required]}

\* For any case, action, policy, instant and any ledger, overdrawn or not, in
\* which this action holds nothing or what it asks for: what the gate says of
\* the budget is what the ledger answers.
THEOREM GateAlwaysAgreesWithLedger ==
    ASSUME Agreeing
    PROVE  GateAgreesWithLedger
<1> DEFINE asked == [case |-> thisCase, paise |-> Required]
           answer == Answer(this, thisCase, Required)
<1>1. Available \in Int /\ Remaining = IF Available < 0 THEN 0 ELSE Available
  BY AmountTyped DEF Agreeing, Remaining
<1>2. reservation[this] # Free => answer = "granted"
  BY DEF Answer, Agreeing
<1>3. reservation[this] = Free =>
          answer = IF Required <= Available THEN "granted" ELSE "refused"
  BY DEF Answer
<1>4. ASSUME Gate.decision = "approved", Gate.discount > 0
      PROVE  Answer(this, thisCase, Gate.discount) = "granted"
  <2>1. Gate.discount = Required /\ ~(Required > Remaining)
    BY <1>4, GateAsksForRequired
  <2>2. Required <= Available
    BY <1>1, <1>4, <2>1 DEF Agreeing
  <2> QED
    BY <1>2, <1>3, <2>1, <2>2
<1>5. ASSUME Gate.reason = "batch_discount_budget_exceeded"
      PROVE  Answer(this, thisCase, Gate.discount) = "granted" <=> reservation[this] # Free
  <2>1. Gate.discount = Required /\ Required > Remaining
    BY <1>5, GateAsksForRequired
  <2>2. ~(Required <= Available)
    BY <1>1, <2>1 DEF Agreeing
  <2> QED
    BY <1>2, <1>3, <2>1, <2>2
<1> QED
  BY <1>4, <1>5 DEF GateAgreesWithLedger

LEMMA ReserveKeepsType ==
    ASSUME LedgerTyped, NEW a \in ActionId, NEW c \in {thisCase, otherCase}, NEW paise \in Int,
           Reserve(a, c, paise)
    PROVE  /\ LedgerTyped'
           /\ reservation' = reservation \/ reservation' = [reservation EXCEPT ![a] = [case |-> c, paise |-> paise]]
<1>1. paise \in Nat
  BY DEF Reserve
<1>2. [case |-> c, paise |-> paise] \in Held
  BY <1>1 DEF Held
<1> QED
  BY <1>2 DEF Reserve, LedgerTyped

LEMMA AgreeingStep ==
    ASSUME Agreeing, [Next]_vars
    PROVE  Agreeing'
<1>1. Required' = Required
  BY DEF Next, Tick, Ledger, vars, looked, Required
<1>2. this \in ActionId /\ other \in ActionId /\ this # other
  BY InstanceAssumption
<1>3. CASE UNCHANGED ledger
  BY <1>1, <1>3 DEF Agreeing, LedgerTyped, ledger
<1>4. CASE Gate.decision = "approved" /\ Reserve(this, thisCase, Gate.discount)
  <2>1. Gate.discount = Required
    BY <1>4, GateAsksForRequired
  <2>2. /\ LedgerTyped'
        /\ \/ reservation' = reservation
           \/ reservation' = [reservation EXCEPT ![this] = [case |-> thisCase, paise |-> Required]]
    BY <1>2, <1>4, <2>1, ReserveKeepsType DEF Agreeing
  <2> QED
    BY <1>1, <1>2, <2>2 DEF Agreeing, LedgerTyped
<1>5. ASSUME NEW paise \in {3, 20}, Reserve(other, otherCase, paise)
      PROVE  Agreeing'
  <2>1. /\ LedgerTyped'
        /\ \/ reservation' = reservation
           \/ reservation' = [reservation EXCEPT ![other] = [case |-> otherCase, paise |-> paise]]
    BY <1>2, <1>5, ReserveKeepsType DEF Agreeing
  <2> QED
    BY <1>1, <1>2, <2>1 DEF Agreeing, LedgerTyped
<1>6. ASSUME NEW paise \in Caps, Initialize(paise)
      PROVE  Agreeing'
  BY <1>1, <1>6 DEF Agreeing, LedgerTyped, Initialize, Caps
<1>7. CASE Clear
  BY <1>1, <1>2, <1>7 DEF Agreeing, LedgerTyped, Clear
<1> QED
  BY <1>3, <1>4, <1>5, <1>6, <1>7 DEF Next, Tick, Ledger, vars

\* What the action asks for is an amount.
LEMMA AgreeingInit ==
    ASSUME Init
    PROVE  Agreeing
<1>1. case.due \in Nat
  <2>1. PICK x \in BOOLEAN, l \in {Never, 9}, z \in {0, 11}, d \in {3, 8, 200}, r \in {0, 3} :
           case = [status |-> "action_proposed", dispute |-> x, optOut |-> FALSE,
                   attempts |-> 1, llmCalls |-> 2, transitions |-> 2, contacts |-> 1,
                   lastContact |-> l, zone |-> z, due |-> d, recovered |-> r]
    BY DEF Init, Cases
  <2> QED
    BY <2>1
<1>2. /\ action.discount \in Int
      /\ action.type = "offer_payment_plan" => action.plan.discount \in Nat
  <2>1. CASE \E t \in {"send_reminder", "offer_discount_link", "stop"}, d \in {-1, 0, 10, 26} :
               action = [type |-> t, discount |-> d, plan |-> NoPlan]
    BY <2>1
  <2>2. CASE \E p \in Plans : action = [type |-> "offer_payment_plan", discount |-> 0, plan |-> p]
    <3>1. PICK p \in Plans :
             action = [type |-> "offer_payment_plan", discount |-> 0, plan |-> p]
      BY <2>2
    <3>2. p.discount \in {0, 20}
      BY DEF Plans
    <3> QED
      BY <3>1, <3>2
  <2> QED
    BY <2>1, <2>2 DEF Init, Actions
<1>3. DiscountRequired(case.due, action.discount) \in Int
  <2>1. PICK asked \in Int : asked = case.due * action.discount
    BY <1>1, <1>2
  <2>2. (asked + 50) \div 100 \in Int
    OBVIOUS
  <2> QED
    BY <2>1, <2>2 DEF DiscountRequired
<1>4. Required \in Int
  BY <1>2, <1>3 DEF Required, Larger
<1>5. LedgerTyped /\ reservation[this] = Free
  BY InstanceAssumption DEF Init, BudgetInit, Caps, LedgerTyped
<1> QED
  BY <1>4, <1>5 DEF Agreeing

\* So they agree in every state of the instance, for any set of actions and
\* however far its clock goes: reservations are made, asked for again and
\* cleared, and the cap is raised and lowered under them.
THEOREM GateAndLedgerAgree == Spec => []GateAgreesWithLedger
<1> QED
  BY AgreeingInit, AgreeingStep, GateAlwaysAgreesWithLedger, PTL DEF Spec

\* Reserving adds what was asked for to the sum, once.
LEMMA ReservedGrows ==
    ASSUME LedgerTyped, NEW a \in ActionId, NEW c \in {thisCase, otherCase}, NEW paise \in Int,
           Reserve(a, c, paise)
    PROVE  \/ Reserved' = Reserved
           \/ Reserved' = Reserved + paise /\ paise <= cap - Reserved
<1>1. /\ Amount \in [ActionId -> Int] /\ Reserved = SumFunction(Amount)
      /\ Available = cap - Reserved /\ Reserved \in Nat
  BY AmountTyped
<1>2. Reserved' = SumFunction(Amount')
  BY DEF Reserved, Amount
<1>3. CASE reservation' = reservation
  BY <1>3 DEF Reserved
<1>4. CASE reservation[a] = [case |-> c, paise |-> paise]
  <2>1. reservation' = reservation
    BY <1>4 DEF Reserve, LedgerTyped
  <2> QED
    BY <2>1 DEF Reserved
<1>5. CASE /\ reservation[a] = Free /\ paise <= Available
           /\ reservation' = [reservation EXCEPT ![a] = [case |-> c, paise |-> paise]]
  <2>1. Amount' = [Amount EXCEPT ![a] = paise]
    BY <1>5 DEF Amount, LedgerTyped
  <2>2. Amount[a] = 0
    BY <1>5 DEF Amount, Free
  <2>3. SumFunction([Amount EXCEPT ![a] = paise]) = SumFunction(Amount) + (paise - Amount[a])
    <3> HIDE DEF Amount
    <3> QED
      BY <1>1, SumFunctionChange, LedgerAssumption
  <2>4. Reserved' = Reserved + paise
    BY <1>1, <1>2, <2>1, <2>2, <2>3
  <2> QED
    BY <1>1, <1>5, <2>4
<1> QED
  BY <1>3, <1>4, <1>5 DEF Reserve, Answer

\* For any set of actions: what is reserved never grows past the cap of the
\* moment, asking again takes nothing, and a lowered cap only stops the growth.
THEOREM ReservationsAlwaysFit == Spec => ReservationsFit
<1>1. ASSUME Agreeing, [Next]_vars
      PROVE  Reserved' > Reserved => Reserved' <= cap'
  <2>1. LedgerTyped
    BY <1>1 DEF Agreeing
  <2>2. Reserved \in Nat /\ cap \in Int
    BY <2>1, AmountTyped DEF LedgerTyped
  <2>3. this \in ActionId /\ other \in ActionId
    BY InstanceAssumption
  <2>4. CASE UNCHANGED reservation
    BY <2>4, <2>2 DEF Reserved
  <2>5. ASSUME NEW a \in ActionId, NEW c \in {thisCase, otherCase}, NEW paise \in Int,
               Reserve(a, c, paise)
        PROVE  Reserved' > Reserved => Reserved' <= cap'
    <3>1. cap' = cap
      BY <2>5 DEF Reserve
    <3>2. \/ Reserved' = Reserved
          \/ Reserved' = Reserved + paise /\ paise <= cap - Reserved
      BY <2>1, <2>5, ReservedGrows
    <3> QED
      BY <2>2, <3>1, <3>2
  <2>6. CASE Gate.decision = "approved" /\ Reserve(this, thisCase, Gate.discount)
    <3>1. Gate.discount = Required /\ Required \in Int
      BY <1>1, <2>6, GateAsksForRequired DEF Agreeing
    <3> QED
      BY <2>3, <2>5, <2>6, <3>1
  <2>7. CASE \E paise \in {3, 20} : Reserve(other, otherCase, paise)
    BY <2>3, <2>5, <2>7
  <2>8. CASE Clear
    <3>1. PICK f : f = [a \in ActionId |-> 0]
      OBVIOUS
    <3>2. f \in [ActionId -> {0}]
      BY <3>1
    <3>3. SumFunction(f) \in {0}
      BY <3>2, SumFunctionType, LedgerAssumption
    <3>4. Reserved' = SumFunction(f)
      BY <2>8, <3>1 DEF Clear, Reserved, Free
    <3> QED
      BY <2>2, <3>3, <3>4
  <2> QED
    BY <1>1, <2>4, <2>6, <2>7, <2>8 DEF Next, Tick, Ledger, Initialize, vars, ledger
<1> QED
  BY <1>1, AgreeingInit, AgreeingStep, PTL DEF Spec, ReservationsFit
=============================================================================
