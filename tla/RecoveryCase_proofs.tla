-------------------------- MODULE RecoveryCase_proofs --------------------------
(***************************************************************************)
(* Proofs about RecoveryCase, for any worker threads, policy, case, agents *)
(* and bounds.                                                             *)
(***************************************************************************)
EXTENDS RecoveryCase, Sums, FiniteSetTheorems, SequenceTheorems, TLAPS

Plan == {NoPlan} \cup
    [total : Int, upfront : Int, installments : {3}, lastDue : Int, discount : {0}]

Act == [id : 0..MaxRequests, type : ActionType \cup {"none"}, discount : 0..100, plan : Plan]

EventType == {"case_detected", "diagnosis_completed", "action_proposed", "policy_evaluated",
              "action_executed", "reply_interpreted", "payment_captured",
              "human_review_decided", "woken"}

Outcome == {"none", "approved", "escalate", "deferred", "rejected", "executed", "replay",
            "denied", "promise_missed", "scheduled_followup_due"} \cup Intent

\* An event before and after Save has filled it in.
Blank == [type : EventType, from : {"absent"}, to : Status \cup {"absent"}, action : {NoAction},
          outcome : Outcome, amount : Nat, epoch : {0}]
Entry == [type : EventType, from : Status \cup {"absent"}, to : Status, action : Act,
          outcome : Outcome, amount : Nat, epoch : Nat]

Op == {"diagnose", "strategize", "gate", "execute", "mark", "executed", "replay", "interpret",
       "pay", "review", "decide", "list", "wake", "delete", "seed", "seed_case"}

Work == [op : Op, row : Row \cup {NoCase}, action : Act, at : Nat, epoch : Nat]
Saved == [op : {"append"}, row : Row, action : Act, at : Nat, epoch : Nat,
          next : {"strategize", "gate", "execute", "done"}, event : Entry]

\* What a thread does once it has appended what it has to.
Stage(c) == IF c.op = "append" THEN c.next ELSE c.op

RowOK(row) ==
    /\ row \in Row
    /\ row.status = "paid" => row.recovered = Profile.due
    /\ row.status = "partially_paid" => row.recovered \in 1..Profile.due - 1
    /\ row.attempts <= requests

Named(a) == a.id \in 1..requests /\ a.type \in ActionType

CallOK(c) ==
    /\ c \in Work \cup Saved
    /\ Stage(c) \notin {"list", "delete", "seed", "seed_case"} => RowOK(c.row)
    /\ Stage(c) \in {"diagnose", "strategize"} => c.row.attempts < requests
    /\ Stage(c) \in {"gate", "execute", "mark", "executed", "replay", "decide"} =>
           Named(c.action)
    /\ Stage(c) \in {"diagnose", "strategize", "gate"} => c.at \in 1..Len(clocks)
    /\ c.epoch <= epoch
    /\ c.op = "append" =>
           /\ c.event.epoch = c.epoch /\ c.event.action = c.action
           /\ c.event.type = "action_proposed" => Named(c.action)

ClocksTyped == clocks \in Seq(Nat) /\ clocks # <<>>
CaseTyped == case = NoCase \/ RowOK(case)
TrailTyped ==
    /\ trail \in Seq(Entry)
    /\ \A i \in 1..Len(trail) : trail[i].epoch <= epoch
    /\ \A i \in Proposed : Named(trail[i].action)
    /\ Proposed # {} => \E i \in Proposed : \A j \in Proposed : j <= i
LedgerTyped ==
    ledger \in [ActionId -> [type : ActionType, status : {"pending", "succeeded"}] \cup {NoEntry}]
CallsTyped ==
    /\ call \in [Handler -> Work \cup Saved \cup {Idle}]
    /\ \A h \in Handler : call[h] = Idle \/ CallOK(call[h])

Sound ==
    /\ epoch \in Nat /\ requests \in 0..MaxRequests /\ others \in BOOLEAN
    /\ ClocksTyped /\ CaseTyped /\ TrailTyped /\ LedgerTyped /\ CallsTyped

-----------------------------------------------------------------------------
\* The gate decides in one of four ways; an instant it defers to is to come.
LEMMA QuietRetry ==
    ASSUME NEW t \in Nat,
           IsQuiet(t, Profile.zone, Policy.quietHours)
    PROVE  QuietHoursRetryAt(t, Profile.zone, Policy.quietHours) \in Nat
<1> DEFINE local == (t + Profile.zone) % DayLength
           s == Policy.quietHours.start
           e == Policy.quietHours.end
<1>1. Profile.zone \in Int /\ s \in 0..47 /\ e \in 0..47
  BY CaseAssumption DEF DayLength
<1>2. local \in 0..47
  BY <1>1 DEF DayLength
<1>3. /\ LocalTime(t, Profile.zone) = local
      /\ LocalMidnight(t, Profile.zone) = t - local
  BY DEF LocalTime, LocalMidnight
<1>4. IF s > e THEN local >= s \/ local < e ELSE s <= local /\ local < e
  BY <1>3 DEF IsQuiet
<1>5. QuietHoursRetryAt(t, Profile.zone, Policy.quietHours) =
          IF s > e /\ local >= s THEN t - local + 48 + e ELSE t - local + e
  BY <1>3 DEF QuietHoursRetryAt, DayLength
<1> HIDE DEF local, s, e
<1> QED
  BY <1>1, <1>2, <1>4, <1>5

LEMMA Decisions ==
    ASSUME NEW action, NEW row, NEW remaining, NEW t \in Nat
    PROVE  LET result == Evaluate(action, GateInput(row), remaining, t, Policy)
           IN  /\ result.decision \in {"approved", "escalate", "deferred", "rejected"}
               /\ result.decision = "deferred" => result.retryAt \in Nat
<1> DEFINE c == GateInput(row)
<1>1. c.zone = Profile.zone /\ c.lastContact = Never
  BY DEF GateInput
<1>2. \/ CaseChecks(c, Policy) = Pass
      \/ CaseChecks(c, Policy).decision \in {"escalate", "rejected"}
  BY DEF CaseChecks, Reject, Escalate
<1>3. \/ ContactChecks(action, c, t, Policy) = Pass
      \/ ContactChecks(action, c, t, Policy).decision = "rejected"
      \/ /\ ContactChecks(action, c, t, Policy).decision = "deferred"
         /\ ContactChecks(action, c, t, Policy).retryAt \in Nat
  <2>1. CASE IsQuiet(t, Profile.zone, Policy.quietHours)
    BY <1>1, <2>1, QuietRetry DEF ContactChecks, Reject, Defer
  <2>2. CASE ~IsQuiet(t, Profile.zone, Policy.quietHours)
    BY <1>1, <2>2 DEF ContactChecks, Reject
  <2> QED
    BY <2>1, <2>2
<1>4. \/ PlanChecks(action, c, t, Policy) = Pass
      \/ PlanChecks(action, c, t, Policy).decision = "rejected"
  BY DEF PlanChecks, Reject
<1>5. \/ ReviewChecks(action, c, Policy) = Pass
      \/ ReviewChecks(action, c, Policy).decision = "escalate"
  BY DEF ReviewChecks, Escalate
<1>6. DiscountChecks(action, c, remaining, Policy).decision \in {"approved", "escalate", "rejected"}
  BY DEF DiscountChecks, Reject, Escalate, Approved
<1>7. Evaluate(action, c, remaining, t, Policy) \in
          {CaseChecks(c, Policy), ContactChecks(action, c, t, Policy),
           PlanChecks(action, c, t, Policy), ReviewChecks(action, c, Policy),
           DiscountChecks(action, c, remaining, Policy)} \ {Pass}
      \/ Evaluate(action, c, remaining, t, Policy) = DiscountChecks(action, c, remaining, Policy)
  BY DEF Evaluate, Then
<1> HIDE DEF c
<1> QED
  BY <1>2, <1>3, <1>4, <1>5, <1>6, <1>7 DEF c

-----------------------------------------------------------------------------
\* A thread's knowledge stays good while requests, resets and clocks grow.

Grows ==
    /\ requests' \in requests..MaxRequests
    /\ epoch' \in Nat /\ epoch <= epoch'
    /\ ClocksTyped' /\ Len(clocks) <= Len(clocks')

LEMMA RowsKept ==
    ASSUME Sound, Grows, NEW row, RowOK(row)
    PROVE  RowOK(row)'
<1>1. row.attempts \in Nat /\ requests \in Nat /\ requests' \in Nat /\ requests <= requests'
  BY CaseAssumption DEF RowOK, Row, Sound, Grows
<1> QED
  BY <1>1 DEF RowOK

LEMMA NamesKept ==
    ASSUME Sound, Grows, NEW a, Named(a)
    PROVE  Named(a)'
<1>1. requests \in Nat /\ requests' \in Nat /\ requests <= requests'
  BY CaseAssumption DEF Sound, Grows
<1> QED
  BY <1>1 DEF Named

LEMMA CallsKept ==
    ASSUME Sound, Grows, NEW c, CallOK(c)
    PROVE  CallOK(c)'
<1>1. requests \in Nat /\ requests' \in Nat /\ requests <= requests'
  BY CaseAssumption DEF Sound, Grows
<1>2. c.epoch \in Nat /\ c.epoch <= epoch'
  <2>1. c.epoch \in Nat
    BY DEF CallOK, Work, Saved
  <2> QED
    BY <2>1 DEF CallOK, Sound, Grows
<1>3. Stage(c) \in {"diagnose", "strategize", "gate"} => c.at \in 1..Len(clocks')
  <2>1. Len(clocks) \in Nat /\ Len(clocks') \in Nat
    BY DEF Sound, ClocksTyped, Grows
  <2> QED
    BY <2>1 DEF CallOK, Grows
<1>4. Stage(c) \in {"diagnose", "strategize"} => c.row.attempts < requests'
  <2>1. Stage(c) \in {"diagnose", "strategize"} => c.row.attempts \in Nat
    BY DEF CallOK, RowOK, Row
  <2> QED
    BY <1>1, <2>1 DEF CallOK
<1>5. Stage(c) \notin {"list", "delete", "seed", "seed_case"} => RowOK(c.row)'
  BY RowsKept DEF CallOK
<1>6. /\ Stage(c) \in {"gate", "execute", "mark", "executed", "replay", "decide"} =>
             Named(c.action)'
      /\ c.op = "append" => (c.event.type = "action_proposed" => Named(c.action)')
  BY NamesKept DEF CallOK
<1> QED
  BY <1>2, <1>3, <1>4, <1>5, <1>6 DEF CallOK

\* One thread goes on, with knowledge that is good; the tables are what they
\* should be.
LEMMA OneGoesOn ==
    ASSUME Sound, Grows, NEW h \in Handler, NEW c,
           call' = [call EXCEPT ![h] = c], c = Idle \/ CallOK(c)',
           CaseTyped', TrailTyped', LedgerTyped', others' \in BOOLEAN
    PROVE  Sound'
<1>1. c \in Work \cup Saved \cup {Idle}
  BY DEF CallOK
<1>2. call' \in [Handler -> Work \cup Saved \cup {Idle}]
  BY <1>1 DEF Sound, CallsTyped
<1>3. ASSUME NEW g \in Handler
      PROVE  (call[g] = Idle \/ CallOK(call[g]))'
  <2>1. PICK d : d = call[g]
    OBVIOUS
  <2>2. call'[g] = IF g = h THEN c ELSE d
    BY <2>1 DEF Sound, CallsTyped
  <2>3. d = Idle \/ CallOK(d)'
    <3>1. d = Idle \/ CallOK(d)
      BY <2>1 DEF Sound, CallsTyped
    <3> QED
      BY <3>1, CallsKept
  <2>4. PICK e : e = call'[g] /\ (e = Idle \/ CallOK(e)')
    BY <2>2, <2>3
  <2> QED
    BY <2>4 DEF CallOK, RowOK, Named
<1>4. CallsTyped'
  BY <1>2, <1>3 DEF CallsTyped
<1>5. requests' \in 0..MaxRequests
  BY CaseAssumption DEF Sound, Grows
<1> QED
  BY <1>4, <1>5 DEF Sound, Grows

LEMMA CaseKept ==
    ASSUME Sound, Grows, UNCHANGED case
    PROVE  CaseTyped'
<1>1. PICK row : row = case
  OBVIOUS
<1> QED
  BY <1>1, RowsKept DEF CaseTyped, Sound

LEMMA TrailKept ==
    ASSUME Sound, Grows, UNCHANGED trail
    PROVE  TrailTyped'
<1>1. Proposed' = Proposed
  BY DEF Proposed
<1>2. \A i \in 1..Len(trail) : trail[i].epoch <= epoch'
  <2>1. \A i \in 1..Len(trail) : trail[i].epoch \in Nat
    <3>1. trail \in Seq(Entry)
      BY DEF Sound, TrailTyped
    <3>2. \A i \in 1..Len(trail) : trail[i] \in Entry
      BY <3>1
    <3>3. \A e \in Entry : e.epoch \in Nat
      BY DEF Entry
    <3> QED
      BY <3>2, <3>3
  <2> QED
    BY <2>1 DEF Sound, TrailTyped, Grows
<1>3. \A i \in Proposed : Named(trail[i].action)'
  <2> SUFFICES ASSUME NEW i \in Proposed PROVE Named(trail[i].action)'
    OBVIOUS
  <2>1. PICK a : a = trail[i].action
    OBVIOUS
  <2>2. Named(a)
    BY <2>1 DEF Sound, TrailTyped
  <2>3. a = trail'[i].action
    BY <2>1
  <2> QED
    BY <2>2, <2>3, NamesKept
<1> QED
  BY <1>1, <1>2, <1>3 DEF TrailTyped, Sound

\* The steps' common shapes: a request begins, a row is saved, a thread goes on
\* with what it knows.
LEMMA NothingIsAnAct ==
    /\ NoAction \in Act /\ NoAction.id = 0
    /\ NoCase \notin Row /\ NoCase.status = "absent"
<1>1. NoAction \in Act
  BY CaseAssumption DEF NoAction, Act, Plan
<1>2. NoCase \notin Row
  <2>1. \A row \in Row : row.status # "absent"
    BY DEF Row, Status
  <2> QED
    BY <2>1 DEF NoCase
<1> QED
  BY <1>1, <1>2 DEF NoAction, NoCase

LEMMA Beginning ==
    ASSUME Sound, NEW h \in Handler, NEW op \in Op, NEW at \in Nat, Begin(h, op, at),
           UNCHANGED <<case, others, trail, ledger, epoch>>,
           ClocksTyped', Len(clocks) <= Len(clocks'),
           \/ op \in {"list", "delete"}
           \/ case # NoCase /\ op \in {"interpret", "pay", "review"}
           \/ case # NoCase /\ op = "diagnose" /\ at \in 1..Len(clocks')
    PROVE  Sound'
<1>1. /\ requests \in Nat /\ requests < MaxRequests /\ requests' = requests + 1
      /\ epoch \in Nat
  BY DEF Sound, Begin
<1>2. Grows
  BY <1>1, CaseAssumption DEF Grows
<1>3. PICK c : c = [op |-> op, row |-> case, action |-> NoAction, at |-> at, epoch |-> epoch]
  OBVIOUS
<1>4. c.op = op /\ c.row = case /\ c.at = at /\ c.epoch = epoch
  BY <1>3
<1>5. Stage(c) = op
  BY <1>4 DEF Stage, Op
<1>6. c \in Work
  <2>1. case \in Row \cup {NoCase}
    BY DEF Sound, CaseTyped, RowOK
  <2> QED
    BY <1>1, <1>3, <2>1, NothingIsAnAct DEF Work
<1>7. case # NoCase => RowOK(case)' /\ case.attempts < requests'
  <2>1. PICK row : row = case
    OBVIOUS
  <2>2. case # NoCase => RowOK(row)
    BY <2>1 DEF Sound, CaseTyped
  <2>3. case # NoCase => row.attempts \in Nat /\ row.attempts <= requests
    BY <2>2 DEF RowOK, Row
  <2>4. case # NoCase => RowOK(row)'
    BY <1>2, <2>2, RowsKept
  <2>5. case # NoCase => RowOK(case)'
    BY <2>1, <2>4 DEF RowOK
  <2> QED
    BY <1>1, <2>1, <2>3, <2>5
<1>8. CallOK(c)'
  <2>1. c.row = case'
    BY <1>4
  <2>2. Stage(c) \notin {"list", "delete", "seed", "seed_case"} => RowOK(c.row)'
    BY <1>5, <1>7, <2>1 DEF RowOK
  <2>3. Stage(c) \in {"diagnose", "strategize"} => c.row.attempts < requests'
    BY <1>4, <1>5, <1>7
  <2>4. Stage(c) \in {"diagnose", "strategize", "gate"} => c.at \in 1..Len(clocks')
    BY <1>4, <1>5
  <2>5. Stage(c) \notin {"gate", "execute", "mark", "executed", "replay", "decide"}
    BY <1>5
  <2>6. c.epoch <= epoch' /\ c.op # "append"
    BY <1>1, <1>4 DEF Op
  <2> QED
    BY <1>6, <2>2, <2>3, <2>4, <2>5, <2>6 DEF CallOK
<1>9. call' = [call EXCEPT ![h] = c]
  BY <1>3 DEF Begin
<1>10. CaseTyped' /\ TrailTyped'
  BY <1>2, CaseKept, TrailKept
<1>11. LedgerTyped' /\ others' \in BOOLEAN
  BY DEF Sound, LedgerTyped
<1> QED
  BY <1>2, <1>8, <1>9, <1>10, <1>11, OneGoesOn

\* What Save leaves in call: the row, the action, and the event to append.
Appending(h, row, action, event, next) ==
    [op |-> "append", row |-> row, action |-> action, at |-> call[h].at,
     epoch |-> call[h].epoch, next |-> next,
     event |-> [event EXCEPT !.from = call[h].row.status, !.to = row.status,
                             !.action = action, !.epoch = call[h].epoch]]

LEMMA Saving ==
    ASSUME Sound, NEW h \in Handler, call[h] \in Work,
           NEW row, RowOK(row), NEW action \in Act, NEW event \in Blank,
           NEW next \in {"strategize", "gate", "execute", "done"},
           Save(h, row, action, event, next), UNCHANGED Rest,
           next = "strategize" => row.attempts < requests,
           next \in {"gate", "execute"} \/ event.type = "action_proposed" => Named(action),
           next \in {"strategize", "gate"} => call[h].at \in 1..Len(clocks)
    PROVE  Sound'
<1>1. Grows
  BY CaseAssumption DEF Sound, Grows, Rest, ClocksTyped
<1>2. PICK c : c = Appending(h, row, action, event, next)
  OBVIOUS
<1>3. /\ c.op = "append" /\ c.row = row /\ c.action = action /\ c.at = call[h].at
      /\ c.epoch = call[h].epoch /\ c.next = next
  BY <1>2 DEF Appending
<1>4. /\ c.event.type = event.type /\ c.event.action = action
      /\ c.event.epoch = call[h].epoch
  BY <1>2 DEF Appending, Blank
<1>5. call[h].epoch \in Nat /\ call[h].at \in Nat /\ call[h].epoch <= epoch
  <2>1. call[h] # Idle
    BY DEF Work, Idle, Op
  <2> QED
    BY <2>1 DEF Work, Sound, CallsTyped, CallOK
<1>6. call[h].row.status \in Status \cup {"absent"}
  BY NothingIsAnAct DEF Work, Row
<1>7. row \in Row /\ row.status \in Status
  BY DEF RowOK, Row
<1>8. c.event \in Entry
  <2>1. c.event = [event EXCEPT !.from = call[h].row.status, !.to = row.status,
                               !.action = action, !.epoch = call[h].epoch]
    BY <1>2 DEF Appending
  <2> QED
    BY <1>5, <1>6, <1>7, <2>1 DEF Entry, Blank
<1>9. c \in Saved
  <2>1. c = [op |-> "append", row |-> row, action |-> action, at |-> call[h].at,
             epoch |-> call[h].epoch, next |-> next, event |-> c.event]
    BY <1>2 DEF Appending
  <2> QED
    BY <1>5, <1>7, <1>8, <2>1 DEF Saved
<1>10. CallOK(c)
  <2>1. Stage(c) = next
    BY <1>3 DEF Stage
  <2> QED
    BY <1>3, <1>4, <1>5, <1>9, <2>1 DEF CallOK
<1>11. CallOK(c)'
  BY <1>1, <1>10, CallsKept
<1>12. call' = [call EXCEPT ![h] = c] /\ case' = row
  BY <1>2 DEF Save, Appending
<1>13. CaseTyped'
  <2>1. RowOK(row)'
    BY <1>1, RowsKept
  <2> QED
    BY <1>12, <2>1 DEF CaseTyped, RowOK
<1>14. TrailTyped'
  BY <1>1, TrailKept DEF Rest
<1>15. LedgerTyped' /\ others' \in BOOLEAN
  BY DEF Sound, LedgerTyped, Rest
<1> QED
  BY <1>1, <1>11, <1>12, <1>13, <1>14, <1>15, OneGoesOn

LEMMA Working ==
    ASSUME Sound, NEW h \in Handler, call[h].op \in Op
    PROVE  /\ call[h] \in Work /\ CallOK(call[h]) /\ Stage(call[h]) = call[h].op
           /\ call[h].epoch \in Nat /\ call[h].at \in Nat
<1>1. call[h] # Idle
  BY DEF Idle, Op
<1>2. call[h] \notin Saved
  BY DEF Saved, Op
<1> QED
  BY <1>1, <1>2 DEF Sound, CallsTyped, Stage, Op, Work

\* A row with one more transition, and what the steps set in it.
LEMMA Stepping ==
    ASSUME NEW row, RowOK(row), requests \in Nat
    PROVE  /\ RowOK(Step(row))
           /\ Step(row) = [row EXCEPT !.transitions = row.transitions + 1]
           /\ Step(row).attempts = row.attempts /\ Step(row).recovered = row.recovered
           /\ Step(row).status = row.status
           /\ Step(row).dispute = row.dispute /\ Step(row).optOut = row.optOut
<1>1. row \in Row
  BY DEF RowOK
<1>2. /\ Step(row).attempts = row.attempts /\ Step(row).recovered = row.recovered
      /\ Step(row).status = row.status
      /\ Step(row).dispute = row.dispute /\ Step(row).optOut = row.optOut
  BY <1>1 DEF Step, Row
<1>3. Step(row) \in Row
  BY <1>1 DEF Step, Row
<1> QED
  BY <1>2, <1>3 DEF RowOK, Step

\* The fields of a row that other steps read.
Kept(a, b, changed) ==
    /\ "status" \in changed \/ a.status = b.status
    /\ "recovered" \in changed \/ a.recovered = b.recovered
    /\ "attempts" \in changed \/ a.attempts = b.attempts
    /\ "llmCalls" \in changed \/ a.llmCalls = b.llmCalls
    /\ "dispute" \in changed \/ a.dispute = b.dispute
    /\ "optOut" \in changed \/ a.optOut = b.optOut

\* A row with one field set.
LEMMA Setting ==
    ASSUME NEW row \in Row
    PROVE  /\ \A v \in Status :
                  /\ [row EXCEPT !.status = v] \in Row /\ [row EXCEPT !.status = v].status = v
                  /\ Kept([row EXCEPT !.status = v], row, {"status"})
           /\ \A v \in 0..Profile.due :
                  /\ [row EXCEPT !.recovered = v] \in Row /\ [row EXCEPT !.recovered = v].recovered = v
                  /\ Kept([row EXCEPT !.recovered = v], row, {"recovered"})
           /\ \A v \in Nat :
                  /\ [row EXCEPT !.attempts = v] \in Row /\ [row EXCEPT !.attempts = v].attempts = v
                  /\ Kept([row EXCEPT !.attempts = v], row, {"attempts"})
           /\ \A v \in Nat :
                  /\ [row EXCEPT !.llmCalls = v] \in Row /\ [row EXCEPT !.llmCalls = v].llmCalls = v
                  /\ Kept([row EXCEPT !.llmCalls = v], row, {"llmCalls"})
           /\ \A v \in BOOLEAN :
                  /\ [row EXCEPT !.dispute = v] \in Row /\ [row EXCEPT !.dispute = v].dispute = v
                  /\ Kept([row EXCEPT !.dispute = v], row, {"dispute"})
           /\ \A v \in BOOLEAN :
                  /\ [row EXCEPT !.optOut = v] \in Row /\ [row EXCEPT !.optOut = v].optOut = v
                  /\ Kept([row EXCEPT !.optOut = v], row, {"optOut"})
           /\ \A v \in Nat \cup {Never} :
                  /\ [row EXCEPT !.wake = v] \in Row
                  /\ Kept([row EXCEPT !.wake = v], row, {"wake"})
<1>1. \A v \in Status :
         /\ [row EXCEPT !.status = v] \in Row /\ [row EXCEPT !.status = v].status = v
         /\ Kept([row EXCEPT !.status = v], row, {"status"})
  BY DEF Row, Kept
<1>2. \A v \in 0..Profile.due :
         /\ [row EXCEPT !.recovered = v] \in Row /\ [row EXCEPT !.recovered = v].recovered = v
         /\ Kept([row EXCEPT !.recovered = v], row, {"recovered"})
  BY DEF Row, Kept
<1>3. \A v \in Nat :
         /\ [row EXCEPT !.attempts = v] \in Row /\ [row EXCEPT !.attempts = v].attempts = v
         /\ Kept([row EXCEPT !.attempts = v], row, {"attempts"})
  BY DEF Row, Kept
<1>4. \A v \in Nat :
         /\ [row EXCEPT !.llmCalls = v] \in Row /\ [row EXCEPT !.llmCalls = v].llmCalls = v
         /\ Kept([row EXCEPT !.llmCalls = v], row, {"llmCalls"})
  BY DEF Row, Kept
<1>5. \A v \in BOOLEAN :
         /\ [row EXCEPT !.dispute = v] \in Row /\ [row EXCEPT !.dispute = v].dispute = v
         /\ Kept([row EXCEPT !.dispute = v], row, {"dispute"})
  BY DEF Row, Kept
<1>6. \A v \in BOOLEAN :
         /\ [row EXCEPT !.optOut = v] \in Row /\ [row EXCEPT !.optOut = v].optOut = v
         /\ Kept([row EXCEPT !.optOut = v], row, {"optOut"})
  BY DEF Row, Kept
<1>7. \A v \in Nat \cup {Never} :
         /\ [row EXCEPT !.wake = v] \in Row
         /\ Kept([row EXCEPT !.wake = v], row, {"wake"})
  BY DEF Row, Kept
<1> QED
  BY <1>1, <1>2, <1>3, <1>4, <1>5, <1>6, <1>7

\* The customer has objected.
Objecting(row) == row.dispute \/ row.optOut

LEMMA DiagnoseStep ==
    ASSUME Sound, NEW h \in Handler, Diagnose(h)
    PROVE  Sound' /\ (Objecting(call[h].row) => Objecting(case'))
<1>1. call[h].op = "diagnose"
  BY DEF Diagnose
<1>2. call[h] \in Work /\ CallOK(call[h]) /\ Stage(call[h]) = "diagnose"
  BY <1>1, Working DEF Op
<1>3. PICK old : old = call[h].row
  OBVIOUS
<1>4. RowOK(old) /\ old.attempts < requests
  BY <1>2, <1>3 DEF CallOK
<1>5. PICK row : row = [Step(old) EXCEPT !.status = "diagnosed", !.llmCalls = @ + 1]
  OBVIOUS
<1>6. requests \in Nat
  BY DEF Sound
<1>7. /\ RowOK(row) /\ row.attempts = old.attempts
      /\ Objecting(old) => Objecting(row)
  <2>1. PICK a : /\ a = Step(old) /\ RowOK(a) /\ a.attempts = old.attempts
                 /\ a.dispute = old.dispute /\ a.optOut = old.optOut
    BY <1>4, <1>6, Stepping
  <2>2. a \in Row /\ a.llmCalls + 1 \in Nat
    BY <2>1 DEF RowOK, Row
  <2>3. PICK b \in Row : /\ b = [a EXCEPT !.status = "diagnosed"] /\ b.status = "diagnosed"
                         /\ Kept(b, a, {"status"})
    BY <2>2, Setting DEF Status
  <2>4. row = [b EXCEPT !.llmCalls = a.llmCalls + 1]
    BY <1>5, <2>1, <2>3
  <2>5. row \in Row /\ Kept(row, b, {"llmCalls"})
    BY <2>2, <2>4, Setting
  <2>6. /\ row.status = "diagnosed" /\ row.attempts = old.attempts
        /\ row.dispute = old.dispute /\ row.optOut = old.optOut
    BY <2>1, <2>3, <2>5 DEF Kept
  <2> QED
    BY <1>4, <2>5, <2>6 DEF RowOK, Objecting
<1>8. PICK event \in Blank : event = Event("diagnosis_completed")
  BY DEF Event, Blank, EventType, Outcome
<1>9. event.type = "diagnosis_completed"
  BY <1>8 DEF Event
<1>10. Save(h, row, NoAction, event, "strategize") /\ UNCHANGED Rest
  BY <1>3, <1>5, <1>8 DEF Diagnose
<1>11. call[h].at \in 1..Len(clocks)
  BY <1>2 DEF CallOK
<1>12. Sound'
  BY <1>2, <1>4, <1>7, <1>9, <1>10, <1>11, NothingIsAnAct, Saving
<1> QED
  BY <1>3, <1>7, <1>10, <1>12 DEF Save

LEMMA SeededPlans ==
    ASSUME NEW total \in Int, NEW lastDue \in Int
    PROVE  SeededPlan(total, lastDue) \in Plan
<1>1. (total + 3) \div 4 \in Int
  OBVIOUS
<1> QED
  BY <1>1 DEF SeededPlan, SeededUpfront, Plan

LEMMA StrategizeStep ==
    ASSUME Sound, NEW h \in Handler, NEW proposal \in Proposals, Strategize(h, proposal)
    PROVE  Sound' /\ (Objecting(call[h].row) => Objecting(case'))
<1>1. call[h].op = "strategize"
  BY DEF Strategize
<1>2. call[h] \in Work /\ CallOK(call[h]) /\ Stage(call[h]) = "strategize"
  BY <1>1, Working DEF Op
<1>3. PICK old : old = call[h].row
  OBVIOUS
<1>4. RowOK(old) /\ old.attempts < requests
  BY <1>2, <1>3 DEF CallOK
<1>5. requests \in Nat /\ requests <= MaxRequests
  BY CaseAssumption DEF Sound
<1>6. PICK a : /\ a = Step(old) /\ RowOK(a) /\ a.attempts = old.attempts
               /\ a.recovered = old.recovered
               /\ a.dispute = old.dispute /\ a.optOut = old.optOut
  BY <1>4, <1>5, Stepping
<1>7. /\ a \in Row /\ a.attempts \in Nat /\ a.recovered \in Nat
      /\ a.llmCalls + 1 \in Nat /\ a.attempts + 1 \in Nat
  BY <1>6, CaseAssumption DEF RowOK, Row
<1>8. PICK plan \in Plans(a, proposal.type) :
          Save(h, [a EXCEPT !.status = "action_proposed", !.attempts = @ + 1,
                            !.llmCalls = @ + 1],
               [id |-> a.attempts + 1, type |-> proposal.type,
                discount |-> proposal.discount, plan |-> plan],
               Event("action_proposed"), "gate")
  BY <1>3, <1>6 DEF Strategize
<1>9. PICK row : row = [a EXCEPT !.status = "action_proposed", !.attempts = @ + 1,
                                !.llmCalls = @ + 1]
  OBVIOUS
<1>10. PICK action : action = [id |-> a.attempts + 1, type |-> proposal.type,
                               discount |-> proposal.discount, plan |-> plan]
  OBVIOUS
<1>11. /\ RowOK(row)
       /\ Objecting(old) => Objecting(row)
  <2>1. PICK b \in Row : /\ b = [a EXCEPT !.status = "action_proposed"]
                         /\ b.status = "action_proposed" /\ Kept(b, a, {"status"})
    BY <1>7, Setting DEF Status
  <2>2. PICK c \in Row : /\ c = [b EXCEPT !.attempts = a.attempts + 1]
                         /\ c.attempts = a.attempts + 1 /\ Kept(c, b, {"attempts"})
    BY <1>7, Setting
  <2>3. row = [c EXCEPT !.llmCalls = a.llmCalls + 1]
    BY <1>9, <2>1, <2>2
  <2>4. row \in Row /\ Kept(row, c, {"llmCalls"})
    BY <1>7, <2>3, Setting
  <2>5. /\ row.status = "action_proposed" /\ row.attempts = old.attempts + 1
        /\ row.dispute = old.dispute /\ row.optOut = old.optOut
    BY <1>6, <2>1, <2>2, <2>4 DEF Kept
  <2>6. row.attempts <= requests
    BY <1>4, <1>5, <1>6, <1>7, <2>5
  <2> QED
    BY <2>4, <2>5, <2>6 DEF RowOK, Objecting
<1>12. action \in Act /\ Named(action)
  <2>1. proposal.type \in ActionType /\ proposal.discount \in 0..100
    BY CaseAssumption
  <2>2. a.attempts + 1 \in 1..requests /\ a.attempts + 1 \in 0..MaxRequests
    BY <1>4, <1>5, <1>6, <1>7, CaseAssumption
  <2>3. plan \in Plan
    <3>1. Profile.due - a.recovered \in Int /\ DemoStart + 28 * DayLength \in Int
      BY <1>7, CaseAssumption DEF DayLength
    <3>2. SeededPlan(Profile.due - a.recovered, DemoStart + 28 * DayLength) \in Plan
      BY <3>1, SeededPlans
    <3>3. NoPlan \in Plan
      BY DEF Plan
    <3> QED
      BY <3>2, <3>3 DEF Plans
  <2> QED
    BY <1>10, <2>1, <2>2, <2>3 DEF Act, Named
<1>13. PICK event \in Blank : event = Event("action_proposed")
  BY DEF Event, Blank, EventType, Outcome
<1>14. Save(h, row, action, event, "gate") /\ UNCHANGED Rest
  BY <1>8, <1>9, <1>10, <1>13 DEF Strategize
<1>15. call[h].at \in 1..Len(clocks)
  BY <1>2 DEF CallOK
<1>16. Sound'
  BY <1>2, <1>11, <1>12, <1>14, <1>15, Saving
<1> QED
  BY <1>3, <1>11, <1>14, <1>16 DEF Save

LEMMA GateStep ==
    ASSUME Sound, NEW h \in Handler, Gate(h)
    PROVE  Sound' /\ (Objecting(call[h].row) => Objecting(case'))
<1>1. call[h].op = "gate"
  BY DEF Gate
<1>2. call[h] \in Work /\ CallOK(call[h]) /\ Stage(call[h]) = "gate"
  BY <1>1, Working DEF Op
<1>3. PICK old : old = call[h].row
  OBVIOUS
<1>4. RowOK(old)
  BY <1>2, <1>3 DEF CallOK
<1>5. PICK a : /\ a = Step(old) /\ RowOK(a) /\ a.attempts = old.attempts
               /\ a.dispute = old.dispute /\ a.optOut = old.optOut
  BY <1>4, Stepping DEF Sound
<1>6. PICK result : result = Evaluate(call[h].action, GateInput(call[h].row), Budget,
                                      clocks[call[h].at], Policy)
  OBVIOUS
<1>7. /\ result.decision \in {"approved", "escalate", "deferred", "rejected"}
      /\ result.decision = "deferred" => result.retryAt \in Nat
  <2>1. call[h].at \in 1..Len(clocks) /\ clocks \in Seq(Nat)
    BY <1>2 DEF CallOK, Sound, ClocksTyped
  <2>2. clocks[call[h].at] \in Nat
    BY <2>1
  <2> QED
    BY <1>6, <2>2, Decisions
<1>8. PICK s : s = GatedStatus[result.decision]
  OBVIOUS
<1>9. PICK w : w = IF result.decision = "deferred" THEN result.retryAt ELSE a.wake
  OBVIOUS
<1>10. /\ s \in Status \ {"paid", "partially_paid"}
       /\ w \in Nat \cup {Never}
  BY <1>5, <1>7, <1>8, <1>9 DEF GatedStatus, Status, RowOK, Row
<1>11. PICK row : row = [a EXCEPT !.status = s, !.wake = w]
  OBVIOUS
<1>12. /\ RowOK(row)
       /\ Objecting(old) => Objecting(row)
  <2>1. PICK b \in Row : /\ b = [a EXCEPT !.status = s]
                         /\ b.status = s /\ Kept(b, a, {"status"})
    BY <1>5, <1>10, Setting DEF RowOK
  <2>2. row = [b EXCEPT !.wake = w]
    BY <1>11, <2>1
  <2>3. row \in Row /\ Kept(row, b, {"wake"})
    BY <1>10, <2>2, Setting
  <2>4. /\ row.status = s /\ row.attempts = a.attempts
        /\ row.dispute = old.dispute /\ row.optOut = old.optOut
    BY <1>5, <2>1, <2>3 DEF Kept
  <2> QED
    BY <1>5, <1>10, <2>3, <2>4 DEF RowOK, Objecting
<1>13. PICK event \in Blank :
           event = [Event("policy_evaluated") EXCEPT !.outcome = result.decision]
  BY <1>7 DEF Event, Blank, EventType, Outcome
<1>14. event.type = "policy_evaluated"
  BY <1>13 DEF Event
<1>15. PICK next \in {"execute", "done"} : next = RouteAfterGate(result.decision)
  BY DEF RouteAfterGate
<1>16. Save(h, row, call[h].action, event, next) /\ UNCHANGED Rest
  <2>1. row = [Step(call[h].row) EXCEPT
                   !.status = GatedStatus[result.decision],
                   !.wake = IF result.decision = "deferred" THEN result.retryAt ELSE @]
    BY <1>3, <1>5, <1>8, <1>9, <1>11
  <2> QED
    BY <1>6, <1>13, <1>15, <2>1 DEF Gate
<1>17. call[h].action \in Act /\ Named(call[h].action)
  BY <1>2 DEF CallOK, Work
<1>18. PICK action : action = call[h].action
  OBVIOUS
<1>19. Sound'
  BY <1>2, <1>12, <1>14, <1>16, <1>17, <1>18, Saving
<1> QED
  BY <1>3, <1>12, <1>16, <1>19 DEF Save

LEMMA SaveExecutedStep ==
    ASSUME Sound, NEW h \in Handler, SaveExecuted(h)
    PROVE  Sound' /\ (Objecting(call[h].row) => Objecting(case'))
<1>1. call[h].op \in {"executed", "replay"}
  BY DEF SaveExecuted
<1>2. /\ call[h] \in Work /\ CallOK(call[h])
      /\ Stage(call[h]) \in {"executed", "replay"}
  BY <1>1, Working DEF Op
<1>3. PICK old : old = call[h].row
  OBVIOUS
<1>4. RowOK(old)
  BY <1>2, <1>3 DEF CallOK
<1>5. PICK a : /\ a = Step(old) /\ RowOK(a) /\ a.attempts = old.attempts
               /\ a.dispute = old.dispute /\ a.optOut = old.optOut
  BY <1>4, Stepping DEF Sound
<1>6. PICK action : action = call[h].action
  OBVIOUS
<1>7. action \in Act /\ Named(action)
  BY <1>2, <1>6 DEF CallOK, Work
<1>8. PICK s : s = ExecutedStatus(action.type)
  OBVIOUS
<1>9. s \in Status \ {"paid", "partially_paid"}
  BY <1>8 DEF ExecutedStatus, Status
<1>10. PICK row : row = IF call[h].op = "replay" THEN a ELSE [a EXCEPT !.status = s]
  OBVIOUS
<1>11. /\ RowOK(row)
       /\ Objecting(old) => Objecting(row)
  <2>1. CASE row = a
    BY <1>5, <2>1 DEF Objecting
  <2>2. CASE row = [a EXCEPT !.status = s]
    <3>1. row \in Row /\ row.status = s /\ Kept(row, a, {"status"})
      BY <1>5, <1>9, <2>2, Setting DEF RowOK
    <3>2. row.attempts = a.attempts /\ row.dispute = old.dispute /\ row.optOut = old.optOut
      BY <1>5, <3>1 DEF Kept
    <3> QED
      BY <1>5, <1>9, <3>1, <3>2 DEF RowOK, Objecting
  <2> QED
    BY <1>10, <2>1, <2>2
<1>12. PICK event \in Blank :
           event = [Event("action_executed") EXCEPT !.outcome = call[h].op]
  BY <1>1 DEF Event, Blank, EventType, Outcome
<1>13. event.type = "action_executed"
  BY <1>12 DEF Event
<1>14. Save(h, row, action, event, "done") /\ UNCHANGED Rest
  BY <1>3, <1>5, <1>6, <1>8, <1>10, <1>12 DEF SaveExecuted
<1>15. Sound'
  BY <1>2, <1>7, <1>11, <1>13, <1>14, Saving
<1> QED
  BY <1>3, <1>11, <1>14, <1>15 DEF Save

LEMMA ClockIsNat ==
    ASSUME Sound
    PROVE  Clock \in Nat /\ Len(clocks) \in Nat \ {0} /\ Len(clocks) \in 1..Len(clocks)
<1>1. clocks \in Seq(Nat) /\ clocks # <<>>
  BY DEF Sound, ClocksTyped
<1>2. Len(clocks) \in Nat \ {0} /\ Len(clocks) \in 1..Len(clocks)
  BY <1>1, EmptySeq
<1>3. clocks[Len(clocks)] \in Nat
  BY <1>1, <1>2
<1> QED
  BY <1>2, <1>3 DEF Clock

\* A reply leaves the money alone and takes back no objection.
LEMMA Replies ==
    ASSUME NEW b \in Row, NEW intent \in Intent, NEW callback \in Nat
    PROVE  /\ Reply(b, intent, callback) \in Row
           /\ Reply(b, intent, callback).status \notin {"paid", "partially_paid"}
           /\ Reply(b, intent, callback).attempts = b.attempts
           /\ Objecting(b) => Objecting(Reply(b, intent, callback))
           /\ intent \in {"opt_out", "dispute"} => Objecting(Reply(b, intent, callback))
<1> DEFINE Fine(r) == /\ r \in Row /\ r.status \notin {"paid", "partially_paid"}
                      /\ r.attempts = b.attempts
                      /\ Objecting(b) => Objecting(r)
<1>1. \A s \in Status \ {"paid", "partially_paid"} :
          Fine([b EXCEPT !.status = s]) /\ Kept([b EXCEPT !.status = s], b, {"status"})
  <2> SUFFICES ASSUME NEW s \in Status \ {"paid", "partially_paid"}
      PROVE  Fine([b EXCEPT !.status = s]) /\ Kept([b EXCEPT !.status = s], b, {"status"})
    OBVIOUS
  <2>1. PICK r : r = [b EXCEPT !.status = s]
    OBVIOUS
  <2>2. r \in Row /\ r.status = s /\ Kept(r, b, {"status"})
    BY <2>1, Setting
  <2> QED
    BY <2>1, <2>2 DEF Kept, Objecting
<1>2. \A s \in Status \ {"paid", "partially_paid"}, w \in Nat \cup {Never} :
          Fine([b EXCEPT !.status = s, !.wake = w])
  <2> SUFFICES ASSUME NEW s \in Status \ {"paid", "partially_paid"},
                      NEW w \in Nat \cup {Never}
      PROVE  Fine([b EXCEPT !.status = s, !.wake = w])
    OBVIOUS
  <2>1. PICK r : r = [b EXCEPT !.status = s]
    OBVIOUS
  <2>2. r \in Row /\ r.status = s /\ Kept(r, b, {"status"})
    BY <2>1, Setting
  <2>3. PICK q : q = [r EXCEPT !.wake = w]
    OBVIOUS
  <2>4. q \in Row /\ Kept(q, r, {"wake"})
    BY <2>2, <2>3, Setting
  <2>5. q = [b EXCEPT !.status = s, !.wake = w]
    BY <2>1, <2>3
  <2>6. Fine(q)
    BY <2>2, <2>4 DEF Kept, Objecting
  <2> QED
    BY <2>5, <2>6
<1>3. /\ Fine([b EXCEPT !.status = "stopped", !.optOut = TRUE])
      /\ Objecting([b EXCEPT !.status = "stopped", !.optOut = TRUE])
  <2>1. PICK r : r = [b EXCEPT !.status = "stopped"]
    OBVIOUS
  <2>2. r \in Row /\ r.status = "stopped" /\ Kept(r, b, {"status"})
    BY <2>1, Setting DEF Status
  <2>3. PICK q : q = [r EXCEPT !.optOut = TRUE]
    OBVIOUS
  <2>4. q \in Row /\ q.optOut = TRUE /\ Kept(q, r, {"optOut"})
    BY <2>2, <2>3, Setting
  <2>5. q = [b EXCEPT !.status = "stopped", !.optOut = TRUE]
    BY <2>1, <2>3
  <2>6. Fine(q) /\ Objecting(q)
    BY <2>2, <2>4 DEF Kept, Objecting
  <2> QED
    BY <2>5, <2>6
<1>4. /\ Fine([b EXCEPT !.status = "awaiting_human", !.dispute = TRUE])
      /\ Objecting([b EXCEPT !.status = "awaiting_human", !.dispute = TRUE])
  <2>1. PICK r : r = [b EXCEPT !.status = "awaiting_human"]
    OBVIOUS
  <2>2. r \in Row /\ r.status = "awaiting_human" /\ Kept(r, b, {"status"})
    BY <2>1, Setting DEF Status
  <2>3. PICK q : q = [r EXCEPT !.dispute = TRUE]
    OBVIOUS
  <2>4. q \in Row /\ q.dispute = TRUE /\ Kept(q, r, {"dispute"})
    BY <2>2, <2>3, Setting
  <2>5. q = [b EXCEPT !.status = "awaiting_human", !.dispute = TRUE]
    BY <2>1, <2>3
  <2>6. Fine(q) /\ Objecting(q)
    BY <2>2, <2>4 DEF Kept, Objecting
  <2> QED
    BY <2>5, <2>6
<1>5. PromiseAt \in Nat \cup {Never} /\ Never \in Nat \cup {Never}
  BY CaseAssumption
<1>6. {"stopped", "awaiting_human", "awaiting_response", "detected", "ptp_recorded"}
          \subseteq Status \ {"paid", "partially_paid"}
  BY DEF Status
<1> HIDE DEF Fine
<1>7. Fine(Reply(b, intent, callback))
  <2>1. CASE intent = "opt_out"
    BY <1>3, <2>1 DEF Reply
  <2>2. CASE intent = "dispute"
    BY <1>4, <2>2 DEF Reply
  <2>3. CASE intent = "wrong_person"
    BY <1>1, <1>6, <2>3 DEF Reply
  <2>4. CASE intent = "already_paid"
    BY <1>1, <1>6, <2>4 DEF Reply
  <2>5. CASE intent = "needs_callback"
    BY <1>2, <1>6, <2>5 DEF Reply
  <2>6. CASE intent = "replan"
    BY <1>2, <1>5, <1>6, <2>6 DEF Reply
  <2>7. CASE intent = "promise"
    BY <1>2, <1>5, <1>6, <2>7 DEF Reply
  <2>8. CASE intent = "unclear"
    BY <1>1, <1>6, <2>8 DEF Reply
  <2> QED
    BY <2>1, <2>2, <2>3, <2>4, <2>5, <2>6, <2>7, <2>8 DEF Intent
<1>8. intent \in {"opt_out", "dispute"} => Objecting(Reply(b, intent, callback))
  <2>1. CASE intent = "opt_out"
    BY <1>3, <2>1 DEF Reply
  <2>2. CASE intent = "dispute"
    BY <1>4, <2>2 DEF Reply
  <2> QED
    BY <2>1, <2>2
<1> QED
  BY <1>7, <1>8 DEF Fine

LEMMA InterpretStep ==
    ASSUME Sound, NEW h \in Handler, NEW intent \in Intent,
           NEW callback \in {Clock + DayLength, PromiseAt}, InterpretReply(h, intent, callback)
    PROVE  /\ Sound' /\ (Objecting(call[h].row) => Objecting(case'))
           /\ intent \in {"opt_out", "dispute"} => Objecting(case')
<1>1. call[h].op = "interpret"
  BY DEF InterpretReply
<1>2. call[h] \in Work /\ CallOK(call[h]) /\ Stage(call[h]) = "interpret"
  BY <1>1, Working DEF Op
<1>3. PICK old : old = call[h].row
  OBVIOUS
<1>4. RowOK(old)
  BY <1>2, <1>3 DEF CallOK
<1>5. PICK a : /\ a = Step(old) /\ RowOK(a) /\ a.attempts = old.attempts
               /\ a.dispute = old.dispute /\ a.optOut = old.optOut
  BY <1>4, Stepping DEF Sound
<1>6. PICK b : b = [a EXCEPT !.llmCalls = @ + 1]
  OBVIOUS
<1>7. b \in Row /\ b.attempts = old.attempts /\ (Objecting(old) => Objecting(b))
  <2>1. a \in Row /\ a.llmCalls + 1 \in Nat
    BY <1>5 DEF RowOK, Row
  <2>2. b \in Row /\ Kept(b, a, {"llmCalls"})
    BY <1>6, <2>1, Setting
  <2> QED
    BY <1>5, <2>2 DEF Kept, Objecting
<1>8. PICK at \in Nat : at = callback
  BY ClockIsNat, CaseAssumption DEF DayLength
<1>9. PICK row : row = Reply(b, intent, at)
  OBVIOUS
<1>10. /\ RowOK(row) /\ (Objecting(old) => Objecting(row))
       /\ intent \in {"opt_out", "dispute"} => Objecting(row)
  <2>1. row.attempts <= requests
    BY <1>4, <1>7, <1>9, Replies DEF RowOK
  <2> QED
    BY <1>7, <1>9, <2>1, Replies DEF RowOK
<1>11. PICK event \in Blank : event = [Event("reply_interpreted") EXCEPT !.outcome = intent]
  BY DEF Event, Blank, EventType, Outcome
<1>12. event.type = "reply_interpreted"
  BY <1>11 DEF Event
<1>13. Save(h, row, NoAction, event, "done") /\ UNCHANGED Rest
  BY <1>3, <1>5, <1>6, <1>8, <1>9, <1>11 DEF InterpretReply
<1>14. Sound'
  BY <1>2, <1>10, <1>12, <1>13, NothingIsAnAct, Saving
<1> QED
  BY <1>3, <1>10, <1>13, <1>14 DEF Save

LEMMA ApplyPaymentStep ==
    ASSUME Sound, NEW h \in Handler, NEW amount \in 1..Profile.due, ApplyPayment(h, amount)
    PROVE  Sound' /\ (Objecting(call[h].row) => Objecting(case'))
<1>1. call[h].op = "pay"
  BY DEF ApplyPayment
<1>2. call[h] \in Work /\ CallOK(call[h]) /\ Stage(call[h]) = "pay"
  BY <1>1, Working DEF Op
<1>3. PICK old : old = call[h].row
  OBVIOUS
<1>4. RowOK(old)
  BY <1>2, <1>3 DEF CallOK
<1>5. PICK a : /\ a = Step(old) /\ RowOK(a) /\ a.attempts = old.attempts
               /\ a.recovered = old.recovered
               /\ a.dispute = old.dispute /\ a.optOut = old.optOut
  BY <1>4, Stepping DEF Sound
<1>6. PICK n : n = a.recovered + amount
  OBVIOUS
<1>7. n \in 1..Profile.due /\ a \in Row
  <2>1. amount \in 1..Profile.due - old.recovered /\ old.recovered \in Nat
    BY <1>3, <1>4, CaseAssumption DEF ApplyPayment, RowOK, Row
  <2> QED
    BY <1>5, <1>6, <2>1, CaseAssumption DEF RowOK
<1>8. PICK s : s = IF n = Profile.due THEN "paid" ELSE "partially_paid"
  OBVIOUS
<1>9. PICK row : row = [a EXCEPT !.recovered = n, !.status = s]
  OBVIOUS
<1>10. RowOK(row) /\ (Objecting(old) => Objecting(row))
  <2>1. PICK b \in Row : /\ b = [a EXCEPT !.recovered = n]
                         /\ b.recovered = n /\ Kept(b, a, {"recovered"})
    <3>1. n \in 0..Profile.due
      BY <1>7, CaseAssumption
    <3> QED
      BY <1>7, <3>1, Setting
  <2>2. row = [b EXCEPT !.status = s] /\ s \in Status
    BY <1>8, <1>9, <2>1 DEF Status
  <2>3. row \in Row /\ row.status = s /\ Kept(row, b, {"status"})
    BY <2>2, Setting
  <2>4. /\ row.recovered = n /\ row.attempts = a.attempts
        /\ row.dispute = old.dispute /\ row.optOut = old.optOut
    BY <1>5, <2>1, <2>3 DEF Kept
  <2>5. n # Profile.due => n \in 1..Profile.due - 1
    BY <1>7, CaseAssumption
  <2> QED
    BY <1>5, <1>8, <2>3, <2>4, <2>5 DEF RowOK, Objecting
<1>11. PICK event \in Blank : event = [Event("payment_captured") EXCEPT !.amount = amount]
  <2>1. amount \in Nat
    OBVIOUS
  <2> QED
    BY <2>1 DEF Event, Blank, EventType, Outcome
<1>12. event.type = "payment_captured"
  BY <1>11 DEF Event
<1>13. Save(h, row, NoAction, event, "done") /\ UNCHANGED Rest
  BY <1>3, <1>5, <1>6, <1>8, <1>9, <1>11 DEF ApplyPayment
<1>14. Sound'
  BY <1>2, <1>10, <1>12, <1>13, NothingIsAnAct, Saving
<1> QED
  BY <1>3, <1>10, <1>13, <1>14 DEF Save

LEMMA DecideStep ==
    ASSUME Sound, NEW h \in Handler, NEW approve \in BOOLEAN, Decide(h, approve)
    PROVE  Sound' /\ (Objecting(call[h].row) => Objecting(case'))
<1>1. call[h].op = "decide"
  BY DEF Decide
<1>2. call[h] \in Work /\ CallOK(call[h]) /\ Stage(call[h]) = "decide"
  BY <1>1, Working DEF Op
<1>3. PICK old : old = call[h].row
  OBVIOUS
<1>4. RowOK(old)
  BY <1>2, <1>3 DEF CallOK
<1>5. PICK a : /\ a = Step(old) /\ RowOK(a) /\ a.attempts = old.attempts
               /\ a.dispute = old.dispute /\ a.optOut = old.optOut
  BY <1>4, Stepping DEF Sound
<1>6. PICK action : action = call[h].action
  OBVIOUS
<1>7. action \in Act /\ Named(action)
  BY <1>2, <1>6 DEF CallOK, Work
<1>8. PICK s : s = IF approve THEN "action_gated" ELSE "stopped"
  OBVIOUS
<1>9. PICK row : row = [a EXCEPT !.status = s]
  OBVIOUS
<1>10. RowOK(row) /\ (Objecting(old) => Objecting(row))
  <2>1. s \in Status \ {"paid", "partially_paid"}
    BY <1>8 DEF Status
  <2>2. row \in Row /\ row.status = s /\ Kept(row, a, {"status"})
    BY <1>5, <1>9, <2>1, Setting DEF RowOK
  <2>3. row.attempts = a.attempts /\ row.dispute = old.dispute /\ row.optOut = old.optOut
    BY <1>5, <2>2 DEF Kept
  <2> QED
    BY <1>5, <2>1, <2>2, <2>3 DEF RowOK, Objecting
<1>11. PICK event \in Blank :
           event = [Event("human_review_decided") EXCEPT
                       !.outcome = IF approve THEN "approved" ELSE "denied"]
  BY DEF Event, Blank, EventType, Outcome
<1>12. event.type = "human_review_decided"
  BY <1>11 DEF Event
<1>13. PICK next \in {"execute", "done"} : next = IF approve THEN "execute" ELSE "done"
  OBVIOUS
<1>14. Save(h, row, action, event, next) /\ UNCHANGED Rest
  BY <1>3, <1>5, <1>6, <1>8, <1>9, <1>11, <1>13 DEF Decide
<1>15. Sound'
  BY <1>2, <1>7, <1>10, <1>12, <1>14, Saving
<1> QED
  BY <1>3, <1>10, <1>14, <1>15 DEF Save

LEMMA WakeCaseStep ==
    ASSUME Sound, NEW h \in Handler, WakeCase(h)
    PROVE  Sound' /\ (Objecting(call[h].row) => Objecting(case'))
<1>1. call[h].op = "wake"
  BY DEF WakeCase
<1>2. call[h] \in Work /\ CallOK(call[h]) /\ Stage(call[h]) = "wake"
  BY <1>1, Working DEF Op
<1>3. PICK old : old = call[h].row
  OBVIOUS
<1>4. RowOK(old)
  BY <1>2, <1>3 DEF CallOK
<1>5. PICK a : /\ a = Step(old) /\ RowOK(a) /\ a.attempts = old.attempts
               /\ a.dispute = old.dispute /\ a.optOut = old.optOut
  BY <1>4, Stepping DEF Sound
<1>6. PICK row : row = [a EXCEPT !.status = "detected", !.wake = Never]
  OBVIOUS
<1>7. RowOK(row) /\ (Objecting(old) => Objecting(row))
  <2>1. PICK b \in Row : /\ b = [a EXCEPT !.status = "detected"]
                         /\ b.status = "detected" /\ Kept(b, a, {"status"})
    BY <1>5, Setting DEF RowOK, Status
  <2>2. row = [b EXCEPT !.wake = Never]
    BY <1>6, <2>1
  <2>3. row \in Row /\ Kept(row, b, {"wake"})
    BY <2>2, Setting
  <2>4. /\ row.status = "detected" /\ row.attempts = a.attempts
        /\ row.dispute = old.dispute /\ row.optOut = old.optOut
    BY <1>5, <2>1, <2>3 DEF Kept
  <2> QED
    BY <1>5, <2>3, <2>4 DEF RowOK, Objecting
<1>8. PICK event \in Blank :
          event = [Event("woken") EXCEPT !.outcome =
                      IF a.status = "ptp_recorded" THEN "promise_missed"
                      ELSE "scheduled_followup_due"]
  <2>1. PICK outcome \in Outcome :
            outcome = IF a.status = "ptp_recorded" THEN "promise_missed"
                      ELSE "scheduled_followup_due"
    BY DEF Outcome
  <2>2. [Event("woken") EXCEPT !.outcome = outcome] \in Blank
    BY DEF Event, Blank, EventType
  <2> QED
    BY <2>1, <2>2
<1>9. event.type = "woken"
  BY <1>8 DEF Event
<1>10. Save(h, row, NoAction, event, "done") /\ UNCHANGED Rest
  BY <1>3, <1>5, <1>6, <1>8 DEF WakeCase
<1>11. Sound'
  BY <1>2, <1>7, <1>9, <1>10, NothingIsAnAct, Saving
<1> QED
  BY <1>3, <1>7, <1>10, <1>11 DEF Save

LEMMA SeedRowOK ==
    ASSUME requests \in Nat
    PROVE  RowOK(SeedRow) /\ SeedRow # NoCase
<1>1. SeedRow \in Row
  BY CaseAssumption DEF SeedRow, Row, Status
<1>2. SeedRow.status = "detected" /\ SeedRow.attempts = 0
  BY DEF SeedRow
<1>3. SeedRow # NoCase
  BY <1>1, NothingIsAnAct
<1> HIDE DEF SeedRow
<1> QED
  BY <1>1, <1>2, <1>3 DEF RowOK

LEMMA SeedCaseStep ==
    ASSUME Sound, NEW h \in Handler, SeedCase(h)
    PROVE  Sound'
<1>1. call[h].op = "seed_case"
  BY DEF SeedCase
<1>2. call[h] \in Work
  BY <1>1, Working DEF Op
<1>3. PICK event \in Blank : event = Event("case_detected")
  BY DEF Event, Blank, EventType, Outcome
<1>4. event.type = "case_detected"
  BY <1>3 DEF Event
<1>5. Save(h, SeedRow, NoAction, event, "done") /\ UNCHANGED Rest
  BY <1>3 DEF SeedCase
<1>6. RowOK(SeedRow)
  BY SeedRowOK DEF Sound
<1> QED
  BY <1>2, <1>4, <1>5, <1>6, NothingIsAnAct, Saving

-----------------------------------------------------------------------------
\* The steps that begin a request.
LEMMA StartStep ==
    ASSUME Sound, NEW h \in Handler,
           StartRun(h) \/ StartReply(h) \/ StartPayment(h) \/ StartReview(h)
    PROVE  Sound'
<1>1. UNCHANGED <<clocks, case, others, trail, ledger, epoch>> /\ case # NoCase
  BY DEF StartRun, StartReply, StartPayment, StartReview
<1>2. ClocksTyped' /\ Len(clocks) <= Len(clocks')
  <2>1. Len(clocks) \in Nat
    BY ClockIsNat
  <2> QED
    BY <1>1, <2>1 DEF Sound, ClocksTyped
<1>3. CASE StartRun(h)
  <2>1. PICK at \in Nat : at = Len(clocks) /\ at \in 1..Len(clocks')
    BY <1>1, ClockIsNat
  <2>2. Begin(h, "diagnose", at)
    BY <1>3, <2>1 DEF StartRun
  <2> QED
    BY <1>1, <1>2, <2>1, <2>2, Beginning DEF Op
<1>4. CASE StartReply(h) \/ StartPayment(h) \/ StartReview(h)
  <2>1. PICK op \in {"interpret", "pay", "review"} : Begin(h, op, 0)
    BY <1>4 DEF StartReply, StartPayment, StartReview
  <2> QED
    BY <1>1, <1>2, <2>1, Beginning DEF Op
<1> QED
  BY <1>3, <1>4

LEMMA AdvanceStep ==
    ASSUME Sound, NEW h \in Handler, NEW hours \in Hours, AdvanceTime(h, hours)
    PROVE  Sound'
<1>1. PICK at \in Nat : at = Clock + hours
  BY ClockIsNat, CaseAssumption
<1>2. clocks' = [clocks EXCEPT ![Len(clocks)] = at]
  BY <1>1 DEF AdvanceTime, SetClock
<1>3. clocks' \in Seq(Nat) /\ Len(clocks') = Len(clocks)
  BY <1>2, ClockIsNat, ExceptSeq DEF Sound, ClocksTyped
<1>4. ClocksTyped' /\ Len(clocks) <= Len(clocks')
  <2>1. clocks' # <<>>
    BY <1>3, ClockIsNat
  <2> QED
    BY <1>3, <2>1, ClockIsNat DEF ClocksTyped
<1>5. Begin(h, "list", at) /\ UNCHANGED <<case, others, trail, ledger, epoch>>
  BY <1>1 DEF AdvanceTime
<1> QED
  BY <1>4, <1>5, Beginning DEF Op

LEMMA StartResetStep ==
    ASSUME Sound, NEW h \in Handler, StartReset(h)
    PROVE  Sound'
<1>1. clocks \in Seq(Nat) /\ DemoStart \in Nat
  BY CaseAssumption DEF Sound, ClocksTyped
<1>2. clocks' = Append(clocks, DemoStart)
  BY DEF StartReset
<1>3. clocks' \in Seq(Nat) /\ Len(clocks') = Len(clocks) + 1
  BY <1>1, <1>2, AppendProperties
<1>4. ClocksTyped' /\ Len(clocks) <= Len(clocks')
  <2>1. clocks' # <<>>
    BY <1>3, ClockIsNat
  <2> QED
    BY <1>3, <2>1, ClockIsNat DEF ClocksTyped
<1>5. Begin(h, "delete", 0) /\ UNCHANGED <<case, others, trail, ledger, epoch>>
  BY DEF StartReset
<1> QED
  BY <1>4, <1>5, Beginning DEF Op

-----------------------------------------------------------------------------
\* The steps of a thread that save no row.
LEMMA Unchanging ==
    ASSUME Sound, UNCHANGED <<clocks, requests, epoch>>
    PROVE  Grows
<1>1. Len(clocks) \in Nat /\ requests \in Nat
  BY ClockIsNat DEF Sound
<1> QED
  BY <1>1, CaseAssumption DEF Grows, Sound, ClocksTyped

LEMMA ReturnStep ==
    ASSUME Sound, NEW h \in Handler, Return(h), LedgerTyped',
           UNCHANGED <<clocks, case, others, trail, epoch, requests>>
    PROVE  Sound'
<1>1. Grows
  BY Unchanging
<1>2. CaseTyped' /\ TrailTyped' /\ others' \in BOOLEAN
  BY <1>1, CaseKept, TrailKept DEF Sound
<1> QED
  BY <1>1, <1>2, OneGoesOn DEF Return

\* A thread that goes on with what it knows, to a step that asks for no more.
LEMMA ContinueStep ==
    ASSUME Sound, NEW h \in Handler, NEW op \in Op, call[h].op \in Op, Continue(h, op),
           LedgerTyped', UNCHANGED <<clocks, case, others, trail, epoch, requests>>,
           \/ call[h].op = "execute" /\ op \in {"mark", "replay"}
           \/ call[h].op = "mark" /\ op = "executed"
           \/ call[h].op = "seed" /\ op = "seed_case"
    PROVE  Sound'
<1>1. Grows
  BY Unchanging
<1>2. /\ call[h] \in Work /\ CallOK(call[h]) /\ Stage(call[h]) = call[h].op
  BY Working
<1>3. PICK d : d = call[h]
  OBVIOUS
<1>4. PICK c : c = [d EXCEPT !.op = op]
  OBVIOUS
<1>5. /\ c \in Work /\ c.op = op /\ c.row = d.row /\ c.action = d.action /\ c.at = d.at
      /\ c.epoch = d.epoch
  BY <1>2, <1>3, <1>4 DEF Work
<1>6. Stage(c) = op /\ c.op # "append"
  BY <1>5 DEF Stage, Op
<1>7. CallOK(c)
  BY <1>2, <1>3, <1>5, <1>6 DEF CallOK
<1>8. CallOK(c)'
  BY <1>1, <1>7, CallsKept
<1>9. call' = [call EXCEPT ![h] = c]
  BY <1>3, <1>4 DEF Continue
<1>10. CaseTyped' /\ TrailTyped' /\ others' \in BOOLEAN
  BY <1>1, CaseKept, TrailKept DEF Sound
<1> QED
  BY <1>1, <1>8, <1>9, <1>10, OneGoesOn

LEMMA RegisterStep ==
    ASSUME Sound, NEW h \in Handler, Register(h)
    PROVE  Sound'
<1>1. call[h].op = "execute"
  BY DEF Register
<1>2. call[h] \in Work /\ CallOK(call[h]) /\ Stage(call[h]) = "execute"
  BY <1>1, Working DEF Op
<1>3. Named(call[h].action)
  BY <1>2 DEF CallOK
<1>4. LedgerTyped'
  BY <1>3 DEF Register, Sound, LedgerTyped, Named
<1>5. UNCHANGED <<clocks, case, others, trail, epoch, requests>>
  BY DEF Register
<1>6. Return(h) \/ Continue(h, "replay") \/ Continue(h, "mark")
  BY DEF Register
<1> QED
  BY <1>1, <1>4, <1>5, <1>6, ReturnStep, ContinueStep DEF Op

LEMMA MarkResultStep ==
    ASSUME Sound, NEW h \in Handler, MarkResult(h)
    PROVE  Sound'
<1>1. call[h].op = "mark"
  BY DEF MarkResult
<1>2. PICK id : id = call[h].action.id
  OBVIOUS
<1>3. id \in ActionId
  <2>1. CallOK(call[h]) /\ Stage(call[h]) = "mark"
    BY <1>1, Working DEF Op
  <2> QED
    BY <1>2, <2>1, CaseAssumption DEF CallOK, Named, Sound, ActionId
<1>4. LedgerTyped'
  <2>1. CASE ledger[id] = NoEntry
    BY <1>2, <2>1 DEF MarkResult, Sound, LedgerTyped
  <2>2. CASE ledger[id] # NoEntry
    <3>1. ledger' = [ledger EXCEPT ![id].status = "succeeded"]
      BY <1>2, <2>2 DEF MarkResult
    <3>2. PICK entry \in [type : ActionType, status : {"pending", "succeeded"}] :
              entry = ledger[id]
      BY <1>3, <2>2 DEF Sound, LedgerTyped
    <3>3. ledger' = [ledger EXCEPT ![id] = [entry EXCEPT !.status = "succeeded"]]
      BY <3>1, <3>2
    <3>4. [entry EXCEPT !.status = "succeeded"]
              \in [type : ActionType, status : {"pending", "succeeded"}]
      OBVIOUS
    <3> QED
      BY <3>3, <3>4 DEF Sound, LedgerTyped
  <2> QED
    BY <2>1, <2>2
<1>5. UNCHANGED <<clocks, case, others, trail, epoch, requests>>
  BY DEF MarkResult
<1>6. Return(h) \/ Continue(h, "executed")
  BY DEF MarkResult
<1> QED
  BY <1>1, <1>4, <1>5, <1>6, ReturnStep, ContinueStep DEF Op

LEMMA AgentFailsStep ==
    ASSUME Sound, NEW h \in Handler, AgentFails(h)
    PROVE  Sound'
<1>1. LedgerTyped'
  BY DEF AgentFails, Sound, LedgerTyped
<1> QED
  BY <1>1, ReturnStep DEF AgentFails

\* The last proposal of a trail that has one is a proposal.
LEMMA LastIsProposed ==
    ASSUME Sound, Proposed # {}
    PROVE  LastProposal \in Proposed
BY DEF LastProposal, Sound, TrailTyped

LEMMA ReadProposalStep ==
    ASSUME Sound, NEW h \in Handler, ReadProposal(h)
    PROVE  Sound'
<1>1. call[h].op = "review"
  BY DEF ReadProposal
<1>2. call[h] \in Work /\ CallOK(call[h]) /\ Stage(call[h]) = "review"
  BY <1>1, Working DEF Op
<1>3. Grows
  BY Unchanging DEF ReadProposal
<1>4. LedgerTyped' /\ CaseTyped' /\ TrailTyped' /\ others' \in BOOLEAN
  BY <1>3, CaseKept, TrailKept DEF ReadProposal, Sound, LedgerTyped
<1>5. CASE Proposed = {}
  <2>1. Return(h)
    BY <1>5 DEF ReadProposal, Return
  <2> QED
    BY <1>4, <2>1, ReturnStep DEF ReadProposal
<1>6. CASE Proposed # {}
  <2>1. PICK action : action = trail[LastProposal].action
    OBVIOUS
  <2>2. action \in Act /\ Named(action)
    <3>1. LastProposal \in Proposed /\ Named(trail[LastProposal].action)
      BY <1>6, LastIsProposed DEF Sound, TrailTyped
    <3>2. trail \in Seq(Entry) /\ LastProposal \in 1..Len(trail)
      BY <3>1 DEF Sound, TrailTyped, Proposed
    <3>3. trail[LastProposal] \in Entry
      BY <3>2
    <3> QED
      BY <2>1, <3>1, <3>3 DEF Entry
  <2>3. PICK d : d = call[h]
    OBVIOUS
  <2>4. PICK c : c = [d EXCEPT !.op = "decide", !.action = action]
    OBVIOUS
  <2>5. /\ c \in Work /\ c.op = "decide" /\ c.row = d.row /\ c.action = action
        /\ c.epoch = d.epoch
    <3>1. d = [op |-> d.op, row |-> d.row, action |-> d.action, at |-> d.at, epoch |-> d.epoch]
      BY <1>2, <2>3 DEF Work
    <3>2. c = [op |-> "decide", row |-> d.row, action |-> action, at |-> d.at, epoch |-> d.epoch]
      BY <2>4, <3>1
    <3>3. d.row \in Row \cup {NoCase} /\ d.at \in Nat /\ d.epoch \in Nat
      BY <1>2, <2>3 DEF Work
    <3> QED
      BY <2>2, <3>2, <3>3 DEF Work, Op
  <2>6. Stage(c) = "decide" /\ c.op # "append"
    BY <2>5 DEF Stage
  <2>7. CallOK(c)
    BY <1>2, <2>2, <2>3, <2>5, <2>6 DEF CallOK
  <2>8. CallOK(c)'
    BY <1>3, <2>7, CallsKept
  <2>9. call' = [call EXCEPT ![h] = c]
    BY <1>6, <2>1, <2>3, <2>4 DEF ReadProposal
  <2> QED
    BY <1>3, <1>4, <2>8, <2>9, OneGoesOn
<1> QED
  BY <1>5, <1>6

LEMMA ListCasesStep ==
    ASSUME Sound, NEW h \in Handler, ListCases(h)
    PROVE  Sound'
<1>1. call[h].op = "list"
  BY DEF ListCases
<1>2. call[h] \in Work /\ CallOK(call[h]) /\ Stage(call[h]) = "list"
  BY <1>1, Working DEF Op
<1>3. Grows
  BY Unchanging DEF ListCases
<1>4. LedgerTyped' /\ CaseTyped' /\ TrailTyped' /\ others' \in BOOLEAN
  BY <1>3, CaseKept, TrailKept DEF ListCases, Sound, LedgerTyped
<1>5. CASE ~IsDue(case, call[h].at)
  <2>1. Return(h)
    BY <1>5 DEF ListCases, Return
  <2> QED
    BY <1>4, <2>1, ReturnStep DEF ListCases
<1>6. CASE IsDue(case, call[h].at)
  <2>1. PICK row : row = case
    OBVIOUS
  <2>2. RowOK(row)
    BY <1>6, <2>1 DEF IsDue, Sound, CaseTyped
  <2>3. PICK d : d = call[h]
    OBVIOUS
  <2>4. PICK c : c = [d EXCEPT !.op = "wake", !.row = row]
    OBVIOUS
  <2>5. c \in Work /\ c.op = "wake" /\ c.row = row /\ c.epoch = d.epoch
    <3>1. d = [op |-> d.op, row |-> d.row, action |-> d.action, at |-> d.at, epoch |-> d.epoch]
      BY <1>2, <2>3 DEF Work
    <3>2. c = [op |-> "wake", row |-> row, action |-> d.action, at |-> d.at, epoch |-> d.epoch]
      BY <2>4, <3>1
    <3>3. d.action \in Act /\ d.at \in Nat /\ d.epoch \in Nat /\ row \in Row
      BY <1>2, <2>2, <2>3 DEF Work, RowOK
    <3> QED
      BY <3>2, <3>3 DEF Work, Op
  <2>6. Stage(c) = "wake" /\ c.op # "append"
    BY <2>5 DEF Stage
  <2>7. CallOK(c)
    BY <1>2, <2>2, <2>3, <2>5, <2>6 DEF CallOK
  <2>8. CallOK(c)'
    BY <1>3, <2>7, CallsKept
  <2>9. call' = [call EXCEPT ![h] = c]
    BY <1>6, <2>1, <2>3, <2>4 DEF ListCases
  <2> QED
    BY <1>3, <1>4, <2>8, <2>9, OneGoesOn
<1> QED
  BY <1>5, <1>6

LEMMA SeedPortfolioStep ==
    ASSUME Sound, NEW h \in Handler, SeedPortfolio(h)
    PROVE  Sound'
<1>1. call[h].op = "seed" /\ (Return(h) \/ Continue(h, "seed_case"))
  BY DEF SeedPortfolio
<1>2. LedgerTyped'
  BY DEF SeedPortfolio, Sound, LedgerTyped
<1> QED
  BY <1>1, <1>2, ReturnStep, ContinueStep DEF SeedPortfolio, Op

LEMMA DeleteAllStep ==
    ASSUME Sound, NEW h \in Handler, DeleteAll(h)
    PROVE  Sound'
<1>1. call[h].op = "delete"
  BY DEF DeleteAll
<1>2. call[h] \in Work /\ CallOK(call[h])
  BY <1>1, Working DEF Op
<1>3. epoch \in Nat /\ epoch' = epoch + 1 /\ requests \in Nat
  BY DEF DeleteAll, Sound
<1>4. Grows
  <2>1. Len(clocks) \in Nat
    BY ClockIsNat
  <2> QED
    BY <1>3, <2>1, CaseAssumption DEF DeleteAll, Grows, Sound, ClocksTyped
<1>5. CaseTyped' /\ others' \in BOOLEAN
  BY DEF DeleteAll, CaseTyped
<1>6. TrailTyped'
  <2>1. trail' = <<>>
    BY DEF DeleteAll
  <2>2. trail' \in Seq(Entry) /\ Len(trail') = 0
    BY <2>1
  <2>3. Proposed' = {}
    BY <2>2 DEF Proposed
  <2> QED
    BY <2>2, <2>3 DEF TrailTyped
<1>7. LedgerTyped'
  BY DEF DeleteAll, LedgerTyped
<1>8. PICK d : d = call[h]
  OBVIOUS
<1>9. PICK c : c = [d EXCEPT !.op = "seed", !.row = NoCase, !.epoch = epoch + 1]
  OBVIOUS
<1>10. c \in Work /\ c.op = "seed" /\ c.epoch = epoch + 1
  <2>1. d = [op |-> d.op, row |-> d.row, action |-> d.action, at |-> d.at, epoch |-> d.epoch]
    BY <1>2, <1>8 DEF Work
  <2>2. c = [op |-> "seed", row |-> NoCase, action |-> d.action, at |-> d.at, epoch |-> epoch + 1]
    BY <1>9, <2>1
  <2>3. d.action \in Act /\ d.at \in Nat
    BY <1>2, <1>8 DEF Work
  <2> QED
    BY <1>3, <2>2, <2>3 DEF Work, Op
<1>11. CallOK(c)'
  <2>1. Stage(c) = "seed" /\ c.op # "append"
    BY <1>10 DEF Stage
  <2> QED
    BY <1>3, <1>10, <2>1 DEF CallOK
<1>12. call' = [call EXCEPT ![h] = c]
  BY <1>8, <1>9 DEF DeleteAll
<1> QED
  BY <1>4, <1>5, <1>6, <1>7, <1>11, <1>12, OneGoesOn

-----------------------------------------------------------------------------
\* The trail grows at its end.
LEMMA Appended ==
    ASSUME Sound, NEW e \in Entry, trail' = Append(trail, e)
    PROVE  /\ trail' \in Seq(Entry) /\ Len(trail) \in Nat /\ Len(trail') = Len(trail) + 1
           /\ \A i \in 1..Len(trail) : i \in 1..Len(trail') /\ trail'[i] = trail[i]
           /\ Len(trail) + 1 \in 1..Len(trail') /\ trail'[Len(trail) + 1] = e
           /\ \A i \in 1..Len(trail') : i \in 1..Len(trail) \/ i = Len(trail) + 1
<1>1. trail \in Seq(Entry)
  BY DEF Sound, TrailTyped
<1> QED
  BY <1>1, AppendProperties

LEMMA AppendedTyped ==
    ASSUME Sound, Grows, NEW e \in Entry, trail' = Append(trail, e), e.epoch <= epoch',
           e.type = "action_proposed" => Named(e.action)
    PROVE  TrailTyped'
<1>1. Proposed' = IF e.type = "action_proposed" THEN Proposed \cup {Len(trail) + 1}
                  ELSE Proposed
  BY Appended DEF Proposed
<1>2. \A i \in 1..Len(trail') : trail'[i].epoch <= epoch'
  <2>1. trail \in Seq(Entry)
    BY DEF Sound, TrailTyped
  <2>2. \A i \in 1..Len(trail) : trail[i] \in Entry
    BY <2>1
  <2>3. \A i \in 1..Len(trail) : trail[i].epoch \in Nat
    BY <2>2 DEF Entry
  <2>4. \A i \in 1..Len(trail) : trail[i].epoch <= epoch'
    BY <2>3 DEF Sound, TrailTyped, Grows
  <2> QED
    BY <2>4, Appended
<1>3. \A i \in Proposed' : Named(trail[i].action)'
  <2> SUFFICES ASSUME NEW i \in Proposed' PROVE Named(trail[i].action)'
    OBVIOUS
  <2>1. PICK a : a = trail'[i].action
    OBVIOUS
  <2>2. Named(a)
    BY <1>1, <2>1, Appended DEF Sound, TrailTyped, Proposed
  <2>3. Named(a)'
    BY <2>2, NamesKept
  <2> QED
    BY <2>1, <2>3 DEF Named
<1>4. Proposed' # {} => \E i \in Proposed' : \A j \in Proposed' : j <= i
  <2>1. CASE e.type = "action_proposed"
    <3>1. \A j \in Proposed : j \in 1..Len(trail)
      BY DEF Proposed
    <3>2. \A j \in Proposed' : j <= Len(trail) + 1
      BY <1>1, <2>1, <3>1, Appended
    <3> QED
      BY <1>1, <2>1, <3>2
  <2>2. CASE e.type # "action_proposed"
    BY <1>1, <2>2 DEF Sound, TrailTyped
  <2> QED
    BY <2>1, <2>2
<1> QED
  BY <1>2, <1>3, <1>4, Appended DEF TrailTyped

\* What a thread that appends knows, and what it goes on to.
LEMMA AppendingThread ==
    ASSUME Sound, NEW h \in Handler, call[h].op = "append"
    PROVE  /\ call[h] \in Saved /\ CallOK(call[h]) /\ Stage(call[h]) = call[h].next
           /\ call[h].event \in Entry /\ call[h].event.epoch = call[h].epoch
           /\ call[h].event.action = call[h].action
<1>1. call[h] # Idle /\ call[h] \notin Work
  BY DEF Idle, Work, Op
<1> QED
  BY <1>1 DEF Sound, CallsTyped, CallOK, Saved, Stage

LEMMA AppendEventStep ==
    ASSUME Sound, NEW h \in Handler, AppendEvent(h)
    PROVE  Sound'
<1>1. call[h].op = "append"
  BY DEF AppendEvent
<1>2. PICK e \in Entry : e = call[h].event
  BY <1>1, AppendingThread
<1>3. trail' = Append(trail, e) /\ UNCHANGED <<clocks, case, others, ledger, epoch, requests>>
  BY <1>2 DEF AppendEvent
<1>4. Grows
  BY <1>3, Unchanging
<1>5. TrailTyped'
  <2>1. e.epoch <= epoch' /\ (e.type = "action_proposed" => Named(e.action))
    BY <1>1, <1>2, <1>3, AppendingThread DEF CallOK
  <2> QED
    BY <1>3, <1>4, <2>1, AppendedTyped
<1>6. LedgerTyped' /\ CaseTyped' /\ others' \in BOOLEAN
  BY <1>3, <1>4, CaseKept DEF Sound, LedgerTyped
<1>7. PICK d : d = call[h]
  OBVIOUS
<1>8. CASE d.next = "done"
  <2>1. PICK c : c = Idle
    OBVIOUS
  <2>2. call' = [call EXCEPT ![h] = c]
    BY <1>7, <1>8, <2>1 DEF AppendEvent
  <2> QED
    BY <1>4, <1>5, <1>6, <2>1, <2>2, OneGoesOn
<1>9. CASE d.next # "done"
  <2>1. PICK c : c = [op |-> d.next, row |-> d.row, action |-> d.action, at |-> d.at,
                      epoch |-> d.epoch]
    OBVIOUS
  <2>2. /\ d \in Saved /\ CallOK(d) /\ Stage(d) = d.next
    BY <1>1, <1>7, AppendingThread
  <2>3. c \in Work /\ c.op = d.next
    BY <1>9, <2>1, <2>2 DEF Saved, Work, Op
  <2>4. Stage(c) = d.next /\ c.op # "append"
    BY <2>2, <2>3 DEF Stage, Saved
  <2>5. CallOK(c)
    BY <2>1, <2>2, <2>3, <2>4 DEF CallOK
  <2>6. CallOK(c)'
    BY <1>4, <2>5, CallsKept
  <2>7. call' = [call EXCEPT ![h] = c]
    BY <1>7, <1>9, <2>1 DEF AppendEvent
  <2> QED
    BY <1>4, <1>5, <1>6, <2>6, <2>7, OneGoesOn
<1> QED
  BY <1>8, <1>9

LEMMA SaveOtherStep ==
    ASSUME Sound, SaveOther
    PROVE  Sound'
<1>1. UNCHANGED <<clocks, case, trail, ledger, epoch, requests, call>> /\ others' = TRUE
  BY DEF SaveOther
<1>2. Grows
  BY <1>1, Unchanging
<1>3. CaseTyped' /\ TrailTyped'
  BY <1>1, <1>2, CaseKept, TrailKept
<1>4. CallsTyped'
  BY <1>1 DEF Sound, CallsTyped, CallOK, RowOK, Named
<1> QED
  BY <1>1, <1>3, <1>4 DEF Sound, ClocksTyped, LedgerTyped

\* The first clock, and the event of a seeded case.
LEMMA Beginnings ==
    /\ <<DemoStart>> \in Seq(Nat) /\ <<DemoStart>> # <<>>
    /\ \A n \in Nat : [Event("case_detected") EXCEPT !.to = SeedRow.status, !.epoch = n] \in Entry
    /\ [Event("case_detected") EXCEPT !.to = SeedRow.status] \in Entry
<1>1. <<DemoStart>> \in Seq(Nat) /\ <<DemoStart>> # <<>>
  BY CaseAssumption
<1>2. \A n \in Nat : [Event("case_detected") EXCEPT !.to = SeedRow.status, !.epoch = n] \in Entry
  BY NothingIsAnAct DEF Event, Entry, EventType, Status, Outcome, SeedRow
<1>3. [Event("case_detected") EXCEPT !.to = SeedRow.status] \in Entry
  BY NothingIsAnAct DEF Event, Entry, EventType, Status, Outcome, SeedRow
<1> QED
  BY <1>1, <1>2, <1>3

LEMMA CrashStep ==
    ASSUME Sound, NEW logged \in BOOLEAN, Crash(logged)
    PROVE  Sound'
<1>1. UNCHANGED <<ledger, epoch, requests>> /\ others' = TRUE /\ clocks' = <<DemoStart>>
  BY DEF Crash
<1>2. ClocksTyped' /\ LedgerTyped'
  BY <1>1, Beginnings DEF ClocksTyped, Sound, LedgerTyped
<1>3. CallsTyped'
  <2>1. call' = [h \in Handler |-> Idle]
    BY DEF Crash
  <2> QED
    BY <2>1 DEF CallsTyped
<1>4. CaseTyped'
  <2>1. CASE case' = case
    BY <1>1, <2>1 DEF Sound, CaseTyped, RowOK
  <2>2. CASE case' = SeedRow
    BY <1>1, <2>2, SeedRowOK DEF Sound, CaseTyped, RowOK
  <2> QED
    BY <2>1, <2>2 DEF Crash
<1>5. TrailTyped'
  <2>1. CASE trail' = trail
    BY <1>1, <2>1 DEF Sound, TrailTyped, Proposed, Named
  <2>2. CASE trail' # trail
    <3>1. PICK e \in Entry :
              e = [Event("case_detected") EXCEPT !.to = SeedRow.status, !.epoch = epoch]
      BY Beginnings DEF Sound
    <3>2. e.type = "case_detected" /\ e.epoch = epoch
      BY <3>1 DEF Event
    <3>3. trail' = Append(trail, e)
      BY <2>2, <3>1 DEF Crash
    <3>4. Proposed' = Proposed
      BY <3>2, <3>3, Appended DEF Proposed
    <3>5. \A i \in Proposed : i \in 1..Len(trail) /\ trail'[i] = trail[i]
      BY <3>3, Appended DEF Proposed
    <3>6. \A i \in 1..Len(trail') : trail'[i].epoch <= epoch'
      BY <1>1, <3>2, <3>3, Appended DEF Sound, TrailTyped
    <3>7. \A i \in Proposed' : Named(trail[i].action)'
      BY <1>1, <3>4, <3>5 DEF Sound, TrailTyped, Named
    <3> QED
      BY <3>3, <3>4, <3>6, <3>7, Appended DEF Sound, TrailTyped
  <2> QED
    BY <2>1, <2>2
<1> QED
  BY <1>1, <1>2, <1>3, <1>4, <1>5 DEF Sound

LEMMA InitSound ==
    ASSUME Init
    PROVE  Sound
<1>1. epoch \in Nat /\ requests \in 0..MaxRequests /\ others \in BOOLEAN
  BY CaseAssumption DEF Init
<1>2. ClocksTyped
  BY Beginnings DEF Init, ClocksTyped
<1>3. CaseTyped
  BY SeedRowOK DEF Init, CaseTyped
<1>4. TrailTyped
  <2>1. PICK e \in Entry : e = [Event("case_detected") EXCEPT !.to = SeedRow.status]
    BY Beginnings
  <2>2. e.type = "case_detected" /\ e.epoch = 0
    BY <2>1 DEF Event
  <2>3. trail = <<e>>
    BY <2>1 DEF Init
  <2>4. trail \in Seq(Entry) /\ Len(trail) = 1 /\ trail[1] = e
    BY <2>3
  <2>5. Proposed = {}
    BY <2>2, <2>4 DEF Proposed
  <2> QED
    BY <2>2, <2>4, <2>5 DEF TrailTyped, Init
<1>5. LedgerTyped
  BY DEF Init, LedgerTyped
<1>6. CallsTyped
  BY DEF Init, CallsTyped
<1> QED
  BY <1>1, <1>2, <1>3, <1>4, <1>5, <1>6 DEF Sound

LEMMA NextSound ==
    ASSUME Sound, [Next]_vars
    PROVE  Sound'
<1>1. ASSUME NEW h \in Handler, Run(h)
      PROVE  Sound'
  BY <1>1, StartStep, AgentFailsStep, DiagnoseStep, StrategizeStep, GateStep, RegisterStep,
     MarkResultStep, SaveExecutedStep DEF Run
<1>2. ASSUME NEW h \in Handler, Customer(h)
      PROVE  Sound'
  BY <1>2, StartStep, InterpretStep, ApplyPaymentStep DEF Customer
<1>3. ASSUME NEW h \in Handler, Operator(h)
      PROVE  Sound'
  BY <1>3, StartStep, ReadProposalStep, DecideStep, AdvanceStep, ListCasesStep, WakeCaseStep,
     StartResetStep, DeleteAllStep, SeedPortfolioStep, SeedCaseStep DEF Operator
<1>4. CASE UNCHANGED vars
  <2>1. UNCHANGED <<clocks, case, others, trail, ledger, epoch, requests, call>>
    BY <1>4 DEF vars
  <2> QED
    BY <2>1 DEF Sound, ClocksTyped, CaseTyped, TrailTyped, LedgerTyped, CallsTyped, CallOK,
                RowOK, Named, Proposed
<1> QED
  BY <1>1, <1>2, <1>3, <1>4, AppendEventStep, SaveOtherStep, CrashStep DEF Next

LEMMA AlwaysSound == Spec => []Sound
<1>1. Init => Sound
  BY InitSound
<1>2. Sound /\ [Next]_vars => Sound'
  BY NextSound
<1> QED
  BY <1>1, <1>2, PTL DEF Spec

\* The row, the ledger and the trail keep their shape and a row's status and
\* money agree, for any threads, limits, agents and policy, whoever saves last.
THEOREM TypeCorrect == Spec => []TypeOK
<1>1. Sound => TypeOK
  <2> SUFFICES ASSUME Sound PROVE TypeOK
    OBVIOUS
  <2>1. clocks # <<>> /\ \A i \in 1..Len(clocks) : clocks[i] \in Nat
    BY DEF Sound, ClocksTyped
  <2>2. /\ case \in Row \cup {NoCase}
        /\ case.status = "paid" => case.recovered = Profile.due
        /\ case.status = "partially_paid" => case.recovered \in 1..Profile.due - 1
    BY NothingIsAnAct DEF Sound, CaseTyped, RowOK
  <2>3. \A i \in 1..Len(trail) : trail[i].to \in Status
    <3>1. \A i \in 1..Len(trail) : trail[i] \in Entry
      BY DEF Sound, TrailTyped
    <3> QED
      BY <3>1 DEF Entry
  <2> QED
    BY <2>1, <2>2, <2>3 DEF Sound, LedgerTyped, TypeOK
<1> QED
  BY <1>1, AlwaysSound, PTL

-----------------------------------------------------------------------------
\* The steps by what they do to the trail and the ledger.

Acting == {"execute", "mark", "executed", "replay"}

\* A thread goes on, or ends, without having anything to execute.
Proceeds(h) ==
    /\ UNCHANGED <<case, trail, ledger, epoch>>
    /\ \E c : /\ call' = [call EXCEPT ![h] = c]
              /\ c.op \notin Acting \cup {"append"}
              /\ c.op # "idle" => c.row = case \/ (call[h].op # "idle" /\ c.row = call[h].row)
              /\ c.op \in {"seed", "seed_case"} => case = NoCase

\* A row is saved, with the objections of the one that was read, and an event is
\* on its way.
Saves(h, action, type, outcome, next) ==
    /\ UNCHANGED <<trail, ledger, epoch>>
    /\ \E c : /\ call' = [call EXCEPT ![h] = c]
              /\ c.op = "append" /\ c.row = case' /\ c.action = action
              /\ c.epoch = call[h].epoch /\ c.next = next
              /\ c.event.type = type /\ c.event.outcome = outcome
    /\ call[h].op # "idle"
    /\ Objecting(call[h].row) /\ call[h].op # "seed_case" => Objecting(case')

Objection == {"opt_out", "dispute"}

SavesIdly(h) ==
    \E action \in Act, type \in EventType \ {"action_executed"}, outcome \in Outcome,
       next \in {"strategize", "gate", "done"} :
        /\ Saves(h, action, type, outcome, next)
        /\ type = "reply_interpreted" /\ outcome \in Objection => Objecting(case')

ClearsBy(h, type) == Saves(h, call[h].action, type, "approved", "execute")
Clears(h) == \E type \in {"policy_evaluated", "human_review_decided"} : ClearsBy(h, type)

Kinds ==
    \/ \E h \in Handler :
        \/ Proceeds(h) \/ SavesIdly(h)
        \/ Gate(h) /\ Clears(h)
        \/ Clears(h) /\ ClearsBy(h, "human_review_decided")
        \/ Register(h) \/ MarkResult(h)
        \/ SaveExecuted(h) /\ Saves(h, call[h].action, "action_executed", call[h].op, "done")
        \/ AppendEvent(h)
        \/ DeleteAll(h)
    \/ SaveOther \/ \E logged \in BOOLEAN : Crash(logged)
    \/ UNCHANGED vars

LEMMA SavesBy ==
    ASSUME NEW h \in Handler, NEW row, NEW action, NEW event \in Blank, NEW next,
           Save(h, row, action, event, next), UNCHANGED Rest, call[h].op # "idle",
           Objecting(call[h].row) /\ call[h].op # "seed_case" => Objecting(case')
    PROVE  Saves(h, action, event.type, event.outcome, next)
<1>1. PICK c : c = Appending(h, row, action, event, next)
  OBVIOUS
<1>2. /\ c.op = "append" /\ c.row = row /\ c.action = action /\ c.epoch = call[h].epoch
      /\ c.next = next
  BY <1>1 DEF Appending
<1>3. c.event.type = event.type /\ c.event.outcome = event.outcome
  BY <1>1 DEF Appending, Blank
<1>4. call' = [call EXCEPT ![h] = c] /\ case' = row
  BY <1>1 DEF Save, Appending
<1> QED
  BY <1>2, <1>3, <1>4 DEF Saves, Rest

LEMMA Events ==
    \A type \in EventType :
        /\ Event(type) \in Blank /\ Event(type).type = type /\ Event(type).outcome = "none"
        /\ \A o \in Outcome :
              /\ [Event(type) EXCEPT !.outcome = o] \in Blank
              /\ [Event(type) EXCEPT !.outcome = o].type = type
              /\ [Event(type) EXCEPT !.outcome = o].outcome = o
        /\ \A n \in Nat :
              /\ [Event(type) EXCEPT !.amount = n] \in Blank
              /\ [Event(type) EXCEPT !.amount = n].type = type
              /\ [Event(type) EXCEPT !.amount = n].outcome = "none"
BY DEF Event, Blank, Outcome

LEMMA Outcomes ==
    ASSUME NEW type \in EventType, NEW o \in Outcome
    PROVE  \E event \in Blank : /\ event = [Event(type) EXCEPT !.outcome = o]
                                /\ event.type = type /\ event.outcome = o
<1>1. PICK event : event = [Event(type) EXCEPT !.outcome = o]
  OBVIOUS
<1>2. event \in Blank /\ event.type = type /\ event.outcome = o
  BY <1>1, Events
<1> QED
  BY <1>1, <1>2

LEMMA BeginProceeds ==
    ASSUME NEW h \in Handler, NEW op \in Op \ (Acting \cup {"seed", "seed_case"}), NEW at,
           Begin(h, op, at),
           UNCHANGED <<case, trail, ledger, epoch>>
    PROVE  Proceeds(h)
<1>1. PICK c : c = [op |-> op, row |-> case, action |-> NoAction, at |-> at, epoch |-> epoch]
  OBVIOUS
<1>2. c.op = op /\ c.row = case /\ call' = [call EXCEPT ![h] = c]
  BY <1>1 DEF Begin
<1> QED
  BY <1>2 DEF Proceeds, Op

LEMMA ReturnProceeds ==
    ASSUME NEW h \in Handler, Return(h), UNCHANGED <<case, trail, ledger, epoch>>
    PROVE  Proceeds(h)
<1>1. PICK c : c = Idle
  OBVIOUS
<1>2. c.op = "idle" /\ call' = [call EXCEPT ![h] = c]
  BY <1>1 DEF Return, Idle
<1> QED
  BY <1>2 DEF Proceeds, Acting

LEMMA IdleSave ==
    ASSUME NEW h \in Handler, NEW action \in Act, NEW outcome \in Outcome,
           NEW type \in EventType \ {"action_executed", "reply_interpreted"},
           NEW next \in {"strategize", "gate", "done"}, Saves(h, action, type, outcome, next)
    PROVE  SavesIdly(h)
<1>1. type # "reply_interpreted"
  OBVIOUS
<1> QED
  BY <1>1 DEF SavesIdly

LEMMA RunKinds ==
    ASSUME Sound, NEW h \in Handler, Run(h)
    PROVE  Kinds
<1>1. CASE StartRun(h)
  BY <1>1, BeginProceeds DEF StartRun, Kinds, Op, Acting
<1>2. CASE AgentFails(h)
  BY <1>2, ReturnProceeds DEF AgentFails, Kinds
<1>3. CASE Diagnose(h)
  <2>1. PICK row : row = [Step(call[h].row) EXCEPT !.status = "diagnosed", !.llmCalls = @ + 1]
    OBVIOUS
  <2>2. PICK event \in Blank : /\ event = Event("diagnosis_completed")
                               /\ event.type = "diagnosis_completed" /\ event.outcome = "none"
    BY Events DEF EventType
  <2>3. Save(h, row, NoAction, event, "strategize") /\ UNCHANGED Rest
    BY <1>3, <2>1, <2>2 DEF Diagnose
  <2>4. Saves(h, NoAction, "diagnosis_completed", "none", "strategize")
    <3>1. call[h].op # "idle"
      BY <1>3 DEF Diagnose
    <3> QED
      BY <1>3, <2>2, <2>3, <3>1, SavesBy, DiagnoseStep
  <2> QED
    BY <2>4, IdleSave, NothingIsAnAct DEF Kinds, EventType, Outcome
<1>4. CASE \E proposal \in Proposals : Strategize(h, proposal)
  <2>1. PICK proposal \in Proposals : Strategize(h, proposal)
    BY <1>4
  <2>2. PICK row, action : Save(h, row, action, Event("action_proposed"), "gate")
    BY <2>1 DEF Strategize
  <2>3. PICK event \in Blank : /\ event = Event("action_proposed")
                               /\ event.type = "action_proposed" /\ event.outcome = "none"
    BY Events DEF EventType
  <2>4. Save(h, row, action, event, "gate") /\ UNCHANGED Rest
    BY <2>1, <2>2, <2>3 DEF Strategize
  <2>5. Saves(h, action, "action_proposed", "none", "gate")
    <3>1. call[h].op # "idle"
      BY <2>1 DEF Strategize
    <3> QED
      BY <2>1, <2>3, <2>4, <3>1, SavesBy, StrategizeStep
  <2>6. PICK c : call' = [call EXCEPT ![h] = c] /\ c.op = "append" /\ c.action = action
    BY <2>5 DEF Saves
  <2>7. call'[h] = c /\ call'[h] \in Work \cup Saved \cup {Idle}
    BY <2>6, NextSound, <2>1 DEF Sound, CallsTyped, Next, Run, vars
  <2>8. action \in Act
    BY <2>6, <2>7 DEF Work, Saved, Idle, Op
  <2> QED
    BY <2>5, <2>8, IdleSave DEF Kinds, EventType, Outcome
<1>5. CASE Gate(h)
  <2>1. PICK result : result = Evaluate(call[h].action, GateInput(call[h].row), Budget,
                                        clocks[call[h].at], Policy)
    OBVIOUS
  <2>2. PICK d \in {"approved", "escalate", "deferred", "rejected"} : d = result.decision
    <3>1. CallOK(call[h]) /\ Stage(call[h]) = "gate"
      BY <1>5, Working DEF Gate, Op
    <3>2. call[h].at \in 1..Len(clocks) /\ clocks \in Seq(Nat)
      BY <3>1 DEF CallOK, Sound, ClocksTyped
    <3>3. clocks[call[h].at] \in Nat
      BY <3>2
    <3> QED
      BY <2>1, <3>3, Decisions
  <2>3. PICK row : row = [Step(call[h].row) EXCEPT
                              !.status = GatedStatus[result.decision],
                              !.wake = IF result.decision = "deferred" THEN result.retryAt ELSE @]
    OBVIOUS
  <2>4. PICK event \in Blank : /\ event = [Event("policy_evaluated") EXCEPT !.outcome = d]
                               /\ event.type = "policy_evaluated" /\ event.outcome = d
    BY Outcomes DEF EventType, Outcome
  <2>5. Save(h, row, call[h].action, event, RouteAfterGate(d)) /\ UNCHANGED Rest
    BY <1>5, <2>1, <2>2, <2>3, <2>4 DEF Gate
  <2>6. PICK action \in Act : action = call[h].action
    BY <1>5, Working DEF Gate, Op, Work
  <2>7. Saves(h, action, "policy_evaluated", d, RouteAfterGate(d))
    <3>1. call[h].op # "idle"
      BY <1>5 DEF Gate
    <3> QED
      BY <1>5, <2>4, <2>5, <2>6, <3>1, SavesBy, GateStep
  <2>8. CASE d = "approved"
    <3>1. Clears(h)
      BY <2>6, <2>7, <2>8 DEF Clears, ClearsBy, RouteAfterGate
    <3> QED
      BY <1>5, <3>1 DEF Kinds
  <2>9. CASE d # "approved"
    <3>1. SavesIdly(h)
      BY <2>7, <2>9, IdleSave DEF RouteAfterGate, EventType, Outcome
    <3> QED
      BY <3>1 DEF Kinds
  <2> QED
    BY <2>8, <2>9
<1>6. CASE Register(h) \/ MarkResult(h)
  BY <1>6 DEF Kinds
<1>7. CASE SaveExecuted(h)
  <2>1. PICK row : row = IF call[h].op = "replay" THEN Step(call[h].row)
                         ELSE [Step(call[h].row) EXCEPT
                                   !.status = ExecutedStatus(call[h].action.type)]
    OBVIOUS
  <2>2. PICK o \in Outcome : o = call[h].op
    BY <1>7 DEF SaveExecuted, Outcome
  <2>3. PICK event \in Blank : /\ event = [Event("action_executed") EXCEPT !.outcome = o]
                               /\ event.type = "action_executed" /\ event.outcome = o
    BY Outcomes DEF EventType
  <2>4. PICK action : action = call[h].action
    OBVIOUS
  <2>5. Save(h, row, action, event, "done") /\ UNCHANGED Rest
    BY <1>7, <2>1, <2>2, <2>3, <2>4 DEF SaveExecuted
  <2>6. Saves(h, action, "action_executed", o, "done")
    <3>1. call[h].op # "idle"
      BY <1>7 DEF SaveExecuted
    <3> QED
      BY <1>7, <2>3, <2>5, <3>1, SavesBy, SaveExecutedStep
  <2> QED
    BY <1>7, <2>2, <2>4, <2>6 DEF Kinds
<1> QED
  BY <1>1, <1>2, <1>3, <1>4, <1>5, <1>6, <1>7 DEF Run

LEMMA CustomerKinds ==
    ASSUME Sound, NEW h \in Handler, Customer(h)
    PROVE  Kinds
<1>1. CASE StartReply(h)
  BY <1>1, BeginProceeds DEF StartReply, Kinds, Op, Acting
<1>2. CASE StartPayment(h)
  BY <1>2, BeginProceeds DEF StartPayment, Kinds, Op, Acting
<1>3. CASE \E intent \in Intent, callback \in {Clock + DayLength, PromiseAt} :
               InterpretReply(h, intent, callback)
  <2>1. PICK intent \in Intent, callback \in {Clock + DayLength, PromiseAt} :
            InterpretReply(h, intent, callback)
    BY <1>3
  <2>2. PICK row : Save(h, row, NoAction,
                        [Event("reply_interpreted") EXCEPT !.outcome = intent], "done")
    BY <2>1 DEF InterpretReply
  <2>3. PICK event \in Blank : /\ event = [Event("reply_interpreted") EXCEPT !.outcome = intent]
                               /\ event.type = "reply_interpreted" /\ event.outcome = intent
    BY Outcomes DEF EventType, Outcome
  <2>4. Save(h, row, NoAction, event, "done") /\ UNCHANGED Rest
    BY <2>1, <2>2, <2>3 DEF InterpretReply
  <2>5. Saves(h, NoAction, "reply_interpreted", intent, "done")
    <3>1. call[h].op # "idle"
      BY <2>1 DEF InterpretReply
    <3> QED
      BY <2>1, <2>3, <2>4, <3>1, SavesBy, InterpretStep
  <2>6. intent \in Objection => Objecting(case')
    BY <2>1, InterpretStep DEF Objection
  <2> QED
    BY <2>5, <2>6, NothingIsAnAct DEF SavesIdly, Kinds, EventType, Outcome
<1>4. CASE \E amount \in 1..Profile.due : ApplyPayment(h, amount)
  <2>1. PICK amount \in 1..Profile.due : ApplyPayment(h, amount)
    BY <1>4
  <2>2. PICK row : Save(h, row, NoAction,
                        [Event("payment_captured") EXCEPT !.amount = amount], "done")
    BY <2>1 DEF ApplyPayment
  <2>3. PICK event : event = [Event("payment_captured") EXCEPT !.amount = amount]
    OBVIOUS
  <2>4. amount \in Nat
    BY CaseAssumption
  <2>5. event \in Blank /\ event.type = "payment_captured" /\ event.outcome = "none"
    BY <2>3, <2>4, Events DEF EventType
  <2>6. Save(h, row, NoAction, event, "done") /\ UNCHANGED Rest
    BY <2>1, <2>2, <2>3 DEF ApplyPayment
  <2>7. Saves(h, NoAction, "payment_captured", "none", "done")
    <3>1. call[h].op # "idle"
      BY <2>1 DEF ApplyPayment
    <3> QED
      BY <2>1, <2>5, <2>6, <3>1, SavesBy, ApplyPaymentStep
  <2> QED
    BY <2>7, IdleSave, NothingIsAnAct DEF Kinds, EventType, Outcome
<1> QED
  BY <1>1, <1>2, <1>3, <1>4 DEF Customer

LEMMA OperatorKinds ==
    ASSUME Sound, NEW h \in Handler, Operator(h)
    PROVE  Kinds
<1>1. CASE StartReview(h) \/ StartReset(h) \/ \E hours \in Hours : AdvanceTime(h, hours)
  BY <1>1, BeginProceeds DEF StartReview, StartReset, AdvanceTime, Kinds, Op, Acting
<1>2. CASE ReadProposal(h)
  <2>1. CASE Proposed = {}
    BY <1>2, <2>1, ReturnProceeds DEF ReadProposal, Return, Kinds
  <2>2. CASE Proposed # {}
    <3>1. call[h] \in Work
      BY <1>2, Working DEF ReadProposal, Op
    <3>2. PICK c : c = [call[h] EXCEPT !.op = "decide", !.action = trail[LastProposal].action]
      OBVIOUS
    <3>3. c.op = "decide" /\ c.row = call[h].row
      BY <3>1, <3>2 DEF Work
    <3>4. call' = [call EXCEPT ![h] = c]
      BY <1>2, <2>2, <3>2 DEF ReadProposal
    <3>5. Proceeds(h)
      BY <1>2, <3>3, <3>4 DEF ReadProposal, Proceeds, Acting
    <3> QED
      BY <3>5 DEF Kinds
  <2> QED
    BY <2>1, <2>2
<1>3. CASE \E approve \in BOOLEAN : Decide(h, approve)
  <2>1. PICK approve \in BOOLEAN : Decide(h, approve)
    BY <1>3
  <2>2. PICK o \in {"approved", "denied"} : o = IF approve THEN "approved" ELSE "denied"
    OBVIOUS
  <2>3. PICK n : n = IF approve THEN "execute" ELSE "done"
    OBVIOUS
  <2>4. PICK event \in Blank : /\ event = [Event("human_review_decided") EXCEPT !.outcome = o]
                               /\ event.type = "human_review_decided" /\ event.outcome = o
    BY Outcomes DEF EventType, Outcome
  <2>5. PICK row : Save(h, row, call[h].action, event, n)
    BY <2>1, <2>2, <2>3, <2>4 DEF Decide
  <2>6. UNCHANGED Rest
    BY <2>1 DEF Decide
  <2>7. call[h].action \in Act
    <3>1. call[h] \in Work
      BY <2>1, Working DEF Decide, Op
    <3> QED
      BY <3>1 DEF Work
  <2>8. PICK action \in Act : action = call[h].action
    BY <2>7
  <2>9. Saves(h, action, "human_review_decided", o, n)
    <3>1. call[h].op # "idle"
      BY <2>1 DEF Decide
    <3> QED
      BY <2>1, <2>4, <2>5, <2>6, <2>8, <3>1, SavesBy, DecideStep
  <2>10. CASE approve
    BY <2>1, <2>2, <2>3, <2>8, <2>9, <2>10 DEF Clears, ClearsBy, Kinds
  <2>11. CASE ~approve
    BY <2>2, <2>3, <2>9, <2>11, IdleSave DEF Kinds, EventType, Outcome
  <2> QED
    BY <2>10, <2>11
<1>4. CASE ListCases(h)
  <2>1. CASE IsDue(case, call[h].at)
    <3>1. call[h] \in Work
      BY <1>4, Working DEF ListCases, Op
    <3>2. PICK c : c = [call[h] EXCEPT !.op = "wake", !.row = case]
      OBVIOUS
    <3>3. c.op = "wake" /\ c.row = case
      BY <3>1, <3>2 DEF Work
    <3>4. call' = [call EXCEPT ![h] = c]
      BY <1>4, <2>1, <3>2 DEF ListCases
    <3>5. Proceeds(h)
      BY <1>4, <3>3, <3>4 DEF ListCases, Proceeds, Acting
    <3> QED
      BY <3>5 DEF Kinds
  <2>2. CASE ~IsDue(case, call[h].at)
    BY <1>4, <2>2, ReturnProceeds DEF ListCases, Return, Kinds
  <2> QED
    BY <2>1, <2>2
<1>5. CASE WakeCase(h)
  <2>1. PICK o \in Outcome : o = IF Step(call[h].row).status = "ptp_recorded"
                                 THEN "promise_missed" ELSE "scheduled_followup_due"
    BY DEF Outcome
  <2>2. PICK event \in Blank : /\ event = [Event("woken") EXCEPT !.outcome = o]
                               /\ event.type = "woken" /\ event.outcome = o
    BY Outcomes DEF EventType
  <2>3. PICK row : Save(h, row, NoAction, event, "done")
    BY <1>5, <2>1, <2>2 DEF WakeCase
  <2>4. UNCHANGED Rest
    BY <1>5 DEF WakeCase
  <2>5. Saves(h, NoAction, "woken", o, "done")
    <3>1. call[h].op # "idle"
      BY <1>5 DEF WakeCase
    <3> QED
      BY <1>5, <2>2, <2>3, <2>4, <3>1, SavesBy, WakeCaseStep
  <2> QED
    BY <2>5, IdleSave, NothingIsAnAct DEF Kinds, EventType
<1>6. CASE DeleteAll(h)
  BY <1>6 DEF Kinds
<1>7. CASE SeedPortfolio(h)
  <2>1. CASE case # NoCase \/ others
    BY <1>7, <2>1, ReturnProceeds DEF SeedPortfolio, Kinds
  <2>2. CASE ~(case # NoCase \/ others)
    <3>1. call[h] \in Work
      BY <1>7, Working DEF SeedPortfolio, Op
    <3>2. PICK c : c = [call[h] EXCEPT !.op = "seed_case"]
      OBVIOUS
    <3>3. c.op = "seed_case" /\ c.row = call[h].row
      BY <3>1, <3>2 DEF Work
    <3>4. call' = [call EXCEPT ![h] = c]
      BY <1>7, <2>2, <3>2 DEF SeedPortfolio, Continue
    <3>5. Proceeds(h)
      BY <1>7, <2>2, <3>3, <3>4 DEF SeedPortfolio, Proceeds, Acting
    <3> QED
      BY <3>5 DEF Kinds
  <2> QED
    BY <2>1, <2>2
<1>8. CASE SeedCase(h)
  <2>1. PICK event \in Blank : /\ event = Event("case_detected")
                               /\ event.type = "case_detected" /\ event.outcome = "none"
    BY Events DEF EventType
  <2>2. Save(h, SeedRow, NoAction, event, "done") /\ UNCHANGED Rest
    BY <1>8, <2>1 DEF SeedCase
  <2>3. Saves(h, NoAction, "case_detected", "none", "done")
    <3>1. call[h].op = "seed_case"
      BY <1>8 DEF SeedCase
    <3> QED
      BY <2>1, <2>2, <3>1, SavesBy
  <2> QED
    BY <2>3, IdleSave, NothingIsAnAct DEF Kinds, EventType, Outcome
<1> QED
  BY <1>1, <1>2, <1>3, <1>4, <1>5, <1>6, <1>7, <1>8 DEF Operator

LEMMA NextKinds ==
    ASSUME Sound, [Next]_vars
    PROVE  Kinds
BY RunKinds, CustomerKinds, OperatorKinds DEF Next, Kinds

-----------------------------------------------------------------------------
\* What is being executed, and what was, is in the ledger.

Done(a) == [type |-> a.type, status |-> "succeeded"]

Holds(a) ==
    /\ a.id \in ActionId
    /\ ledger[a.id] # NoEntry /\ ledger[a.id].type = a.type

\* The effect is over, or recorded as over, and the trail is to say so.
Owed(c) ==
    \/ c.op \in {"executed", "replay"}
    \/ c.op = "append" /\ c.event.type = "action_executed"

\* A thread of before the last reset knows nothing of the ledger.
Knows(c) ==
    c.epoch = epoch =>
        /\ c.op = "mark" => Holds(c.action)
        /\ Owed(c) => c.action.id \in ActionId /\ ledger[c.action.id] = Done(c.action)

Ran ==
    \A i \in Executed : /\ trail[i].action.id \in ActionId
                        /\ ledger[trail[i].action.id] = Done(trail[i].action)

LedgerOK == (\A h \in Handler : Knows(call[h])) /\ Ran

\* An entry keeps its type, and stays done once it is.
EntriesLast ==
    /\ epoch' = epoch
    /\ \A id \in ActionId : ledger[id] # NoEntry =>
           /\ ledger'[id] # NoEntry /\ ledger'[id].type = ledger[id].type
           /\ ledger[id].status = "succeeded" => ledger'[id] = ledger[id]

LEMMA DoneStays ==
    ASSUME EntriesLast, NEW a, a.id \in ActionId, ledger[a.id] = Done(a)
    PROVE  ledger'[a.id] = Done(a)
BY DEF EntriesLast, Done, NoEntry

LEMMA KnowsKept ==
    ASSUME EntriesLast, NEW c, Knows(c)
    PROVE  Knows(c)'
<1>1. PICK a : a = c.action
  OBVIOUS
<1>2. c.epoch = epoch /\ c.op = "mark" => Holds(a)'
  BY <1>1 DEF Knows, Holds, EntriesLast
<1>3. c.epoch = epoch /\ Owed(c) => a.id \in ActionId /\ ledger'[a.id] = Done(a)
  BY <1>1, DoneStays DEF Knows
<1> QED
  BY <1>1, <1>2, <1>3 DEF Knows, EntriesLast, Owed, Done

LEMMA AllKnow ==
    ASSUME Sound, LedgerOK, EntriesLast, NEW h \in Handler, NEW c,
           call' = [call EXCEPT ![h] = c], Knows(c)'
    PROVE  (\A g \in Handler : Knows(call[g]))'
<1> SUFFICES ASSUME NEW g \in Handler PROVE Knows(call[g])'
  OBVIOUS
<1>1. PICK d : d = call[g]
  OBVIOUS
<1>2. Knows(d)'
  BY <1>1, KnowsKept DEF LedgerOK
<1>3. call'[g] = IF g = h THEN c ELSE d
  BY <1>1 DEF Sound, CallsTyped
<1>4. PICK e : e = call'[g] /\ Knows(e)'
  BY <1>2, <1>3
<1> QED
  BY <1>4 DEF Knows, Owed, Done, Holds

LEMMA RanKept ==
    ASSUME LedgerOK, EntriesLast, trail' = trail
    PROVE  Ran'
<1>1. Executed' = Executed
  BY DEF Executed, Of, EntriesLast
<1> SUFFICES ASSUME NEW i \in Executed
             PROVE  /\ trail[i].action.id \in ActionId
                    /\ ledger'[trail[i].action.id] = Done(trail[i].action)
  BY <1>1 DEF Ran, Done
<1>2. PICK a : a = trail[i].action
  OBVIOUS
<1> QED
  BY <1>2, DoneStays DEF LedgerOK, Ran

\* A step that leaves the ledger and the trail alone.
LEMMA Untouched ==
    ASSUME Sound, LedgerOK, NEW h \in Handler, NEW c, call' = [call EXCEPT ![h] = c],
           UNCHANGED <<trail, ledger, epoch>>, Knows(c)
    PROVE  LedgerOK'
<1>1. EntriesLast
  BY DEF EntriesLast
<1> QED
  BY <1>1, KnowsKept, AllKnow, RanKept DEF LedgerOK

LEMMA SavesLedger ==
    ASSUME Sound, LedgerOK, NEW h \in Handler, NEW action, NEW type, NEW outcome, NEW next,
           Saves(h, action, type, outcome, next),
           type = "action_executed" => action = call[h].action /\ Owed(call[h])
    PROVE  LedgerOK'
<1>1. PICK c : /\ call' = [call EXCEPT ![h] = c]
               /\ c.op = "append" /\ c.action = action /\ c.epoch = call[h].epoch
               /\ c.event.type = type
  BY DEF Saves
<1>2. Knows(c)
  <2>1. Knows(call[h])
    BY DEF LedgerOK
  <2> QED
    BY <1>1, <2>1 DEF Knows, Owed
<1> QED
  BY <1>1, <1>2, Untouched DEF Saves

LEMMA ProceedsLedger ==
    ASSUME Sound, LedgerOK, NEW h \in Handler, Proceeds(h)
    PROVE  LedgerOK'
<1>1. PICK c : call' = [call EXCEPT ![h] = c] /\ c.op \notin Acting \cup {"append"}
  BY DEF Proceeds
<1>2. Knows(c)
  BY <1>1 DEF Knows, Owed, Acting
<1> QED
  BY <1>1, <1>2, Untouched DEF Proceeds

LEMMA RegisterLedger ==
    ASSUME Sound, LedgerOK, NEW h \in Handler, Register(h)
    PROVE  LedgerOK'
<1>1. call[h] \in Work /\ CallOK(call[h]) /\ Stage(call[h]) = "execute"
  BY Working DEF Register, Op
<1>2. PICK a : a = call[h].action
  OBVIOUS
<1>3. a.id \in ActionId /\ a.type \in ActionType
  BY <1>1, <1>2, CaseAssumption DEF CallOK, Named, Sound, ActionId
<1>4. PICK new : new = [type |-> a.type, status |-> "pending"]
  OBVIOUS
<1>5. new # NoEntry /\ new.type = a.type
  BY <1>3, <1>4 DEF NoEntry, ActionType, ContactActions
<1>6. ledger' = IF ledger[a.id] # NoEntry THEN ledger ELSE [ledger EXCEPT ![a.id] = new]
  BY <1>2, <1>4 DEF Register
<1>7. EntriesLast
  BY <1>3, <1>6 DEF Register, EntriesLast, Sound, LedgerTyped
<1>8. \/ call' = [call EXCEPT ![h] = Idle]
      \/ /\ \E op \in {"mark", "replay"} :
                /\ call' = [call EXCEPT ![h] = [call[h] EXCEPT !.op = op]]
                /\ op = "replay" => ledger[a.id].status = "succeeded"
         /\ ledger[a.id] = NoEntry \/ ledger[a.id].type = a.type
  BY <1>2 DEF Register, Return, Continue
<1>9. CASE call' = [call EXCEPT ![h] = Idle]
  <2>1. PICK c : c = Idle
    OBVIOUS
  <2>2. Knows(c)'
    BY <2>1 DEF Knows, Owed, Idle
  <2> QED
    BY <1>7, <1>9, <2>1, <2>2, AllKnow, RanKept DEF LedgerOK, Register
<1>10. ASSUME NEW op \in {"mark", "replay"},
              call' = [call EXCEPT ![h] = [call[h] EXCEPT !.op = op]],
              op = "replay" => ledger[a.id].status = "succeeded",
              ledger[a.id] = NoEntry \/ ledger[a.id].type = a.type
       PROVE  LedgerOK'
  <2>1. PICK c : c = [call[h] EXCEPT !.op = op]
    OBVIOUS
  <2>2. c.op = op /\ c.action = a
    BY <1>1, <1>2, <2>1 DEF Work
  <2>3. ledger'[a.id] # NoEntry /\ ledger'[a.id].type = a.type
    BY <1>3, <1>5, <1>6, <1>10 DEF Sound, LedgerTyped
  <2>4. op = "replay" => ledger'[a.id] = Done(a)
    <3>1. op = "replay" => ledger[a.id] # NoEntry
      BY <1>10 DEF NoEntry
    <3>2. ledger[a.id] \in [type : ActionType, status : {"pending", "succeeded"}] \cup {NoEntry}
      BY <1>3 DEF Sound, LedgerTyped
    <3> QED
      BY <1>6, <1>10, <3>1, <3>2 DEF Done
  <2>5. Knows(c)'
    BY <1>3, <2>2, <2>3, <2>4 DEF Knows, Owed, Holds, Done
  <2>6. call' = [call EXCEPT ![h] = c]
    BY <1>10, <2>1
  <2> QED
    BY <1>7, <2>5, <2>6, AllKnow, RanKept DEF LedgerOK, Register
<1> QED
  BY <1>8, <1>9, <1>10

LEMMA MarkLedger ==
    ASSUME Sound, LedgerOK, NEW h \in Handler, MarkResult(h)
    PROVE  LedgerOK'
<1>1. call[h] \in Work /\ CallOK(call[h]) /\ Stage(call[h]) = "mark" /\ call[h].op = "mark"
  BY Working DEF MarkResult, Op
<1>2. PICK a : a = call[h].action
  OBVIOUS
<1>3. a.id \in ActionId
  BY <1>1, <1>2, CaseAssumption DEF CallOK, Named, Sound, ActionId
<1>4. CASE ledger[a.id] = NoEntry
  <2>1. PICK c : c = Idle
    OBVIOUS
  <2>2. Knows(c)
    BY <2>1 DEF Knows, Owed, Idle
  <2>3. call' = [call EXCEPT ![h] = c] /\ UNCHANGED <<trail, ledger, epoch>>
    BY <1>2, <1>4, <2>1 DEF MarkResult, Return
  <2> QED
    BY <2>2, <2>3, Untouched
<1>5. CASE ledger[a.id] # NoEntry
  <2>1. PICK entry \in [type : ActionType, status : {"pending", "succeeded"}] :
            entry = ledger[a.id]
    BY <1>3, <1>5 DEF Sound, LedgerTyped
  <2>2. PICK new : new = [entry EXCEPT !.status = "succeeded"]
    OBVIOUS
  <2>3. /\ new = [type |-> entry.type, status |-> "succeeded"]
        /\ entry.status = "succeeded" => new = entry
    BY <2>1, <2>2
  <2>4. ledger' = [ledger EXCEPT ![a.id] = new]
    BY <1>2, <1>5, <2>1, <2>2 DEF MarkResult
  <2>5. EntriesLast
    <3>1. new # NoEntry
      BY <2>3 DEF NoEntry
    <3> QED
      BY <1>3, <2>1, <2>3, <2>4, <3>1 DEF EntriesLast, Sound, LedgerTyped, MarkResult
  <2>6. PICK c : c = [call[h] EXCEPT !.op = "executed"]
    OBVIOUS
  <2>7. c.op = "executed" /\ c.action = a /\ c.epoch = call[h].epoch
    BY <1>1, <1>2, <2>6 DEF Work
  <2>8. call' = [call EXCEPT ![h] = c]
    BY <1>2, <1>5, <2>6 DEF MarkResult, Continue
  <2>9. c.epoch = epoch => ledger'[a.id] = Done(a)
    <3>1. c.epoch = epoch => entry.type = a.type
      BY <1>1, <1>2, <2>1, <2>7 DEF LedgerOK, Knows, Holds
    <3> QED
      BY <1>3, <2>3, <2>4, <3>1 DEF Done, Sound, LedgerTyped
  <2>10. Knows(c)'
    BY <1>3, <2>5, <2>7, <2>9 DEF Knows, Owed, Done, EntriesLast
  <2> QED
    BY <2>5, <2>8, <2>10, AllKnow, RanKept DEF LedgerOK, MarkResult
<1> QED
  BY <1>4, <1>5

LEMMA AppendLedger ==
    ASSUME Sound, LedgerOK, NEW h \in Handler, AppendEvent(h)
    PROVE  LedgerOK'
<1>1. call[h].op = "append"
  BY DEF AppendEvent
<1>2. PICK e \in Entry : e = call[h].event
  BY <1>1, AppendingThread
<1>3. trail' = Append(trail, e) /\ UNCHANGED <<ledger, epoch>>
  BY <1>2 DEF AppendEvent
<1>4. EntriesLast
  BY <1>3 DEF EntriesLast
<1>5. PICK a : a = e.action
  OBVIOUS
<1>6. e.type = "action_executed" /\ e.epoch = epoch =>
          a.id \in ActionId /\ ledger[a.id] = Done(a)
  <2>1. a = call[h].action /\ e.epoch = call[h].epoch
    BY <1>1, <1>2, <1>5, AppendingThread
  <2> QED
    BY <1>1, <1>2, <2>1 DEF LedgerOK, Knows, Owed
<1>7. Ran'
  <2> SUFFICES ASSUME NEW i \in Executed'
               PROVE  /\ trail'[i].action.id \in ActionId
                      /\ ledger[trail'[i].action.id] = Done(trail'[i].action)
    BY <1>3 DEF Ran, Done
  <2>1. i \in 1..Len(trail') /\ trail'[i].type = "action_executed" /\ trail'[i].epoch = epoch
    BY <1>3 DEF Executed, Of
  <2>2. CASE i \in 1..Len(trail)
    <3>1. i \in Executed /\ trail'[i] = trail[i]
      BY <1>3, <2>1, <2>2, Appended DEF Executed, Of
    <3> QED
      BY <3>1 DEF LedgerOK, Ran
  <2>3. CASE i = Len(trail) + 1
    BY <1>3, <1>5, <1>6, <2>1, <2>3, Appended
  <2> QED
    BY <1>3, <2>1, <2>2, <2>3, Appended
<1>8. PICK c : /\ call' = [call EXCEPT ![h] = c]
               /\ c.op \in {"idle", "strategize", "gate", "execute"}
  <2>1. call[h].next \in {"strategize", "gate", "execute", "done"}
    BY <1>1, AppendingThread DEF Saved
  <2>2. CASE call[h].next = "done"
    <3>1. PICK c : c = Idle
      OBVIOUS
    <3>2. c.op = "idle" /\ call' = [call EXCEPT ![h] = c]
      BY <2>2, <3>1 DEF AppendEvent, Idle
    <3> QED
      BY <3>2
  <2>3. CASE call[h].next # "done"
    <3>1. PICK c : c = [op |-> call[h].next, row |-> call[h].row, action |-> call[h].action,
                        at |-> call[h].at, epoch |-> call[h].epoch]
      OBVIOUS
    <3>2. c.op = call[h].next /\ call' = [call EXCEPT ![h] = c]
      BY <2>3, <3>1 DEF AppendEvent
    <3> QED
      BY <2>1, <2>3, <3>2
  <2> QED
    BY <2>2, <2>3
<1>9. Knows(c)'
  BY <1>8 DEF Knows, Owed
<1> QED
  BY <1>4, <1>7, <1>8, <1>9, AllKnow DEF LedgerOK

LEMMA DeleteLedger ==
    ASSUME Sound, LedgerOK, NEW h \in Handler, DeleteAll(h)
    PROVE  LedgerOK'
<1>1. trail' = <<>> /\ epoch' = epoch + 1 /\ epoch \in Nat
  BY DEF DeleteAll, Sound
<1>2. Ran'
  <2>1. Len(trail') = 0
    BY <1>1
  <2> QED
    BY <2>1 DEF Ran, Executed, Of
<1>3. ASSUME NEW g \in Handler
      PROVE  Knows(call[g])'
  <2>1. CASE g = h
    <3>1. call[h] \in Work
      BY Working DEF DeleteAll, Op
    <3>2. PICK c : c = [call[h] EXCEPT !.op = "seed", !.row = NoCase, !.epoch = epoch + 1]
      OBVIOUS
    <3>3. c.op = "seed"
      <4>1. PICK d : d = call[h]
        OBVIOUS
      <4>2. d = [op |-> d.op, row |-> d.row, action |-> d.action, at |-> d.at,
                 epoch |-> d.epoch]
        BY <3>1, <4>1 DEF Work
      <4>3. c = [op |-> "seed", row |-> NoCase, action |-> d.action, at |-> d.at,
                 epoch |-> epoch + 1]
        BY <3>2, <4>1, <4>2
      <4> QED
        BY <4>3
    <3>4. call'[g] = c
      BY <2>1, <3>2 DEF DeleteAll, Sound, CallsTyped
    <3> QED
      BY <3>3, <3>4 DEF Knows, Owed
  <2>2. CASE g # h
    <3>1. call'[g] = call[g]
      BY <2>2 DEF DeleteAll, Sound, CallsTyped
    <3>2. CASE call[g] = Idle
      BY <3>1, <3>2 DEF Knows, Owed, Idle
    <3>3. CASE CallOK(call[g])
      <4>1. call[g].epoch \in Nat /\ call[g].epoch <= epoch
        BY <3>3 DEF CallOK, Work, Saved
      <4> QED
        BY <1>1, <3>1, <4>1 DEF Knows
    <3> QED
      BY <3>2, <3>3 DEF Sound, CallsTyped
  <2> QED
    BY <2>1, <2>2
<1> QED
  BY <1>2, <1>3 DEF LedgerOK

LEMMA CrashLedger ==
    ASSUME Sound, LedgerOK, NEW logged \in BOOLEAN, Crash(logged)
    PROVE  LedgerOK'
<1>1. UNCHANGED <<ledger, epoch>> /\ call' = [h \in Handler |-> Idle]
  BY DEF Crash
<1>2. EntriesLast
  BY <1>1 DEF EntriesLast
<1>3. Ran'
  <2>1. CASE trail' = trail
    BY <1>2, <2>1, RanKept
  <2>2. CASE trail' # trail
    <3>1. PICK e \in Entry :
              e = [Event("case_detected") EXCEPT !.to = SeedRow.status, !.epoch = epoch]
      BY Beginnings DEF Sound
    <3>2. e.type = "case_detected"
      BY <3>1 DEF Event
    <3>3. trail' = Append(trail, e)
      BY <2>2, <3>1 DEF Crash
    <3>4. \A i \in Executed' : i \in Executed /\ trail'[i] = trail[i]
      BY <1>1, <3>2, <3>3, Appended DEF Executed, Of
    <3> QED
      BY <1>1, <3>4 DEF LedgerOK, Ran, Done
  <2> QED
    BY <2>1, <2>2
<1>4. ASSUME NEW g \in Handler
      PROVE  Knows(call[g])'
  <2>1. call'[g] = Idle
    BY <1>1
  <2> QED
    BY <2>1 DEF Knows, Owed, Idle
<1> QED
  BY <1>3, <1>4 DEF LedgerOK

LEMMA UnchangedLedger ==
    ASSUME LedgerOK, UNCHANGED <<trail, ledger, epoch, call>>
    PROVE  LedgerOK'
BY DEF LedgerOK, Knows, Owed, Done, Holds, Ran, Executed, Of

LEMMA NextLedger ==
    ASSUME Sound, LedgerOK, [Next]_vars
    PROVE  LedgerOK'
<1>1. ASSUME NEW h \in Handler, SavesIdly(h)
      PROVE  LedgerOK'
  BY <1>1, SavesLedger DEF SavesIdly
<1>2. ASSUME NEW h \in Handler, Clears(h)
      PROVE  LedgerOK'
  BY <1>2, SavesLedger DEF Clears, ClearsBy
<1>3. ASSUME NEW h \in Handler, SaveExecuted(h),
             Saves(h, call[h].action, "action_executed", call[h].op, "done")
      PROVE  LedgerOK'
  <2>1. Owed(call[h])
    BY <1>3 DEF SaveExecuted, Owed
  <2> QED
    BY <1>3, <2>1, SavesLedger
<1>4. CASE SaveOther
  BY <1>4, UnchangedLedger DEF SaveOther
<1>5. CASE UNCHANGED vars
  BY <1>5, UnchangedLedger DEF vars
<1>6. Kinds
  BY NextKinds
<1> QED
  BY <1>1, <1>2, <1>3, <1>4, <1>5, <1>6, ProceedsLedger, RegisterLedger, MarkLedger,
     AppendLedger, DeleteLedger, CrashLedger DEF Kinds

LEMMA InitLedger ==
    ASSUME Init
    PROVE  LedgerOK
<1>1. PICK e \in Entry : e = [Event("case_detected") EXCEPT !.to = SeedRow.status]
  BY Beginnings
<1>2. e.type = "case_detected"
  BY <1>1 DEF Event
<1>3. Len(trail) = 1 /\ trail[1] = e
  BY <1>1 DEF Init
<1>4. Ran
  BY <1>2, <1>3 DEF Ran, Executed, Of
<1>5. \A h \in Handler : Knows(call[h])
  BY DEF Init, Knows, Owed, Idle
<1> QED
  BY <1>4, <1>5 DEF LedgerOK

\* Whatever the threads, the agents and the resets: what the trail of the
\* current tables says was executed is what the ledger holds as done under that
\* name, however alike the runs name what they propose.
THEOREM LedgerNamesWhatRanAlways == Spec => []LedgerNamesWhatRan
<1>1. Init => LedgerOK
  BY InitLedger
<1>2. Sound /\ LedgerOK /\ [Next]_vars => LedgerOK'
  BY NextLedger
<1>3. LedgerOK => LedgerNamesWhatRan
  BY DEF LedgerOK, Ran, Done, LedgerNamesWhatRan
<1> QED
  BY <1>1, <1>2, <1>3, AlwaysSound, PTL DEF Spec

-----------------------------------------------------------------------------
\* Name by name: no more is executed, or on its way to be, than was cleared.

RunFor(id) == {j \in Executed : trail[j].action.id = id}
ClearedFor(id) == {j \in Clearances : trail[j].action.id = id}

\* It has its clearance in the trail, and its execution not yet.
Flying(c) ==
    /\ c.epoch = epoch
    /\ \/ c.op \in Acting
       \/ c.op = "append" /\ c.event.type = "action_executed"
InFlight(id) == {h \in Handler : Flying(call[h]) /\ call[h].action.id = id}

\* What goes on to execute appends its clearance first.
Pending(c) ==
    c.op = "append" /\ c.next = "execute" =>
        /\ c.event.type \in {"policy_evaluated", "human_review_decided"}
        /\ c.event.outcome = "approved"

Counted(id) ==
    Cardinality(RunFor(id)) + Cardinality(InFlight(id)) <= Cardinality(ClearedFor(id))

ClearedOK ==
    /\ \A h \in Handler : Pending(call[h])
    /\ \A id \in Nat : Counted(id)
    /\ ExecutionsAreCleared

LEMMA AllFinite ==
    ASSUME Sound, NEW id
    PROVE  /\ IsFiniteSet(RunFor(id)) /\ IsFiniteSet(ClearedFor(id))
           /\ IsFiniteSet(InFlight(id))
           /\ Cardinality(RunFor(id)) \in Nat /\ Cardinality(ClearedFor(id)) \in Nat
           /\ Cardinality(InFlight(id)) \in Nat
<1>1. Len(trail) \in Nat
  BY DEF Sound, TrailTyped
<1>2. IsFiniteSet(1..Len(trail))
  BY <1>1, FS_Interval
<1>3. RunFor(id) \subseteq 1..Len(trail) /\ ClearedFor(id) \subseteq 1..Len(trail)
  BY DEF RunFor, ClearedFor, Executed, Clearances, Of
<1>4. InFlight(id) \subseteq Handler /\ IsFiniteSet(Handler)
  BY CaseAssumption DEF InFlight
<1>5. IsFiniteSet(RunFor(id)) /\ IsFiniteSet(ClearedFor(id)) /\ IsFiniteSet(InFlight(id))
  BY <1>2, <1>3, <1>4, FS_Subset
<1> QED
  BY <1>5, FS_CardinalityType

\* Fewer executions and threads, and more clearances, are still enough.
LEMMA StillCounted ==
    ASSUME Sound, NEW id, Counted(id), NEW R, NEW F, NEW C, IsFiniteSet(C),
           R \subseteq RunFor(id), F \subseteq InFlight(id), ClearedFor(id) \subseteq C
    PROVE  Cardinality(R) + Cardinality(F) <= Cardinality(C)
<1>1. /\ IsFiniteSet(R) /\ Cardinality(R) <= Cardinality(RunFor(id))
      /\ IsFiniteSet(F) /\ Cardinality(F) <= Cardinality(InFlight(id))
      /\ Cardinality(ClearedFor(id)) <= Cardinality(C)
  BY AllFinite, FS_Subset
<1>2. Cardinality(R) \in Nat /\ Cardinality(F) \in Nat /\ Cardinality(C) \in Nat
  BY <1>1, FS_CardinalityType
<1> QED
  BY <1>1, <1>2, AllFinite DEF Counted

LEMMA AllPending ==
    ASSUME Sound, ClearedOK, NEW h \in Handler, NEW c, call' = [call EXCEPT ![h] = c],
           Pending(c)
    PROVE  (\A g \in Handler : Pending(call[g]))'
<1> SUFFICES ASSUME NEW g \in Handler PROVE Pending(call'[g])
  BY DEF Pending
<1>1. call'[g] = IF g = h THEN c ELSE call[g]
  BY DEF Sound, CallsTyped
<1> QED
  BY <1>1 DEF ClearedOK

\* A step of one thread, with the trail left alone, that nothing new flies by.
LEMMA NothingNewFlies ==
    ASSUME Sound, Sound', ClearedOK, NEW h \in Handler, NEW c, call' = [call EXCEPT ![h] = c],
           UNCHANGED <<trail, epoch>>, Pending(c),
           Flying(c) => Flying(call[h]) /\ c.action.id = call[h].action.id
    PROVE  ClearedOK'
<1>1. Executed' = Executed /\ Clearances' = Clearances
  BY DEF Executed, Clearances, Of
<1>2. ExecutionsAreCleared'
  BY <1>1 DEF ClearedOK, ExecutionsAreCleared
<1>3. ASSUME NEW id \in Nat
      PROVE  Counted(id)'
  <2>1. RunFor(id)' = RunFor(id) /\ ClearedFor(id)' = ClearedFor(id)
    BY <1>1 DEF RunFor, ClearedFor
  <2>2. InFlight(id)' \subseteq InFlight(id)
    <3> SUFFICES ASSUME NEW g \in InFlight(id)' PROVE g \in InFlight(id)
      OBVIOUS
    <3>1. g \in Handler /\ Flying(call'[g]) /\ call'[g].action.id = id
      BY DEF InFlight, Flying
    <3>2. call'[g] = IF g = h THEN c ELSE call[g]
      BY <3>1 DEF Sound, CallsTyped
    <3> QED
      BY <3>1, <3>2 DEF InFlight
  <2>3. Counted(id)
    BY DEF ClearedOK
  <2> QED
    BY <2>1, <2>2, <2>3, StillCounted, AllFinite DEF Counted
<1> QED
  BY <1>2, <1>3, AllPending DEF ClearedOK

LEMMA SavesCleared ==
    ASSUME Sound, Sound', ClearedOK, NEW h \in Handler, NEW action, NEW type, NEW outcome,
           NEW next, Saves(h, action, type, outcome, next),
           type = "action_executed" =>
               action = call[h].action /\ call[h].op \in {"executed", "replay"},
           next = "execute" =>
               type \in {"policy_evaluated", "human_review_decided"} /\ outcome = "approved"
    PROVE  ClearedOK'
<1>1. PICK c : /\ call' = [call EXCEPT ![h] = c]
               /\ c.op = "append" /\ c.action = action /\ c.epoch = call[h].epoch
               /\ c.next = next /\ c.event.type = type /\ c.event.outcome = outcome
  BY DEF Saves
<1>2. Pending(c)
  BY <1>1 DEF Pending
<1>3. Flying(c) => Flying(call[h]) /\ c.action.id = call[h].action.id
  BY <1>1 DEF Flying, Acting
<1> QED
  BY <1>1, <1>2, <1>3, NothingNewFlies DEF Saves

LEMMA ProceedsCleared ==
    ASSUME Sound, Sound', ClearedOK, NEW h \in Handler, Proceeds(h)
    PROVE  ClearedOK'
<1>1. PICK c : call' = [call EXCEPT ![h] = c] /\ c.op \notin Acting \cup {"append"}
  BY DEF Proceeds
<1>2. Pending(c) /\ ~Flying(c)
  BY <1>1 DEF Pending, Flying, Acting
<1> QED
  BY <1>1, <1>2, NothingNewFlies DEF Proceeds

\* The executor's own steps: the thread goes on with its action, or ends.
LEMMA ExecutorCleared ==
    ASSUME Sound, Sound', ClearedOK, NEW h \in Handler, Register(h) \/ MarkResult(h)
    PROVE  ClearedOK'
<1>1. call[h] \in Work /\ call[h].op \in Acting
  BY Working DEF Register, MarkResult, Op, Acting
<1>2. UNCHANGED <<trail, epoch>>
  BY DEF Register, MarkResult
<1>3. Return(h) \/ \E op \in Acting : Continue(h, op)
  BY DEF Register, MarkResult, Acting
<1>4. CASE Return(h)
  <2>1. PICK c : c = Idle
    OBVIOUS
  <2>2. Pending(c) /\ ~Flying(c)
    BY <2>1 DEF Pending, Flying, Idle, Acting
  <2> QED
    BY <1>2, <1>4, <2>1, <2>2, NothingNewFlies DEF Return
<1>5. ASSUME NEW op \in Acting, Continue(h, op)
      PROVE  ClearedOK'
  <2>1. PICK c : c = [call[h] EXCEPT !.op = op]
    OBVIOUS
  <2>2. c.op = op /\ c.action = call[h].action /\ c.epoch = call[h].epoch
    BY <1>1, <2>1 DEF Work
  <2>3. Pending(c) /\ (Flying(c) => Flying(call[h]) /\ c.action.id = call[h].action.id)
    BY <1>1, <2>2 DEF Pending, Flying, Acting
  <2> QED
    BY <1>2, <1>5, <2>1, <2>3, NothingNewFlies DEF Continue
<1> QED
  BY <1>3, <1>4, <1>5

\* What an old execution needs stays before it.
LEMMA OldStayCleared ==
    ASSUME Sound, ClearedOK, NEW e \in Entry, trail' = Append(trail, e), UNCHANGED epoch,
           NEW i \in Executed', i \in 1..Len(trail)
    PROVE  Cardinality({j \in Executed : j <= i /\ trail[j].action.id = trail[i].action.id})' <=
           Cardinality({j \in Clearances : j < i /\ trail[j].action.id = trail[i].action.id})'
<1>1. \A j \in 1..Len(trail) : /\ trail'[j] = trail[j]
                               /\ j \in Executed' <=> j \in Executed
                               /\ j \in Clearances' <=> j \in Clearances
  BY Appended DEF Executed, Clearances, Of
<1>2. \A j \in Executed' \cup Clearances' : j <= i => j \in 1..Len(trail)
  <2>1. Executed' \cup Clearances' \subseteq 1..Len(trail')
    BY DEF Executed, Clearances, Of
  <2> QED
    BY <2>1, Appended
<1>3. Executed \cup Clearances \subseteq 1..Len(trail)
  BY DEF Executed, Clearances, Of
<1>4. {j \in Executed' : j <= i /\ trail'[j].action.id = trail'[i].action.id} =
      {j \in Executed : j <= i /\ trail[j].action.id = trail[i].action.id}
  BY <1>1, <1>2, <1>3
<1>5. {j \in Clearances' : j < i /\ trail'[j].action.id = trail'[i].action.id} =
      {j \in Clearances : j < i /\ trail[j].action.id = trail[i].action.id}
  <2>1. \A j \in Clearances' : j < i => j \in 1..Len(trail)
    <3>1. Clearances' \subseteq 1..Len(trail')
      BY DEF Clearances, Of
    <3> QED
      BY <3>1, Appended
  <2> QED
    BY <1>1, <1>3, <2>1
<1>6. i \in Executed
  BY <1>1
<1> QED
  BY <1>4, <1>5, <1>6 DEF ClearedOK, ExecutionsAreCleared

\* The thread after its append: it goes on, with the same action.
LEMMA Appender ==
    ASSUME Sound, NEW h \in Handler, AppendEvent(h)
    PROVE  \E c : /\ call' = [call EXCEPT ![h] = c]
                  /\ c.op \in {"idle", "strategize", "gate", "execute"}
                  /\ c.op = "execute" => /\ call[h].next = "execute"
                                         /\ c.action = call[h].action
<1>1. call[h].next \in {"strategize", "gate", "execute", "done"}
  BY AppendingThread DEF AppendEvent, Saved
<1>2. CASE call[h].next = "done"
  <2>1. PICK c : c = Idle
    OBVIOUS
  <2>2. c.op = "idle" /\ call' = [call EXCEPT ![h] = c]
    BY <1>2, <2>1 DEF AppendEvent, Idle
  <2> QED
    BY <2>2
<1>3. CASE call[h].next # "done"
  <2>1. PICK c : c = [op |-> call[h].next, row |-> call[h].row, action |-> call[h].action,
                      at |-> call[h].at, epoch |-> call[h].epoch]
    OBVIOUS
  <2>2. /\ c.op = call[h].next /\ c.action = call[h].action
        /\ call' = [call EXCEPT ![h] = c]
    BY <1>3, <2>1 DEF AppendEvent
  <2> QED
    BY <1>1, <1>3, <2>2
<1> QED
  BY <1>1, <1>2, <1>3

\* Counting: an element more, at most one more, one that moves on.
LEMMA OneMore ==
    ASSUME NEW S, NEW T, NEW x, IsFiniteSet(S), IsFiniteSet(T), x \notin S,
           S \cup {x} \subseteq T
    PROVE  Cardinality(S) + 1 <= Cardinality(T) /\ Cardinality(T) \in Nat
<1>1. Cardinality(S \cup {x}) = Cardinality(S) + 1
  BY FS_AddElement
<1>2. Cardinality(S \cup {x}) <= Cardinality(T)
  BY FS_Subset
<1> QED
  BY <1>1, <1>2, FS_CardinalityType

LEMMA AtMostOneMore ==
    ASSUME NEW S, NEW T, NEW x, IsFiniteSet(S), T \subseteq S \cup {x}
    PROVE  Cardinality(T) <= Cardinality(S) + 1 /\ Cardinality(T) \in Nat
<1>1. Cardinality(S) \in Nat
  BY FS_CardinalityType
<1>2. /\ IsFiniteSet(S \cup {x})
      /\ Cardinality(S \cup {x}) = IF x \in S THEN Cardinality(S) ELSE Cardinality(S) + 1
  BY FS_AddElement
<1>3. IsFiniteSet(T) /\ Cardinality(T) <= Cardinality(S \cup {x})
  BY <1>2, FS_Subset
<1>4. Cardinality(T) \in Nat
  BY <1>3, FS_CardinalityType
<1> QED
  BY <1>1, <1>2, <1>3, <1>4

OneMoved(R, F, S, T) ==
    /\ Cardinality(S) \in Nat /\ Cardinality(T) \in Nat
    /\ Cardinality(S) + Cardinality(T) <= Cardinality(R) + Cardinality(F)

LEMMA RunMoves ==
    ASSUME NEW R, NEW F, NEW T, NEW n, NEW h, IsFiniteSet(R), IsFiniteSet(F), h \in F,
           T \subseteq F \ {h}
    PROVE  OneMoved(R, F, R \cup {n}, T)
<1>1. Cardinality(R \cup {n}) <= Cardinality(R) + 1 /\ Cardinality(R \cup {n}) \in Nat
  BY AtMostOneMore
<1>2. IsFiniteSet(T)
  <2>1. IsFiniteSet(F \ {h})
    BY FS_RemoveElement
  <2> QED
    BY <2>1, FS_Subset
<1>3. Cardinality(T) + 1 <= Cardinality(F)
  <2>1. h \notin T /\ T \cup {h} \subseteq F
    OBVIOUS
  <2> QED
    BY <1>2, <2>1, OneMore
<1>4. Cardinality(T) \in Nat /\ Cardinality(R) \in Nat /\ Cardinality(F) \in Nat
  BY <1>2, FS_CardinalityType
<1> QED
  BY <1>1, <1>3, <1>4 DEF OneMoved

LEMMA AppendCleared ==
    ASSUME Sound, Sound', ClearedOK, NEW h \in Handler, AppendEvent(h)
    PROVE  ClearedOK'
<1>1. call[h].op = "append"
  BY DEF AppendEvent
<1>2. PICK e \in Entry : e = call[h].event
  BY <1>1, AppendingThread
<1>3. trail' = Append(trail, e) /\ UNCHANGED epoch
  BY <1>2 DEF AppendEvent
<1>4. PICK n : n = Len(trail) + 1
  OBVIOUS
<1>5. /\ \A i \in 1..Len(trail) : i \in 1..Len(trail') /\ trail'[i] = trail[i] /\ i # n
      /\ \A i \in 1..Len(trail') : i \in 1..Len(trail) \/ i = n
      /\ n \in 1..Len(trail') /\ trail'[n] = e
  BY <1>3, <1>4, Appended
<1>6. PICK id \in Nat : id = e.action.id
  BY DEF Entry, Act
<1>7. call[h].action.id = id /\ e.epoch = call[h].epoch
  BY <1>1, <1>2, <1>6, AppendingThread
<1>8. PICK c : /\ call' = [call EXCEPT ![h] = c]
               /\ c.op \in {"idle", "strategize", "gate", "execute"}
               /\ c.op = "execute" => call[h].next = "execute" /\ c.action.id = id
  BY <1>7, Appender
<1>9. Pending(c)
  BY <1>8 DEF Pending
<1>10. /\ e.type = "action_executed" => call[h].next # "execute"
       /\ call[h].next = "execute" =>
              /\ e.type \in {"policy_evaluated", "human_review_decided"}
              /\ e.outcome = "approved"
  BY <1>1, <1>2 DEF ClearedOK, Pending
<1>11. PICK ran : ran = (e.type = "action_executed" /\ e.epoch = epoch)
  OBVIOUS
<1>12. \A x \in Nat : RunFor(x)' = IF ran /\ x = id THEN RunFor(x) \cup {n} ELSE RunFor(x)
  BY <1>3, <1>5, <1>6, <1>11 DEF RunFor, Executed, Of
<1>13. \A x \in Nat : ClearedFor(x) \subseteq ClearedFor(x)'
  BY <1>5 DEF ClearedFor, Clearances, Of
<1>14. call[h].next = "execute" => n \in ClearedFor(id)' \ ClearedFor(id)
  BY <1>5, <1>6, <1>10 DEF ClearedFor, Clearances, Of
<1>15. \A x \in Nat : InFlight(x)' \subseteq
           IF call[h].next = "execute" /\ x = id THEN InFlight(x) \cup {h}
           ELSE InFlight(x) \ {h}
  <2> SUFFICES ASSUME NEW x \in Nat, NEW g \in InFlight(x)'
               PROVE  IF call[h].next = "execute" /\ x = id THEN g \in InFlight(x) \cup {h}
                      ELSE g \in InFlight(x) \ {h}
    BY Zenon
  <2>1. g \in Handler /\ Flying(call'[g]) /\ call'[g].action.id = x
    BY <1>3 DEF InFlight, Flying
  <2>2. call'[g] = IF g = h THEN c ELSE call[g]
    BY <1>8, <2>1 DEF Sound, CallsTyped
  <2>3. g = h => call[h].next = "execute" /\ x = id
    BY <1>8, <2>1, <2>2 DEF Flying, Acting
  <2>4. g # h => g \in InFlight(x)
    BY <2>1, <2>2 DEF InFlight
  <2> QED
    BY <2>3, <2>4
<1>16. ran => h \in InFlight(id)
  BY <1>1, <1>2, <1>7, <1>11 DEF InFlight, Flying
<1>17. ASSUME NEW x \in Nat
       PROVE  Counted(x)'
  <2>1. Counted(x)
    BY DEF ClearedOK
  <2>2. IsFiniteSet(ClearedFor(x)')
    <3>1. ClearedFor(x)' \subseteq 1..Len(trail') /\ Len(trail') \in Nat
      BY <1>3, Appended DEF ClearedFor, Clearances, Of
    <3>2. IsFiniteSet(1..Len(trail'))
      BY <3>1, FS_Interval
    <3> QED
      BY <3>1, <3>2, FS_Subset
  <2>3. PICK R : R = RunFor(x)'
    OBVIOUS
  <2>4. PICK F : F = InFlight(x)'
    OBVIOUS
  <2>5. PICK C : C = ClearedFor(x)' /\ IsFiniteSet(C)
    BY <2>2
  <2>6. CASE ran /\ x = id
    <3>1. R = RunFor(x) \cup {n} /\ F \subseteq InFlight(x) \ {h} /\ h \in InFlight(x)
      BY <1>10, <1>11, <1>12, <1>15, <1>16, <2>3, <2>4, <2>6
    <3>2. OneMoved(RunFor(x), InFlight(x), R, F)
      BY <3>1, AllFinite, RunMoves
    <3>3. Cardinality(ClearedFor(x)) <= Cardinality(C) /\ Cardinality(C) \in Nat
      <4>1. ClearedFor(x) \in SUBSET C
        BY <1>13, <2>5
      <4> QED
        BY <2>5, <4>1, FS_Subset, FS_CardinalityType
    <3>4. Cardinality(R) + Cardinality(F) <= Cardinality(C)
      BY <2>1, <3>2, <3>3, AllFinite DEF Counted, OneMoved
    <3> QED
      BY <2>3, <2>4, <2>5, <3>4 DEF Counted
  <2>7. CASE call[h].next = "execute" /\ x = id
    <3>1. R = RunFor(x) /\ F \subseteq InFlight(x) \cup {h}
      BY <1>10, <1>11, <1>12, <1>15, <2>3, <2>4, <2>7
    <3>2. ClearedFor(x) \cup {n} \subseteq C /\ n \notin ClearedFor(x)
      BY <1>13, <1>14, <2>5, <2>7
    <3>3. Cardinality(ClearedFor(x)) + 1 <= Cardinality(C) /\ Cardinality(C) \in Nat
      BY <2>5, <3>2, AllFinite, OneMore
    <3>4. Cardinality(F) <= Cardinality(InFlight(x)) + 1 /\ Cardinality(F) \in Nat
      BY <3>1, AllFinite, AtMostOneMore
    <3>5. Cardinality(R) + Cardinality(F) <= Cardinality(C)
      BY <2>1, <3>1, <3>3, <3>4, AllFinite DEF Counted
    <3> QED
      BY <2>3, <2>4, <2>5, <3>5 DEF Counted
  <2>8. CASE ~(ran /\ x = id) /\ ~(call[h].next = "execute" /\ x = id)
    <3>1. R \subseteq RunFor(x) /\ F \subseteq InFlight(x) /\ ClearedFor(x) \subseteq C
      BY <1>12, <1>13, <1>15, <2>3, <2>4, <2>5, <2>8
    <3>2. Cardinality(R) + Cardinality(F) <= Cardinality(C)
      BY <2>1, <2>5, <3>1, StillCounted
    <3> QED
      BY <2>3, <2>4, <2>5, <3>2 DEF Counted
  <2> QED
    BY <2>6, <2>7, <2>8
<1>18. ASSUME NEW i \in Executed'
       PROVE  Cardinality({j \in Executed : j <= i /\ trail[j].action.id = trail[i].action.id})'
              <= Cardinality({j \in Clearances : j < i /\ trail[j].action.id = trail[i].action.id})'
  <2>1. CASE i \in 1..Len(trail)
    BY <1>3, <2>1, OldStayCleared
  <2>2. CASE i = n
    <3>1. ran /\ trail'[i].action.id = id
      BY <1>3, <1>5, <1>6, <1>11, <2>2 DEF Executed, Of
    <3>2. {j \in Executed' : j <= i /\ trail'[j].action.id = trail'[i].action.id} = RunFor(id)'
      <4>1. \A j \in Executed' : j <= n
        BY <1>4, <1>5, Appended, <1>3 DEF Executed, Of
      <4> QED
        BY <2>2, <3>1, <4>1 DEF RunFor
    <3>3. {j \in Clearances' : j < i /\ trail'[j].action.id = trail'[i].action.id} =
          ClearedFor(id)'
      <4>1. \A j \in Clearances' : j < n
        <5>1. n \notin Clearances'
          BY <1>5, <1>11, <3>1 DEF Clearances, Of
        <5>2. \A j \in Clearances' : j \in 1..Len(trail)
          BY <1>5, <5>1 DEF Clearances, Of
        <5> QED
          BY <1>3, <1>4, <5>2, Appended
      <4> QED
        BY <2>2, <3>1, <4>1 DEF ClearedFor
    <3>4. Counted(id)'
      BY <1>17
    <3>5. /\ Cardinality(RunFor(id)') \in Nat /\ Cardinality(InFlight(id)') \in Nat
          /\ Cardinality(ClearedFor(id)') \in Nat
      <4>1. /\ RunFor(id)' \subseteq 1..Len(trail') /\ Len(trail') \in Nat
            /\ ClearedFor(id)' \subseteq 1..Len(trail')
        BY <1>3, Appended DEF RunFor, Executed, ClearedFor, Clearances, Of
      <4>2. InFlight(id)' \subseteq Handler
        BY DEF InFlight
      <4>3. IsFiniteSet(1..Len(trail'))
        BY <4>1, FS_Interval
      <4>4. /\ IsFiniteSet(RunFor(id)') /\ IsFiniteSet(InFlight(id)')
            /\ IsFiniteSet(ClearedFor(id)')
        BY <4>1, <4>2, <4>3, FS_Subset, CaseAssumption
      <4> QED
        BY <4>4, FS_CardinalityType
    <3>6. Cardinality(RunFor(id)') <= Cardinality(ClearedFor(id)')
      BY <3>4, <3>5 DEF Counted
    <3> QED
      BY <3>2, <3>3, <3>6
  <2>3. i \in 1..Len(trail) \/ i = n
    BY <1>5 DEF Executed, Of
  <2> QED
    BY <2>1, <2>2, <2>3
<1>19. ExecutionsAreCleared'
  BY <1>18 DEF ExecutionsAreCleared
<1> QED
  BY <1>8, <1>9, <1>17, <1>19, AllPending DEF ClearedOK

LEMMA DeleteCleared ==
    ASSUME Sound, ClearedOK, NEW h \in Handler, DeleteAll(h)
    PROVE  ClearedOK'
<1>1. trail' = <<>> /\ epoch' = epoch + 1 /\ epoch \in Nat
  BY DEF DeleteAll, Sound
<1>2. Len(trail') = 0
  BY <1>1
<1>3. ExecutionsAreCleared'
  BY <1>2 DEF ExecutionsAreCleared, Executed, Of
<1>4. PICK c : c = [call[h] EXCEPT !.op = "seed", !.row = NoCase, !.epoch = epoch + 1]
  OBVIOUS
<1>5. c.op = "seed"
  <2>1. PICK d \in Work : d = call[h]
    BY Working DEF DeleteAll, Op
  <2>2. d = [op |-> d.op, row |-> d.row, action |-> d.action, at |-> d.at, epoch |-> d.epoch]
    BY DEF Work
  <2>3. c = [op |-> "seed", row |-> NoCase, action |-> d.action, at |-> d.at,
             epoch |-> epoch + 1]
    BY <1>4, <2>1, <2>2
  <2> QED
    BY <2>3
<1>6. call' = [call EXCEPT ![h] = c]
  BY <1>4 DEF DeleteAll
<1>7. (\A g \in Handler : Pending(call[g]))'
  BY <1>5, <1>6, AllPending DEF Pending
<1>8. \A g \in Handler : ~Flying(call[g])'
  <2> SUFFICES ASSUME NEW g \in Handler PROVE ~Flying(call[g])'
    OBVIOUS
  <2>1. call'[g] = IF g = h THEN c ELSE call[g]
    BY <1>6 DEF Sound, CallsTyped
  <2>2. CASE g = h
    BY <1>5, <2>1, <2>2 DEF Flying, Acting
  <2>3. CASE g # h /\ call[g] = Idle
    BY <2>1, <2>3 DEF Flying, Idle, Acting
  <2>4. CASE g # h /\ CallOK(call[g])
    <3>1. call[g].epoch \in Nat /\ call[g].epoch <= epoch
      BY <2>4 DEF CallOK, Work, Saved
    <3> QED
      BY <1>1, <2>1, <2>4, <3>1 DEF Flying
  <2> QED
    BY <2>2, <2>3, <2>4 DEF Sound, CallsTyped
<1>9. ASSUME NEW id \in Nat
      PROVE  Counted(id)'
  <2>1. RunFor(id)' = {} /\ ClearedFor(id)' = {}
    BY <1>2 DEF RunFor, ClearedFor, Executed, Clearances, Of
  <2>2. InFlight(id)' = {}
    BY <1>8 DEF InFlight
  <2> QED
    BY <2>1, <2>2, FS_EmptySet DEF Counted
<1> QED
  BY <1>3, <1>7, <1>9 DEF ClearedOK

LEMMA CrashCleared ==
    ASSUME Sound, ClearedOK, NEW logged \in BOOLEAN, Crash(logged)
    PROVE  ClearedOK'
<1>1. UNCHANGED epoch /\ call' = [h \in Handler |-> Idle]
  BY DEF Crash
<1>2. \A g \in Handler : Pending(call[g])'
  <2> SUFFICES ASSUME NEW g \in Handler PROVE Pending(call'[g])
    BY DEF Pending
  <2>1. call'[g] = Idle
    BY <1>1
  <2> QED
    BY <2>1 DEF Pending, Idle
<1>3. \A id \in Nat : InFlight(id)' = {}
  <2>1. \A g \in Handler : call'[g] = Idle
    BY <1>1
  <2> QED
    BY <2>1 DEF InFlight, Flying, Idle, Acting
<1>4. /\ \A id \in Nat : RunFor(id)' = RunFor(id) /\ ClearedFor(id)' = ClearedFor(id)
      /\ ExecutionsAreCleared'
  <2>1. CASE trail' = trail
    BY <1>1, <2>1 DEF RunFor, ClearedFor, Executed, Clearances, Of, ClearedOK,
                      ExecutionsAreCleared
  <2>2. CASE trail' # trail
    <3>1. PICK e \in Entry :
              e = [Event("case_detected") EXCEPT !.to = SeedRow.status, !.epoch = epoch]
      BY Beginnings DEF Sound
    <3>2. e.type = "case_detected"
      BY <3>1 DEF Event
    <3>3. trail' = Append(trail, e)
      BY <2>2, <3>1 DEF Crash
    <3>4. Executed' = Executed /\ Clearances' = Clearances
      BY <1>1, <3>2, <3>3, Appended DEF Executed, Clearances, Of
    <3>5. \A i \in Executed \cup Clearances : i \in 1..Len(trail) /\ trail'[i] = trail[i]
      BY <3>3, Appended DEF Executed, Clearances, Of
    <3>6. ExecutionsAreCleared'
      BY <1>1, <3>3, <3>4, <3>5, OldStayCleared DEF ExecutionsAreCleared
    <3> QED
      BY <3>4, <3>5, <3>6 DEF RunFor, ClearedFor
  <2> QED
    BY <2>1, <2>2
<1>5. ASSUME NEW id \in Nat
      PROVE  Counted(id)'
  <2>1. Cardinality({}) = 0
    BY FS_EmptySet
  <2>2. Cardinality(RunFor(id)) + 0 <= Cardinality(ClearedFor(id))
    <3>1. Counted(id)
      BY DEF ClearedOK
    <3> QED
      BY <3>1, AllFinite DEF Counted
  <2> QED
    BY <1>3, <1>4, <2>1, <2>2 DEF Counted
<1> QED
  BY <1>2, <1>4, <1>5 DEF ClearedOK

LEMMA UnchangedCleared ==
    ASSUME ClearedOK, UNCHANGED <<trail, epoch, call>>
    PROVE  ClearedOK'
<1>1. Executed' = Executed /\ Clearances' = Clearances
  BY DEF Executed, Clearances, Of
<1>2. \A id \in Nat : /\ RunFor(id)' = RunFor(id) /\ ClearedFor(id)' = ClearedFor(id)
                      /\ InFlight(id)' = InFlight(id)
  BY <1>1 DEF RunFor, ClearedFor, InFlight, Flying
<1>3. ExecutionsAreCleared'
  BY <1>1 DEF ClearedOK, ExecutionsAreCleared
<1> QED
  BY <1>2, <1>3 DEF ClearedOK, Counted, Pending

LEMMA NextCleared ==
    ASSUME Sound, Sound', ClearedOK, [Next]_vars
    PROVE  ClearedOK'
<1>1. ASSUME NEW h \in Handler, SavesIdly(h)
      PROVE  ClearedOK'
  <2>1. PICK action \in Act, type \in EventType \ {"action_executed"}, outcome \in Outcome,
             next \in {"strategize", "gate", "done"} : Saves(h, action, type, outcome, next)
    BY <1>1 DEF SavesIdly
  <2> QED
    BY <2>1, SavesCleared
<1>2. ASSUME NEW h \in Handler, Clears(h)
      PROVE  ClearedOK'
  <2>1. PICK type \in {"policy_evaluated", "human_review_decided"} :
            Saves(h, call[h].action, type, "approved", "execute")
    BY <1>2 DEF Clears, ClearsBy
  <2> QED
    BY <2>1, SavesCleared
<1>3. ASSUME NEW h \in Handler, SaveExecuted(h),
             Saves(h, call[h].action, "action_executed", call[h].op, "done")
      PROVE  ClearedOK'
  <2>1. call[h].op \in {"executed", "replay"}
    BY <1>3 DEF SaveExecuted
  <2> QED
    BY <1>3, <2>1, SavesCleared
<1>4. CASE SaveOther
  BY <1>4, UnchangedCleared DEF SaveOther
<1>5. CASE UNCHANGED vars
  BY <1>5, UnchangedCleared DEF vars
<1>6. Kinds
  BY NextKinds
<1> QED
  BY <1>1, <1>2, <1>3, <1>4, <1>5, <1>6, ProceedsCleared, ExecutorCleared, AppendCleared,
     DeleteCleared, CrashCleared DEF Kinds

LEMMA InitCleared ==
    ASSUME Init
    PROVE  ClearedOK
<1>1. PICK e \in Entry : e = [Event("case_detected") EXCEPT !.to = SeedRow.status]
  BY Beginnings
<1>2. e.type = "case_detected"
  BY <1>1 DEF Event
<1>3. Len(trail) = 1 /\ trail[1] = e
  BY <1>1 DEF Init
<1>4. Executed = {} /\ Clearances = {}
  BY <1>2, <1>3 DEF Executed, Clearances, Of
<1>5. \A h \in Handler : call[h] = Idle
  BY DEF Init
<1>6. \A id \in Nat : RunFor(id) = {} /\ ClearedFor(id) = {} /\ InFlight(id) = {}
  BY <1>4, <1>5 DEF RunFor, ClearedFor, InFlight, Flying, Idle, Acting
<1>7. \A h \in Handler : Pending(call[h])
  BY <1>5 DEF Pending, Idle
<1>8. \A id \in Nat : Counted(id)
  BY <1>6, FS_EmptySet DEF Counted
<1> QED
  BY <1>4, <1>7, <1>8 DEF ClearedOK, ExecutionsAreCleared

\* Whatever the threads, the agents and the resets: every execution that the
\* trail of the current tables shows has a clearance of its own before it,
\* given by the gate or by a person to an action of that name.
THEOREM ExecutionsAreAlwaysCleared == Spec => []ExecutionsAreCleared
<1>1. Init => ClearedOK
  BY InitCleared
<1>2. Sound /\ Sound' /\ ClearedOK /\ [Next]_vars => ClearedOK'
  BY NextCleared
<1>3. ClearedOK => ExecutionsAreCleared
  BY DEF ClearedOK
<1> QED
  BY <1>1, <1>2, <1>3, AlwaysSound, PTL DEF Spec

-----------------------------------------------------------------------------
\* One request at a time: what is about to have its effect has had none.

\* The thread is to have the effect of its action, or has just had it.
Effecting(c) ==
    /\ c.epoch = epoch
    /\ \/ c.op \in {"mark", "executed"}
       \/ /\ c.op = "append" /\ c.event.type = "action_executed"
          /\ c.event.outcome = "executed"

Fresh(id) == \A i \in Effects : trail[i].action.id # id

OnceOK ==
    /\ \A h \in Handler : Effecting(call[h]) => Fresh(call[h].action.id)
    /\ ActionRunsOnce

LEMMA AllFresh ==
    ASSUME Sound, OnceOK, NEW h \in Handler, NEW c, call' = [call EXCEPT ![h] = c],
           UNCHANGED <<trail, epoch>>, Effecting(c) => Fresh(c.action.id)
    PROVE  OnceOK'
<1>1. Effects' = Effects
  BY DEF Effects, Executed, Of
<1>2. ActionRunsOnce'
  BY <1>1 DEF OnceOK, ActionRunsOnce
<1>3. ASSUME NEW g \in Handler, Effecting(call[g])'
      PROVE  Fresh(call[g].action.id)'
  <2>1. call'[g] = IF g = h THEN c ELSE call[g]
    BY DEF Sound, CallsTyped
  <2>2. Effecting(call'[g])
    BY <1>3 DEF Effecting
  <2>3. Fresh(call'[g].action.id)
    BY <2>1, <2>2 DEF OnceOK
  <2> QED
    BY <1>1, <2>3 DEF Fresh
<1> QED
  BY <1>2, <1>3 DEF OnceOK

LEMMA SavesOnce ==
    ASSUME Sound, OnceOK, NEW h \in Handler, NEW action, NEW type, NEW outcome, NEW next,
           Saves(h, action, type, outcome, next),
           type = "action_executed" => action = call[h].action /\ outcome = call[h].op
    PROVE  OnceOK'
<1>1. PICK c : /\ call' = [call EXCEPT ![h] = c]
               /\ c.op = "append" /\ c.action = action /\ c.epoch = call[h].epoch
               /\ c.event.type = type /\ c.event.outcome = outcome
  BY DEF Saves
<1>2. Effecting(c) => Effecting(call[h]) /\ c.action = call[h].action
  BY <1>1 DEF Effecting
<1>3. Effecting(c) => Fresh(c.action.id)
  BY <1>2 DEF OnceOK
<1> QED
  BY <1>1, <1>3, AllFresh DEF Saves

LEMMA ProceedsOnce ==
    ASSUME Sound, OnceOK, NEW h \in Handler, Proceeds(h)
    PROVE  OnceOK'
<1>1. PICK c : call' = [call EXCEPT ![h] = c] /\ c.op \notin Acting \cup {"append"}
  BY DEF Proceeds
<1>2. ~Effecting(c)
  BY <1>1 DEF Effecting, Acting
<1> QED
  BY <1>1, <1>2, AllFresh DEF Proceeds

\* What has run under the name is done in the ledger, and replayed.
LEMMA RegisterOnce ==
    ASSUME Sound, LedgerOK, OnceOK, NEW h \in Handler, Register(h)
    PROVE  OnceOK'
<1>1. call[h] \in Work
  BY Working DEF Register, Op
<1>2. PICK a : a = call[h].action
  OBVIOUS
<1>3. \/ call' = [call EXCEPT ![h] = Idle]
      \/ call' = [call EXCEPT ![h] = [call[h] EXCEPT !.op = "replay"]]
      \/ /\ call' = [call EXCEPT ![h] = [call[h] EXCEPT !.op = "mark"]]
         /\ ledger[a.id].status # "succeeded"
  BY <1>2 DEF Register, Return, Continue
<1>4. UNCHANGED <<trail, epoch>>
  BY DEF Register
<1>5. CASE call' = [call EXCEPT ![h] = Idle]
  <2>1. PICK c : c = Idle
    OBVIOUS
  <2>2. ~Effecting(c)
    BY <2>1 DEF Effecting, Idle
  <2> QED
    BY <1>4, <1>5, <2>1, <2>2, AllFresh
<1>6. CASE call' = [call EXCEPT ![h] = [call[h] EXCEPT !.op = "replay"]]
  <2>1. PICK c : c = [call[h] EXCEPT !.op = "replay"]
    OBVIOUS
  <2>2. ~Effecting(c)
    BY <1>1, <2>1 DEF Effecting, Work
  <2> QED
    BY <1>4, <1>6, <2>1, <2>2, AllFresh
<1>7. CASE /\ call' = [call EXCEPT ![h] = [call[h] EXCEPT !.op = "mark"]]
           /\ ledger[a.id].status # "succeeded"
  <2>1. PICK c : c = [call[h] EXCEPT !.op = "mark"]
    OBVIOUS
  <2>2. c.action = a
    BY <1>1, <1>2, <2>1 DEF Work
  <2>3. Fresh(a.id)
    <3> SUFFICES ASSUME NEW i \in Effects, trail[i].action.id = a.id
                 PROVE  FALSE
      BY DEF Fresh
    <3>1. ledger[a.id] = Done(trail[i].action)
      BY DEF LedgerOK, Ran, Effects
    <3>2. ledger[a.id].status = "succeeded"
      BY <3>1 DEF Done
    <3> QED
      BY <1>7, <3>2
  <2> QED
    BY <1>4, <1>7, <2>1, <2>2, <2>3, AllFresh
<1> QED
  BY <1>3, <1>5, <1>6, <1>7

LEMMA MarkOnce ==
    ASSUME Sound, OnceOK, NEW h \in Handler, MarkResult(h)
    PROVE  OnceOK'
<1>1. call[h] \in Work /\ call[h].op = "mark"
  BY Working DEF MarkResult, Op
<1>2. UNCHANGED <<trail, epoch>>
  BY DEF MarkResult
<1>3. CASE Return(h)
  <2>1. PICK c : c = Idle
    OBVIOUS
  <2>2. ~Effecting(c)
    BY <2>1 DEF Effecting, Idle
  <2> QED
    BY <1>2, <1>3, <2>1, <2>2, AllFresh DEF Return
<1>4. CASE Continue(h, "executed")
  <2>1. PICK c : c = [call[h] EXCEPT !.op = "executed"]
    OBVIOUS
  <2>2. c.action = call[h].action /\ c.epoch = call[h].epoch
    BY <1>1, <2>1 DEF Work
  <2>3. Effecting(c) => Effecting(call[h])
    BY <1>1, <2>2 DEF Effecting
  <2>4. Effecting(c) => Fresh(c.action.id)
    BY <2>2, <2>3 DEF OnceOK
  <2> QED
    BY <1>2, <1>4, <2>1, <2>4, AllFresh DEF Continue
<1> QED
  BY <1>3, <1>4 DEF MarkResult

\* With one thread, nobody else is about to have the same effect.
LEMMA AppendOnce ==
    ASSUME Sound, OnceOK, NEW h \in Handler, Handler = {h}, AppendEvent(h)
    PROVE  OnceOK'
<1>1. call[h].op = "append"
  BY DEF AppendEvent
<1>2. PICK e \in Entry : e = call[h].event
  BY <1>1, AppendingThread
<1>3. trail' = Append(trail, e) /\ UNCHANGED epoch
  BY <1>2 DEF AppendEvent
<1>4. PICK c : /\ call' = [call EXCEPT ![h] = c]
               /\ c.op \in {"idle", "strategize", "gate", "execute"}
  BY Appender
<1>5. \A g \in Handler : ~Effecting(call[g])'
  <2>1. \A g \in Handler : call'[g] = c
    BY <1>4 DEF Sound, CallsTyped
  <2> QED
    BY <1>4, <2>1 DEF Effecting
<1>6. e.epoch = epoch /\ e.type = "action_executed" /\ e.outcome = "executed" =>
          Fresh(e.action.id)
  <2>1. e.epoch = call[h].epoch /\ e.action = call[h].action
    BY <1>1, <1>2, AppendingThread
  <2> QED
    BY <1>1, <1>2, <2>1 DEF OnceOK, Effecting
<1>7. \A i \in Effects' : \/ i \in Effects /\ trail'[i] = trail[i]
                          \/ /\ i = Len(trail) + 1 /\ trail'[i] = e
                             /\ Fresh(e.action.id)
  BY <1>3, <1>6, Appended DEF Effects, Executed, Of
<1>8. ActionRunsOnce'
  <2> SUFFICES ASSUME NEW i \in Effects', NEW j \in Effects',
                      trail'[i].action.id = trail'[j].action.id
               PROVE  i = j
    BY DEF ActionRunsOnce
  <2> QED
    BY <1>7 DEF Fresh, OnceOK, ActionRunsOnce
<1> QED
  BY <1>5, <1>8 DEF OnceOK

LEMMA DeleteOnce ==
    ASSUME NEW h \in Handler, DeleteAll(h)
    PROVE  OnceOK'
<1>1. Len(trail') = 0
  BY DEF DeleteAll
<1>2. Effects' = {}
  BY <1>1 DEF Effects, Executed, Of
<1> QED
  BY <1>2 DEF OnceOK, Fresh, ActionRunsOnce

LEMMA CrashOnce ==
    ASSUME Sound, OnceOK, NEW logged \in BOOLEAN, Crash(logged)
    PROVE  OnceOK'
<1>1. UNCHANGED epoch /\ \A g \in Handler : call'[g] = Idle
  BY DEF Crash
<1>2. \A g \in Handler : ~Effecting(call[g])'
  BY <1>1 DEF Effecting, Idle
<1>3. ActionRunsOnce'
  <2>1. CASE trail' = trail
    BY <1>1, <2>1 DEF OnceOK, ActionRunsOnce, Effects, Executed, Of
  <2>2. CASE trail' # trail
    <3>1. PICK e \in Entry :
              e = [Event("case_detected") EXCEPT !.to = SeedRow.status, !.epoch = epoch]
      BY Beginnings DEF Sound
    <3>2. e.type = "case_detected"
      BY <3>1 DEF Event
    <3>3. trail' = Append(trail, e)
      BY <2>2, <3>1 DEF Crash
    <3>4. \A i \in Effects' : i \in Effects /\ trail'[i] = trail[i]
      BY <1>1, <3>2, <3>3, Appended DEF Effects, Executed, Of
    <3> QED
      BY <3>4 DEF OnceOK, ActionRunsOnce
  <2> QED
    BY <2>1, <2>2
<1> QED
  BY <1>2, <1>3 DEF OnceOK

LEMMA UnchangedOnce ==
    ASSUME OnceOK, UNCHANGED <<trail, epoch, call>>
    PROVE  OnceOK'
BY DEF OnceOK, Effecting, Fresh, ActionRunsOnce, Effects, Executed, Of

LEMMA NextOnce ==
    ASSUME NEW h0, Handler = {h0}, Sound, LedgerOK, OnceOK, [Next]_vars
    PROVE  OnceOK'
<1>1. ASSUME NEW h \in Handler, SavesIdly(h)
      PROVE  OnceOK'
  <2>1. PICK action \in Act, type \in EventType \ {"action_executed"}, outcome \in Outcome,
             next \in {"strategize", "gate", "done"} : Saves(h, action, type, outcome, next)
    BY <1>1 DEF SavesIdly
  <2> QED
    BY <2>1, SavesOnce
<1>2. ASSUME NEW h \in Handler, Clears(h)
      PROVE  OnceOK'
  <2>1. PICK type \in {"policy_evaluated", "human_review_decided"} :
            Saves(h, call[h].action, type, "approved", "execute")
    BY <1>2 DEF Clears, ClearsBy
  <2> QED
    BY <2>1, SavesOnce
<1>3. ASSUME NEW h \in Handler,
             Saves(h, call[h].action, "action_executed", call[h].op, "done")
      PROVE  OnceOK'
  BY <1>3, SavesOnce
<1>4. ASSUME NEW h \in Handler, AppendEvent(h)
      PROVE  OnceOK'
  BY <1>4, AppendOnce
<1>5. CASE SaveOther
  BY <1>5, UnchangedOnce DEF SaveOther
<1>6. CASE UNCHANGED vars
  BY <1>6, UnchangedOnce DEF vars
<1>7. Kinds
  BY NextKinds
<1> QED
  BY <1>1, <1>2, <1>3, <1>4, <1>5, <1>6, <1>7, ProceedsOnce, RegisterOnce, MarkOnce,
     DeleteOnce, CrashOnce DEF Kinds

LEMMA InitOnce ==
    ASSUME Init
    PROVE  OnceOK
<1>1. PICK e \in Entry : e = [Event("case_detected") EXCEPT !.to = SeedRow.status]
  BY Beginnings
<1>2. e.type = "case_detected"
  BY <1>1 DEF Event
<1>3. Len(trail) = 1 /\ trail[1] = e
  BY <1>1 DEF Init
<1>4. Effects = {}
  BY <1>2, <1>3 DEF Effects, Executed, Of
<1> QED
  BY <1>4 DEF OnceOK, Fresh, ActionRunsOnce

LEMMA AlwaysInLedger == Spec => []LedgerOK
<1>1. Init => LedgerOK
  BY InitLedger
<1>2. Sound /\ LedgerOK /\ [Next]_vars => LedgerOK'
  BY NextLedger
<1> QED
  BY <1>1, <1>2, AlwaysSound, PTL DEF Spec

\* With one thread, whatever crashes, reviews and replays there are, an action
\* has its effect at most once between two resets.
THEOREM ActionRunsOnceAlone ==
    ASSUME NEW h0, Handler = {h0}
    PROVE  Spec => []ActionRunsOnce
<1>1. Init => OnceOK
  BY InitOnce
<1>2. Sound /\ LedgerOK /\ OnceOK /\ [Next]_vars => OnceOK'
  BY NextOnce
<1>3. OnceOK => ActionRunsOnce
  BY DEF OnceOK
<1> QED
  BY <1>1, <1>2, <1>3, AlwaysSound, AlwaysInLedger, PTL DEF Spec

-----------------------------------------------------------------------------
\* One request at a time: what comes after an objection is a person's doing.

Objections == {j \in Of("reply_interpreted") : trail[j].outcome \in Objection}

\* A person has approved the action since.
Heard(id) ==
    \E k \in Of("human_review_decided") :
        /\ trail[k].outcome = "approved" /\ trail[k].action.id = id
        /\ \A j \in Objections : j < k

\* The only thread works with the row that is stored; once an objection is in
\* the trail it executes, or is about to, only what a person has approved.
Mindful(c) ==
    /\ c.op # "idle" => c.row = case
    /\ c.op \in {"seed", "seed_case"} => case = NoCase
    /\ c.op = "append" /\ c.event.type = "reply_interpreted" /\ c.event.outcome \in Objection =>
           Objecting(case)
    /\ Objections # {} =>
           /\ c.op \in Acting => Heard(c.action.id)
           /\ c.op = "append" =>
                  /\ c.event.type = "action_executed" => Heard(c.action.id)
                  /\ c.next = "execute" => c.event.type = "human_review_decided"

Remembered == Objections # {} => case # NoCase /\ Objecting(case)

ObjectionOK ==
    /\ \A h \in Handler : Mindful(call[h])
    /\ Remembered /\ ObjectionNeedsHuman

\* With these rules of the policy the gate lets nothing of an objector pass.
LEMMA ObjectorsWait ==
    ASSUME Policy.escalateOnDispute, Policy.escalateOnOptout, NEW row, Objecting(row),
           NEW action, NEW remaining, NEW now
    PROVE  Evaluate(action, GateInput(row), remaining, now, Policy).decision # "approved"
<1>1. PICK c : c = GateInput(row)
  OBVIOUS
<1>2. c.dispute \/ c.optOut
  BY <1>1 DEF GateInput, Objecting
<1>3. /\ CaseChecks(c, Policy) # Pass
      /\ CaseChecks(c, Policy).decision # "approved"
  BY <1>2 DEF CaseChecks, Reject, Escalate, Pass
<1> QED
  BY <1>1, <1>3 DEF Evaluate, Then

LEMMA MindfulStep ==
    ASSUME NEW h \in Handler, Handler = {h}, Sound, ObjectionOK, NEW c,
           call' = [call EXCEPT ![h] = c], UNCHANGED <<trail, epoch>>, Mindful(c)',
           Objections # {} => case' # NoCase /\ Objecting(case')
    PROVE  ObjectionOK'
<1>1. Objections' = Objections
  BY DEF Objections, Of
<1>2. Remembered'
  <2> SUFFICES ASSUME Objections' # {} PROVE (case # NoCase /\ Objecting(case))'
    BY DEF Remembered
  <2> QED
    BY <1>1 DEF Objecting
<1>3. ObjectionNeedsHuman'
  BY DEF ObjectionOK, ObjectionNeedsHuman, Effects, Executed, Of
<1>4. ASSUME NEW g \in Handler
      PROVE  Mindful(call[g])'
  <2>1. call'[g] = c
    BY DEF Sound, CallsTyped
  <2> QED
    BY <2>1 DEF Mindful, Objections, Heard, Of, Objecting
<1> QED
  BY <1>2, <1>3, <1>4 DEF ObjectionOK

LEMMA SavesMindful ==
    ASSUME NEW h \in Handler, Handler = {h}, Sound, Sound', ObjectionOK, NEW action, NEW type,
           NEW outcome, NEW next, Saves(h, action, type, outcome, next),
           type = "action_executed" =>
               action = call[h].action /\ call[h].op \in {"executed", "replay"},
           type = "reply_interpreted" /\ outcome \in Objection => Objecting(case'),
           next = "execute" /\ Objections # {} => type = "human_review_decided"
    PROVE  ObjectionOK'
<1>1. PICK c : /\ call' = [call EXCEPT ![h] = c]
               /\ c.op = "append" /\ c.row = case' /\ c.action = action
               /\ c.next = next /\ c.event.type = type /\ c.event.outcome = outcome
  BY DEF Saves
<1>2. Mindful(call[h])
  BY DEF ObjectionOK
<1>3. UNCHANGED <<trail, epoch>>
  BY DEF Saves
<1>4. Objections # {} => case' # NoCase /\ Objecting(case')
  <2> SUFFICES ASSUME Objections # {} PROVE case' # NoCase /\ Objecting(case')
    OBVIOUS
  <2>1. call[h].op # "seed_case" /\ Objecting(call[h].row)
    BY <1>2 DEF Mindful, ObjectionOK, Remembered, Saves
  <2>2. call'[h] = c
    BY <1>1 DEF Sound, CallsTyped
  <2>3. c \in Saved
    BY <1>1, <2>2 DEF Sound, CallsTyped, Work, Op, Idle
  <2>4. case' # NoCase
    BY <1>1, <2>3, NothingIsAnAct DEF Saved
  <2> QED
    BY <2>1, <2>4 DEF Saves
<1>5. Mindful(c)'
  <2>1. Objections' = Objections /\ Of("human_review_decided")' = Of("human_review_decided")
    BY <1>3 DEF Objections, Of
  <2>2. Objections # {} /\ type = "action_executed" => Heard(action.id)
    BY <1>2 DEF Mindful, Acting
  <2>3. Objections # {} /\ type = "action_executed" => Heard(action.id)'
    BY <1>3, <2>1, <2>2 DEF Heard
  <2> QED
    BY <1>1, <2>1, <2>3 DEF Mindful, Acting, Objecting
<1> QED
  BY <1>1, <1>3, <1>4, <1>5, MindfulStep

LEMMA ProceedsMindful ==
    ASSUME NEW h \in Handler, Handler = {h}, Sound, ObjectionOK, Proceeds(h)
    PROVE  ObjectionOK'
<1>1. PICK c : /\ call' = [call EXCEPT ![h] = c]
               /\ c.op \notin Acting \cup {"append"}
               /\ c.op # "idle" => c.row = case \/ (call[h].op # "idle" /\ c.row = call[h].row)
               /\ c.op \in {"seed", "seed_case"} => case = NoCase
  BY DEF Proceeds
<1>2. UNCHANGED <<case, trail, epoch>>
  BY DEF Proceeds
<1>3. c.op # "idle" => c.row = case
  BY <1>1 DEF ObjectionOK, Mindful
<1>4. Mindful(c)'
  BY <1>1, <1>2, <1>3 DEF Mindful
<1>5. Objections # {} => case' # NoCase /\ Objecting(case')
  BY <1>2 DEF ObjectionOK, Remembered
<1> QED
  BY <1>1, <1>2, <1>4, <1>5, MindfulStep

LEMMA ExecutorMindful ==
    ASSUME NEW h \in Handler, Handler = {h}, Sound, ObjectionOK, Register(h) \/ MarkResult(h)
    PROVE  ObjectionOK'
<1>1. call[h] \in Work /\ call[h].op \in Acting
  BY Working DEF Register, MarkResult, Op, Acting
<1>2. UNCHANGED <<case, trail, epoch>>
  BY DEF Register, MarkResult
<1>3. Return(h) \/ \E op \in Acting : Continue(h, op)
  BY DEF Register, MarkResult, Acting
<1>4. Objections # {} => case' # NoCase /\ Objecting(case')
  BY <1>2 DEF ObjectionOK, Remembered
<1>5. CASE Return(h)
  <2>1. PICK c : c = Idle
    OBVIOUS
  <2>2. Mindful(c)'
    BY <2>1 DEF Mindful, Idle, Acting
  <2> QED
    BY <1>2, <1>4, <1>5, <2>1, <2>2, MindfulStep DEF Return
<1>6. ASSUME NEW op \in Acting, Continue(h, op)
      PROVE  ObjectionOK'
  <2>1. PICK c : c = [call[h] EXCEPT !.op = op]
    OBVIOUS
  <2>2. c.op = op /\ c.action = call[h].action /\ c.row = call[h].row
    BY <1>1, <2>1 DEF Work
  <2>3. c.row = case /\ (Objections # {} => Heard(c.action.id))
    BY <1>1, <2>2 DEF ObjectionOK, Mindful, Acting
  <2>4. Mindful(c)
    BY <2>2, <2>3 DEF Mindful, Acting
  <2>5. Mindful(c)'
    BY <1>2, <2>4 DEF Mindful, Objections, Heard, Of, Objecting
  <2> QED
    BY <1>2, <1>4, <1>6, <2>1, <2>5, MindfulStep DEF Continue
<1> QED
  BY <1>3, <1>5, <1>6

LEMMA AppendMindful ==
    ASSUME NEW h \in Handler, Handler = {h}, Sound, ClearedOK, ObjectionOK, AppendEvent(h)
    PROVE  ObjectionOK'
<1>1. call[h].op = "append" /\ Mindful(call[h]) /\ Pending(call[h])
  BY DEF AppendEvent, ObjectionOK, ClearedOK
<1>2. PICK e \in Entry : e = call[h].event
  BY <1>1, AppendingThread
<1>3. trail' = Append(trail, e) /\ UNCHANGED <<case, epoch>>
  BY <1>2 DEF AppendEvent
<1>4. PICK n : n = Len(trail) + 1
  OBVIOUS
<1>5. /\ \A i \in 1..Len(trail) : i \in 1..Len(trail') /\ trail'[i] = trail[i] /\ i < n
      /\ \A i \in 1..Len(trail') : i \in 1..Len(trail) \/ i = n
      /\ n \in 1..Len(trail') /\ trail'[n] = e
  BY <1>3, <1>4, Appended
<1>6. PICK c : /\ call' = [call EXCEPT ![h] = c]
               /\ c.op \in {"idle", "strategize", "gate", "execute"}
               /\ c.op # "idle" => c.row = case
               /\ c.op = "execute" => /\ call[h].next = "execute"
                                      /\ c.action = call[h].action
  <2>1. call[h].row = case
    BY <1>1 DEF Mindful
  <2>2. CASE call[h].next = "done"
    <3>1. PICK c : c = Idle
      OBVIOUS
    <3>2. c.op = "idle" /\ call' = [call EXCEPT ![h] = c]
      BY <2>2, <3>1 DEF AppendEvent, Idle
    <3> QED
      BY <3>2
  <2>3. CASE call[h].next # "done"
    <3>1. PICK c : c = [op |-> call[h].next, row |-> call[h].row, action |-> call[h].action,
                        at |-> call[h].at, epoch |-> call[h].epoch]
      OBVIOUS
    <3>2. /\ c.op = call[h].next /\ c.row = call[h].row /\ c.action = call[h].action
          /\ call' = [call EXCEPT ![h] = c]
      BY <2>3, <3>1 DEF AppendEvent
    <3>3. call[h].next \in {"strategize", "gate", "execute", "done"}
      BY <1>1, AppendingThread DEF Saved
    <3> QED
      BY <2>1, <2>3, <3>2, <3>3
  <2> QED
    BY <2>2, <2>3
<1>7. Objections' = IF e.type = "reply_interpreted" /\ e.outcome \in Objection
                    THEN Objections \cup {n} ELSE Objections
  BY <1>5 DEF Objections, Of
<1>8. Objections \subseteq 1..Len(trail)
  BY DEF Objections, Of
<1>9. Remembered'
  <2>1. call[h].row = case /\ call[h] \in Saved
    BY <1>1, AppendingThread DEF Mindful
  <2>2. case # NoCase
    BY <2>1, NothingIsAnAct DEF Saved
  <2>3. Objections' # {} => Objecting(case)
    BY <1>1, <1>2, <1>7 DEF Mindful, ObjectionOK, Remembered
  <2> QED
    BY <1>3, <2>2, <2>3 DEF Remembered, Objecting
<1>10. c.op = "execute" /\ Objections' # {} => Heard(c.action.id)'
  <2> SUFFICES ASSUME c.op = "execute", Objections' # {} PROVE Heard(c.action.id)'
    OBVIOUS
  <2>1. /\ e.type \in {"policy_evaluated", "human_review_decided"}
        /\ e.outcome = "approved"
    BY <1>1, <1>2, <1>6 DEF Pending
  <2>2. Objections' = Objections
    BY <1>7, <2>1
  <2>3. e.type = "human_review_decided"
    BY <1>1, <1>2, <1>6, <2>2 DEF Mindful
  <2>4. n \in Of("human_review_decided")'
    BY <1>5, <2>3 DEF Of
  <2>5. trail'[n].outcome = "approved" /\ trail'[n].action.id = c.action.id
    BY <1>1, <1>2, <1>5, <1>6, <2>1, AppendingThread
  <2>6. \A j \in Objections' : j < n
    BY <1>5, <1>8, <2>2
  <2> QED
    BY <2>4, <2>5, <2>6 DEF Heard
<1>11. (\A g \in Handler : Mindful(call[g]))'
  <2> SUFFICES ASSUME NEW g \in Handler PROVE Mindful(call[g])'
    OBVIOUS
  <2>1. call'[g] = c
    BY <1>6 DEF Sound, CallsTyped
  <2>2. Mindful(c)'
    BY <1>3, <1>6, <1>10 DEF Mindful, Acting
  <2> QED
    BY <2>1, <2>2 DEF Mindful, Heard
<1>12. ObjectionNeedsHuman'
  <2> SUFFICES ASSUME NEW i \in Effects', NEW j \in Objections', j < i
               PROVE  \E k \in Of("human_review_decided")' :
                          /\ j < k /\ k < i /\ trail'[k].outcome = "approved"
                          /\ trail'[k].action.id = trail'[i].action.id
    BY DEF ObjectionNeedsHuman, Objections, Objection
  <2>1. i \in 1..Len(trail')
    BY DEF Effects, Executed, Of
  <2>2. CASE i \in 1..Len(trail)
    <3>1. i \in Effects /\ trail'[i] = trail[i]
      BY <1>3, <1>5, <2>2 DEF Effects, Executed, Of
    <3>2. j \in Objections
      <4>1. j # n
        BY <1>4, <1>5, <2>2
      <4> QED
        BY <1>7, <4>1
    <3>3. PICK k \in Of("human_review_decided") :
              /\ j < k /\ k < i /\ trail[k].outcome = "approved"
              /\ trail[k].action.id = trail[i].action.id
      BY <3>1, <3>2 DEF ObjectionOK, ObjectionNeedsHuman, Objections, Objection
    <3>4. k \in Of("human_review_decided")' /\ trail'[k] = trail[k]
      BY <1>5 DEF Of
    <3> QED
      BY <3>1, <3>3, <3>4
  <2>3. CASE i = n
    <3>1. e.type = "action_executed"
      BY <1>5, <2>3 DEF Effects, Executed, Of
    <3>2. Objections' = Objections
      BY <1>7, <3>1
    <3>3. Heard(e.action.id)
      BY <1>1, <1>2, <3>1, <3>2, AppendingThread DEF Mindful
    <3>4. PICK k \in Of("human_review_decided") :
              /\ trail[k].outcome = "approved" /\ trail[k].action.id = e.action.id
              /\ \A o \in Objections : o < k
      BY <3>3 DEF Heard
    <3>5. k \in Of("human_review_decided")' /\ trail'[k] = trail[k] /\ k < n
      BY <1>5 DEF Of
    <3> QED
      BY <1>5, <2>3, <3>2, <3>4, <3>5
  <2> QED
    BY <1>5, <2>1, <2>2, <2>3
<1> QED
  BY <1>9, <1>11, <1>12 DEF ObjectionOK

LEMMA DeleteMindful ==
    ASSUME NEW h \in Handler, Handler = {h}, Sound, DeleteAll(h)
    PROVE  ObjectionOK'
<1>1. Len(trail') = 0 /\ case' = NoCase
  BY DEF DeleteAll
<1>2. Objections' = {} /\ Effects' = {}
  BY <1>1 DEF Objections, Effects, Executed, Of
<1>3. PICK c : c = [call[h] EXCEPT !.op = "seed", !.row = NoCase, !.epoch = epoch + 1]
  OBVIOUS
<1>4. c.op = "seed" /\ c.row = NoCase
  <2>1. PICK d \in Work : d = call[h]
    BY Working DEF DeleteAll, Op
  <2>2. d = [op |-> d.op, row |-> d.row, action |-> d.action, at |-> d.at, epoch |-> d.epoch]
    BY DEF Work
  <2>3. c = [op |-> "seed", row |-> NoCase, action |-> d.action, at |-> d.at,
             epoch |-> epoch + 1]
    BY <1>3, <2>1, <2>2
  <2> QED
    BY <2>3
<1>5. \A g \in Handler : call'[g] = c
  BY <1>3 DEF DeleteAll, Sound, CallsTyped
<1>6. (\A g \in Handler : Mindful(call[g]))'
  <2> SUFFICES ASSUME NEW g \in Handler PROVE Mindful(call[g])'
    OBVIOUS
  <2> QED
    BY <1>1, <1>2, <1>4, <1>5 DEF Mindful
<1> QED
  BY <1>2, <1>6 DEF ObjectionOK, Remembered, ObjectionNeedsHuman

LEMMA CrashMindful ==
    ASSUME Sound, ObjectionOK, NEW logged \in BOOLEAN, Crash(logged)
    PROVE  ObjectionOK'
<1>1. UNCHANGED epoch /\ \A g \in Handler : call'[g] = Idle
  BY DEF Crash
<1>2. (\A g \in Handler : Mindful(call[g]))'
  BY <1>1 DEF Mindful, Idle, Acting
<1>3. Objections' = Objections /\ ObjectionNeedsHuman'
  <2>1. CASE trail' = trail
    BY <1>1, <2>1 DEF Objections, ObjectionOK, ObjectionNeedsHuman, Effects, Executed, Of
  <2>2. CASE trail' # trail
    <3>1. PICK e \in Entry :
              e = [Event("case_detected") EXCEPT !.to = SeedRow.status, !.epoch = epoch]
      BY Beginnings DEF Sound
    <3>2. e.type = "case_detected"
      BY <3>1 DEF Event
    <3>3. trail' = Append(trail, e)
      BY <2>2, <3>1 DEF Crash
    <3>4. /\ Effects' = Effects
          /\ Of("reply_interpreted")' = Of("reply_interpreted")
          /\ Of("human_review_decided")' = Of("human_review_decided")
      BY <1>1, <3>2, <3>3, Appended DEF Effects, Executed, Of
    <3>5. \A i \in 1..Len(trail) : trail'[i] = trail[i]
      BY <3>3, Appended
    <3>6. Objections' = Objections
      BY <3>4, <3>5 DEF Objections, Of
    <3>7. ObjectionNeedsHuman'
      BY <3>4, <3>5 DEF ObjectionOK, ObjectionNeedsHuman, Effects, Executed, Of
    <3> QED
      BY <3>6, <3>7
  <2> QED
    BY <2>1, <2>2
<1>4. Remembered'
  <2>1. Objections # {} => case' = case
    BY DEF ObjectionOK, Remembered, Crash
  <2> QED
    BY <1>3, <2>1 DEF ObjectionOK, Remembered, Objecting
<1> QED
  BY <1>2, <1>3, <1>4 DEF ObjectionOK

LEMMA UnchangedMindful ==
    ASSUME ObjectionOK, UNCHANGED <<case, trail, epoch, call>>
    PROVE  ObjectionOK'
<1>1. Objections' = Objections /\ Effects' = Effects
  BY DEF Objections, Effects, Executed, Of
<1>2. Remembered' /\ ObjectionNeedsHuman'
  BY <1>1 DEF ObjectionOK, Remembered, Objecting, ObjectionNeedsHuman, Of
<1>3. \A id : Heard(id)' <=> Heard(id)
  BY <1>1 DEF Heard, Of
<1>4. ASSUME NEW h \in Handler
      PROVE  Mindful(call[h])'
  <2>1. PICK c : c = call[h]
    OBVIOUS
  <2>2. call'[h] = c /\ Mindful(c)
    BY <2>1 DEF ObjectionOK
  <2>3. Mindful(c)'
    BY <1>1, <1>3, <2>2 DEF Mindful, Objecting
  <2> QED
    BY <2>2, <2>3 DEF Mindful, Heard
<1> QED
  BY <1>2, <1>4 DEF ObjectionOK

\* The gate clears nothing once an objection is in the trail.
LEMMA GateMindful ==
    ASSUME Policy.escalateOnDispute, Policy.escalateOnOptout, Sound, ObjectionOK,
           NEW h \in Handler, Gate(h), Clears(h)
    PROVE  Objections = {}
<1> SUFFICES ASSUME Objections # {} PROVE FALSE
  OBVIOUS
<1>1. PICK row : row = call[h].row
  OBVIOUS
<1>2. row = case /\ Objecting(row)
  BY <1>1 DEF Gate, ObjectionOK, Mindful, Remembered
<1>3. PICK result : result = Evaluate(call[h].action, GateInput(row), Budget,
                                      clocks[call[h].at], Policy)
  OBVIOUS
<1>4. result.decision # "approved"
  BY <1>2, <1>3, ObjectorsWait
<1>5. PICK new, event : Save(h, new, call[h].action, event, RouteAfterGate(result.decision))
  BY <1>1, <1>3 DEF Gate
<1>6. PICK c : call' = [call EXCEPT ![h] = c] /\ c.next = "done"
  <2>1. RouteAfterGate(result.decision) = "done"
    BY <1>4 DEF RouteAfterGate
  <2>2. PICK c : c = Appending(h, new, call[h].action, event, "done")
    OBVIOUS
  <2>3. c.next = "done" /\ call' = [call EXCEPT ![h] = c]
    BY <1>5, <2>1, <2>2 DEF Save, Appending
  <2> QED
    BY <2>3
<1>7. PICK d : call' = [call EXCEPT ![h] = d] /\ d.next = "execute"
  BY DEF Clears, ClearsBy, Saves
<1>8. call'[h] = c /\ call'[h] = d
  BY <1>6, <1>7 DEF Sound, CallsTyped
<1> QED
  BY <1>6, <1>7, <1>8

LEMMA NextMindful ==
    ASSUME NEW h0, Handler = {h0}, Policy.escalateOnDispute, Policy.escalateOnOptout,
           Sound, Sound', ClearedOK, ObjectionOK, [Next]_vars
    PROVE  ObjectionOK'
<1>1. ASSUME NEW h \in Handler, SavesIdly(h)
      PROVE  ObjectionOK'
  <2>1. PICK action \in Act, type \in EventType \ {"action_executed"}, outcome \in Outcome,
             next \in {"strategize", "gate", "done"} :
                 /\ Saves(h, action, type, outcome, next)
                 /\ type = "reply_interpreted" /\ outcome \in Objection => Objecting(case')
    BY <1>1 DEF SavesIdly
  <2> QED
    BY <2>1, SavesMindful
<1>2. ASSUME NEW h \in Handler, Gate(h), Clears(h)
      PROVE  ObjectionOK'
  <2>1. Objections = {}
    BY <1>2, GateMindful
  <2>2. PICK type \in {"policy_evaluated", "human_review_decided"} :
            Saves(h, call[h].action, type, "approved", "execute")
    BY <1>2 DEF Clears, ClearsBy
  <2> QED
    BY <2>1, <2>2, SavesMindful
<1>3. ASSUME NEW h \in Handler, ClearsBy(h, "human_review_decided")
      PROVE  ObjectionOK'
  BY <1>3, SavesMindful DEF ClearsBy
<1>4. ASSUME NEW h \in Handler, SaveExecuted(h),
             Saves(h, call[h].action, "action_executed", call[h].op, "done")
      PROVE  ObjectionOK'
  <2>1. call[h].op \in {"executed", "replay"}
    BY <1>4 DEF SaveExecuted
  <2> QED
    BY <1>4, <2>1, SavesMindful
<1>5. CASE SaveOther
  BY <1>5, UnchangedMindful DEF SaveOther
<1>6. CASE UNCHANGED vars
  BY <1>6, UnchangedMindful DEF vars
<1>7. ASSUME NEW h \in Handler,
             \/ Proceeds(h) \/ Register(h) \/ MarkResult(h) \/ AppendEvent(h) \/ DeleteAll(h)
      PROVE  ObjectionOK'
  BY <1>7, ProceedsMindful, ExecutorMindful, AppendMindful, DeleteMindful
<1>8. Kinds
  BY NextKinds
<1> QED
  BY <1>1, <1>2, <1>3, <1>4, <1>5, <1>6, <1>7, <1>8, CrashMindful DEF Kinds

LEMMA InitMindful ==
    ASSUME Init
    PROVE  ObjectionOK
<1>1. PICK e \in Entry : e = [Event("case_detected") EXCEPT !.to = SeedRow.status]
  BY Beginnings
<1>2. e.type = "case_detected"
  BY <1>1 DEF Event
<1>3. Len(trail) = 1 /\ trail[1] = e
  BY <1>1 DEF Init
<1>4. Objections = {} /\ Effects = {}
  BY <1>2, <1>3 DEF Objections, Effects, Executed, Of
<1>5. \A h \in Handler : Mindful(call[h])
  BY DEF Init, Mindful, Idle, Acting
<1> QED
  BY <1>4, <1>5 DEF ObjectionOK, Remembered, ObjectionNeedsHuman

LEMMA AlwaysClearedOK == Spec => []ClearedOK
<1>1. Init => ClearedOK
  BY InitCleared
<1>2. Sound /\ Sound' /\ ClearedOK /\ [Next]_vars => ClearedOK'
  BY NextCleared
<1> QED
  BY <1>1, <1>2, AlwaysSound, PTL DEF Spec

\* With one thread, and a policy that escalates disputes and opt-outs: after
\* either is in the trail, nothing happens to the customer but what a person
\* has approved since, whatever crashes, resets and runs come in between.
THEOREM ObjectionNeedsHumanAlone ==
    ASSUME NEW h0, Handler = {h0}, Policy.escalateOnDispute, Policy.escalateOnOptout
    PROVE  Spec => []ObjectionNeedsHuman
<1>1. Init => ObjectionOK
  BY InitMindful
<1>2. Sound /\ Sound' /\ ClearedOK /\ ObjectionOK /\ [Next]_vars => ObjectionOK'
  BY NextMindful
<1>3. ObjectionOK => ObjectionNeedsHuman
  BY DEF ObjectionOK
<1> QED
  BY <1>1, <1>2, <1>3, AlwaysSound, AlwaysClearedOK, PTL DEF Spec


-----------------------------------------------------------------------------
\* One request at a time: money reaches the row before it reaches the trail.

\* What the events of a trail add up to.
IsPaid(t, s) == t = [n \in 0..Len(s) |-> IF n = 0 THEN 0 ELSE t[n - 1] + s[n].amount]
PaidOf(s) == CHOOSE t : IsPaid(t, s)
Total(s) == PaidOf(s)[Len(s)]

LEMMA PaidInTrailIsTotal == PaidInTrail[Len(trail)] = Total(trail)
BY DEF PaidInTrail, Total, PaidOf, IsPaid

LEMMA PaidIsTotal ==
    ASSUME NEW s \in Seq(Entry)
    PROVE  IsTotal(PaidOf(s), [i \in 1..Len(s) |-> s[i].amount], Len(s))
<1> DEFINE f == [i \in 1..Len(s) |-> s[i].amount]
<1>1. Len(s) \in Nat
  OBVIOUS
<1>2. PICK t : IsTotal(t, f, Len(s))
  BY <1>1, TotalExists
<1>3. \A u : IsPaid(u, s) <=> IsTotal(u, f, Len(s))
  <2> SUFFICES ASSUME NEW u PROVE IsPaid(u, s) <=> IsTotal(u, f, Len(s))
    OBVIOUS
  <2>1. \A m \in 0..Len(s) : m # 0 => f[m] = s[m].amount
    BY <1>1
  <2>2. [n \in 0..Len(s) |-> IF n = 0 THEN 0 ELSE u[n - 1] + s[n].amount]
        = [n \in 0..Len(s) |-> IF n = 0 THEN 0 ELSE u[n - 1] + f[n]]
    <3> HIDE DEF f
    <3> QED
      BY <2>1
  <2> QED
    BY <2>2 DEF IsPaid, IsTotal
<1> HIDE DEF f
<1>4. IsPaid(PaidOf(s), s)
  BY <1>2, <1>3 DEF PaidOf
<1> QED
  BY <1>3, <1>4 DEF f

LEMMA TotalIsNat ==
    ASSUME NEW s \in Seq(Entry)
    PROVE  Total(s) \in Nat
<1> DEFINE f == [i \in 1..Len(s) |-> s[i].amount]
<1>1. Len(s) \in Nat /\ \A m \in 1..Len(s) : f[m] \in Nat
  <2>1. \A m \in 1..Len(s) : s[m] \in Entry
    OBVIOUS
  <2>2. \A e \in Entry : e.amount \in Nat
    BY DEF Entry
  <2> QED
    BY <2>1, <2>2
<1>2. IsTotal(PaidOf(s), f, Len(s))
  BY PaidIsTotal
<1> HIDE DEF f
<1>3. \A m \in 0..Len(s) : PaidOf(s)[m] \in Nat
  BY <1>1, <1>2, TotalType
<1> QED
  BY <1>1, <1>3 DEF Total

LEMMA TotalOfNothing == Total(<<>>) = 0
<1>1. <<>> \in Seq(Entry) /\ Len(<<>>) = 0
  OBVIOUS
<1>2. PaidOf(<<>>)[0] = 0
  <2> DEFINE f == [i \in 1..Len(<<>>) |-> <<>>[i].amount]
  <2>1. IsTotal(PaidOf(<<>>), f, 0)
    BY <1>1, PaidIsTotal
  <2> HIDE DEF f
  <2> QED
    BY <2>1, TotalUnfolds
<1> QED
  BY <1>1, <1>2 DEF Total

\* An event more adds its amount.
LEMMA TotalAppended ==
    ASSUME NEW s \in Seq(Entry), NEW e \in Entry
    PROVE  Total(Append(s, e)) = Total(s) + e.amount
<1> DEFINE f == [i \in 1..Len(s) |-> s[i].amount]
           a == Append(s, e)
           g == [i \in 1..Len(a) |-> a[i].amount]
<1>1. PICK n \in Nat : n = Len(s)
  OBVIOUS
<1>2. /\ a \in Seq(Entry) /\ Len(a) = n + 1
      /\ \A i \in 1..n : a[i] = s[i]
      /\ a[n + 1] = e
  BY <1>1, AppendProperties
<1>3. /\ \A i \in 1..n : f[i] = g[i]
      /\ g[n + 1] = e.amount
  <2> HIDE DEF a
  <2> QED
    BY <1>1, <1>2
<1>4. IsTotal(PaidOf(s), f, n) /\ IsTotal(PaidOf(a), g, n + 1)
  <2>1. IsTotal(PaidOf(s), f, n)
    BY <1>1, PaidIsTotal
  <2>2. IsTotal(PaidOf(a), [i \in 1..Len(a) |-> a[i].amount], Len(a))
    <3> HIDE DEF a
    <3> QED
      BY <1>2, PaidIsTotal
  <2> QED
    BY <1>2, <2>1, <2>2
<1> HIDE DEF f, g, a
<1>5. PaidOf(s)[n] = PaidOf(a)[n]
  <2>1. n \in 0..n /\ n <= n + 1 /\ n + 1 \in Nat
    OBVIOUS
  <2>2. PICK k : k = n + 1
    OBVIOUS
  <2>3. PICK t : t = PaidOf(s)
    OBVIOUS
  <2>4. PICK u : u = PaidOf(a)
    OBVIOUS
  <2>5. k \in Nat /\ n <= k /\ IsTotal(t, f, n) /\ IsTotal(u, g, k)
    BY <1>4, <2>1, <2>2, <2>3, <2>4
  <2>6. \A m \in 1..n : f[m] = g[m]
    BY <1>3
  <2>7. \A m \in 0..n : t[m] = u[m]
    BY <2>5, <2>6, TotalsAgree
  <2> QED
    BY <2>1, <2>3, <2>4, <2>7
<1>6. PaidOf(a)[n + 1] = PaidOf(a)[n] + g[n + 1]
  <2>1. n + 1 \in 1..n + 1 /\ n + 1 \in Nat
    OBVIOUS
  <2>2. \A m \in 1..n + 1 : PaidOf(a)[m] = PaidOf(a)[m - 1] + g[m]
    BY <1>4, <2>1, TotalUnfolds
  <2> QED
    BY <2>1, <2>2
<1> QED
  BY <1>1, <1>2, <1>3, <1>5, <1>6 DEF Total, a

\* The only thread works with the row that is stored; what the trail holds, and
\* what is on its way to it, the row holds already.
Carries(c) ==
    /\ c.op # "idle" => c.row = case
    /\ c.op = "seed_case" => case = NoCase
    /\ c.op = "append" => case # NoCase /\ Total(trail) + c.event.amount <= case.recovered

MoneyOK ==
    /\ \A h \in Handler : Carries(call[h])
    /\ case = NoCase => trail = <<>>
    /\ case # NoCase => Total(trail) <= case.recovered

\* A row is saved with the money of the one that was read and what is paid now,
\* and an event of as much is on its way.
Banks(h, paid) ==
    /\ UNCHANGED trail
    /\ \E c : /\ call' = [call EXCEPT ![h] = c]
              /\ c.op = "append" /\ c.row = case' /\ c.event.amount = paid
    /\ \/ call[h].op \notin {"idle", "seed_case"} /\ call[h].row \in Row
          /\ case'.recovered = call[h].row.recovered + paid
       \/ call[h].op = "seed_case" /\ case'.recovered = 0 /\ paid = 0

\* A thread goes on with its row, or with the one that is stored, or ends.
Carrying(h) ==
    /\ UNCHANGED <<case, trail>>
    /\ \E c : /\ call' = [call EXCEPT ![h] = c]
              /\ c.op # "append"
              /\ c.op # "idle" => c.row = case \/ (call[h].op # "idle" /\ c.row = call[h].row)
              /\ c.op = "seed_case" => case = NoCase

LEMMA BanksBy ==
    ASSUME NEW h \in Handler, NEW row, NEW action, NEW event \in Blank, NEW next, NEW old,
           Save(h, row, action, event, next), UNCHANGED Rest,
           old = call[h].row, old \in Row, call[h].op \notin {"idle", "seed_case"},
           row.recovered = old.recovered + event.amount
    PROVE  Banks(h, event.amount)
<1>1. PICK c : c = Appending(h, row, action, event, next)
  OBVIOUS
<1>2. c.op = "append" /\ c.row = row /\ c.event.amount = event.amount
  BY <1>1 DEF Appending, Blank
<1>3. call' = [call EXCEPT ![h] = c] /\ case' = row
  BY <1>1 DEF Save, Appending
<1> QED
  BY <1>2, <1>3 DEF Banks, Rest

\* A step's row before it is filled in.
LEMMA SteppedRow ==
    ASSUME NEW old \in Row
    PROVE  /\ Step(old) \in Row /\ Step(old).recovered = old.recovered
           /\ old.recovered \in Nat /\ old.recovered + 0 = old.recovered
<1>1. old.recovered \in Nat
  BY CaseAssumption DEF Row
<1>2. Step(old) \in Row /\ Step(old).recovered = old.recovered
  BY DEF Step, Row
<1> QED
  BY <1>1, <1>2

LEMMA FreeEvents ==
    \A type \in EventType :
        /\ Event(type) \in Blank /\ Event(type).amount = 0
        /\ \A o \in Outcome : /\ [Event(type) EXCEPT !.outcome = o] \in Blank
                              /\ [Event(type) EXCEPT !.outcome = o].amount = 0
        /\ \A n \in Nat : /\ [Event(type) EXCEPT !.amount = n] \in Blank
                          /\ [Event(type) EXCEPT !.amount = n].amount = n
BY DEF Event, Blank, Outcome

\* What a thread at work has read.
LEMMA ReadRow ==
    ASSUME Sound, NEW h \in Handler,
           call[h].op \in Op \ {"list", "delete", "seed", "seed_case"}
    PROVE  call[h].row \in Row /\ call[h].op \notin {"idle", "seed_case"}
BY Working DEF CallOK, RowOK, Op

\* Of the steps that save a row, only a payment changes its money.
LEMMA RunBanks ==
    ASSUME Sound, NEW h \in Handler,
           \/ Diagnose(h) \/ Gate(h) \/ SaveExecuted(h) \/ WakeCase(h)
           \/ \E proposal \in Proposals : Strategize(h, proposal)
           \/ \E approve \in BOOLEAN : Decide(h, approve)
    PROVE  Banks(h, 0)
<1>1. PICK old \in Row : old = call[h].row /\ call[h].op \notin {"idle", "seed_case"}
  BY ReadRow DEF Diagnose, Gate, SaveExecuted, WakeCase, Strategize, Decide, Op
<1>2. PICK a \in Row : a = Step(old) /\ a.recovered = old.recovered
  BY SteppedRow
<1>3. old.recovered + 0 = old.recovered
  BY SteppedRow
<1>4. CASE Diagnose(h)
  <2>1. PICK row : row = [a EXCEPT !.status = "diagnosed", !.llmCalls = @ + 1]
    OBVIOUS
  <2>2. row.recovered = old.recovered
    BY <1>2, <2>1 DEF Row
  <2>3. PICK event \in Blank : event = Event("diagnosis_completed") /\ event.amount = 0
    BY FreeEvents DEF EventType
  <2>4. Save(h, row, NoAction, event, "strategize") /\ UNCHANGED Rest
    BY <1>1, <1>2, <1>4, <2>1, <2>3 DEF Diagnose
  <2> QED
    BY <1>1, <1>3, <2>2, <2>3, <2>4, BanksBy
<1>5. ASSUME NEW proposal \in Proposals, Strategize(h, proposal)
      PROVE  Banks(h, 0)
  <2>1. PICK row : row = [a EXCEPT !.status = "action_proposed", !.attempts = @ + 1,
                                   !.llmCalls = @ + 1]
    OBVIOUS
  <2>2. row.recovered = old.recovered
    BY <1>2, <2>1 DEF Row
  <2>3. PICK event \in Blank : event = Event("action_proposed") /\ event.amount = 0
    BY FreeEvents DEF EventType
  <2>4. \E action : Save(h, row, action, event, "gate") /\ UNCHANGED Rest
    BY <1>1, <1>2, <1>5, <2>1, <2>3 DEF Strategize
  <2> QED
    BY <1>1, <1>3, <2>2, <2>3, <2>4, BanksBy
<1>6. CASE Gate(h)
  <2>1. PICK result : result = Evaluate(call[h].action, GateInput(old), Budget,
                                        clocks[call[h].at], Policy)
    OBVIOUS
  <2>2. PICK row : row = [a EXCEPT !.status = GatedStatus[result.decision],
                                   !.wake = IF result.decision = "deferred" THEN result.retryAt
                                            ELSE @]
    OBVIOUS
  <2>3. row.recovered = old.recovered
    BY <1>2, <2>2 DEF Row
  <2>4. result.decision \in Outcome
    <3>1. call[h].at \in 1..Len(clocks) /\ clocks \in Seq(Nat)
      BY <1>6, Working DEF Gate, Op, CallOK, Sound, ClocksTyped
    <3>2. clocks[call[h].at] \in Nat
      BY <3>1
    <3> QED
      BY <2>1, <3>2, Decisions DEF Outcome
  <2>5. PICK event \in Blank : /\ event = [Event("policy_evaluated") EXCEPT
                                              !.outcome = result.decision]
                               /\ event.amount = 0
    BY <2>4, FreeEvents DEF EventType
  <2>6. Save(h, row, call[h].action, event, RouteAfterGate(result.decision)) /\ UNCHANGED Rest
    BY <1>1, <1>2, <1>6, <2>1, <2>2, <2>5 DEF Gate
  <2> QED
    BY <1>1, <1>3, <2>3, <2>5, <2>6, BanksBy
<1>7. CASE SaveExecuted(h)
  <2>1. PICK row : row = IF call[h].op = "replay" THEN a
                         ELSE [a EXCEPT !.status = ExecutedStatus(call[h].action.type)]
    OBVIOUS
  <2>2. row.recovered = old.recovered
    <3>1. \A s : [a EXCEPT !.status = s].recovered = a.recovered
      BY DEF Row
    <3> QED
      BY <1>2, <2>1, <3>1
  <2>3. PICK event \in Blank : /\ event = [Event("action_executed") EXCEPT !.outcome = call[h].op]
                               /\ event.amount = 0
    BY <1>7, FreeEvents DEF EventType, SaveExecuted, Outcome
  <2>4. Save(h, row, call[h].action, event, "done") /\ UNCHANGED Rest
    BY <1>1, <1>2, <1>7, <2>1, <2>3 DEF SaveExecuted
  <2> QED
    BY <1>1, <1>3, <2>2, <2>3, <2>4, BanksBy
<1>8. ASSUME NEW approve \in BOOLEAN, Decide(h, approve)
      PROVE  Banks(h, 0)
  <2>1. PICK row : row = [a EXCEPT !.status = IF approve THEN "action_gated" ELSE "stopped"]
    OBVIOUS
  <2>2. row.recovered = old.recovered
    BY <1>2, <2>1 DEF Row
  <2>3. PICK event \in Blank :
            /\ event = [Event("human_review_decided") EXCEPT
                           !.outcome = IF approve THEN "approved" ELSE "denied"]
            /\ event.amount = 0
    BY FreeEvents DEF EventType, Outcome
  <2>4. Save(h, row, call[h].action, event, IF approve THEN "execute" ELSE "done")
        /\ UNCHANGED Rest
    BY <1>1, <1>2, <1>8, <2>1, <2>3 DEF Decide
  <2> QED
    BY <1>1, <1>3, <2>2, <2>3, <2>4, BanksBy
<1>9. CASE WakeCase(h)
  <2>1. PICK row : row = [a EXCEPT !.status = "detected", !.wake = Never]
    OBVIOUS
  <2>2. row.recovered = old.recovered
    BY <1>2, <2>1 DEF Row
  <2>3. PICK o \in Outcome : o = IF a.status = "ptp_recorded" THEN "promise_missed"
                                 ELSE "scheduled_followup_due"
    BY DEF Outcome
  <2>4. PICK event \in Blank : event = [Event("woken") EXCEPT !.outcome = o] /\ event.amount = 0
    BY FreeEvents DEF EventType
  <2>5. Save(h, row, NoAction, event, "done") /\ UNCHANGED Rest
    BY <1>1, <1>2, <1>9, <2>1, <2>3, <2>4 DEF WakeCase
  <2> QED
    BY <1>1, <1>3, <2>2, <2>4, <2>5, BanksBy
<1> QED
  BY <1>4, <1>5, <1>6, <1>7, <1>8, <1>9

LEMMA RepliesAreFree ==
    ASSUME NEW row \in Row, NEW intent, NEW callback
    PROVE  Reply(row, intent, callback).recovered = row.recovered
<1>1. /\ [row EXCEPT !.status = "stopped", !.optOut = TRUE].recovered = row.recovered
      /\ [row EXCEPT !.status = "awaiting_human", !.dispute = TRUE].recovered = row.recovered
      /\ [row EXCEPT !.status = "stopped"].recovered = row.recovered
      /\ [row EXCEPT !.status = "awaiting_human"].recovered = row.recovered
      /\ [row EXCEPT !.status = "awaiting_response", !.wake = callback].recovered = row.recovered
      /\ [row EXCEPT !.status = "detected", !.wake = Never].recovered = row.recovered
      /\ [row EXCEPT !.status = "ptp_recorded", !.wake = PromiseAt].recovered = row.recovered
      /\ [row EXCEPT !.status = "awaiting_response"].recovered = row.recovered
  BY DEF Row
<1> QED
  BY <1>1 DEF Reply

LEMMA InterpretBanks ==
    ASSUME Sound, NEW h \in Handler, NEW intent \in Intent, NEW callback,
           InterpretReply(h, intent, callback)
    PROVE  Banks(h, 0)
<1>1. PICK old \in Row : old = call[h].row /\ call[h].op \notin {"idle", "seed_case"}
  BY ReadRow DEF InterpretReply, Op
<1>2. PICK a \in Row : a = Step(old) /\ a.recovered = old.recovered
  BY SteppedRow
<1>3. old.recovered + 0 = old.recovered
  BY SteppedRow
<1>4. PICK b : b = [a EXCEPT !.llmCalls = a.llmCalls + 1]
  OBVIOUS
<1>5. b \in Row /\ b.recovered = a.recovered
  <2>1. a.llmCalls + 1 \in Nat
    BY DEF Row
  <2> QED
    BY <1>4, <2>1, Setting DEF Kept
<1>6. PICK row : row = Reply(b, intent, callback)
  OBVIOUS
<1>7. row.recovered = old.recovered
  BY <1>2, <1>5, <1>6, RepliesAreFree
<1>8. PICK event \in Blank : /\ event = [Event("reply_interpreted") EXCEPT !.outcome = intent]
                             /\ event.amount = 0
  BY FreeEvents DEF EventType, Outcome
<1>9. Save(h, row, NoAction, event, "done") /\ UNCHANGED Rest
  BY <1>1, <1>2, <1>4, <1>6, <1>8 DEF InterpretReply
<1> QED
  BY <1>1, <1>3, <1>7, <1>8, <1>9, BanksBy

LEMMA PaymentBanks ==
    ASSUME Sound, NEW h \in Handler, NEW amount \in 1..Profile.due, ApplyPayment(h, amount)
    PROVE  Banks(h, amount)
<1>1. PICK old \in Row : old = call[h].row /\ call[h].op \notin {"idle", "seed_case"}
  BY ReadRow DEF ApplyPayment, Op
<1>2. PICK a \in Row : a = Step(old) /\ a.recovered = old.recovered
  BY SteppedRow
<1>3. PICK n : n = a.recovered + amount
  OBVIOUS
<1>4. PICK row : row = [a EXCEPT !.recovered = n,
                                 !.status = IF n = Profile.due THEN "paid"
                                            ELSE "partially_paid"]
  OBVIOUS
<1>5. row.recovered = old.recovered + amount
  BY <1>2, <1>3, <1>4 DEF Row
<1>6. PICK event \in Blank : /\ event = [Event("payment_captured") EXCEPT !.amount = amount]
                             /\ event.amount = amount
  <2>1. amount \in Nat
    OBVIOUS
  <2> QED
    BY <2>1, FreeEvents DEF EventType
<1>7. Save(h, row, NoAction, event, "done") /\ UNCHANGED Rest
  BY <1>1, <1>2, <1>3, <1>4, <1>6 DEF ApplyPayment
<1> QED
  BY <1>1, <1>5, <1>6, <1>7, BanksBy

LEMMA SeedBanks ==
    ASSUME Sound, NEW h \in Handler, SeedCase(h)
    PROVE  Banks(h, 0)
<1>1. PICK event \in Blank : event = Event("case_detected") /\ event.amount = 0
  BY FreeEvents DEF EventType
<1>2. PICK c : c = Appending(h, SeedRow, NoAction, event, "done")
  OBVIOUS
<1>3. c.op = "append" /\ c.row = SeedRow /\ c.event.amount = 0
  BY <1>1, <1>2 DEF Appending, Blank
<1>4. call' = [call EXCEPT ![h] = c] /\ case' = SeedRow /\ UNCHANGED Rest
  BY <1>1, <1>2 DEF SeedCase, Save, Appending
<1>5. SeedRow.recovered = 0 /\ call[h].op = "seed_case"
  BY DEF SeedRow, SeedCase
<1> QED
  BY <1>3, <1>4, <1>5 DEF Banks, Rest

LEMMA ProceedsCarrying ==
    ASSUME NEW h \in Handler, Proceeds(h)
    PROVE  Carrying(h)
BY DEF Proceeds, Carrying

\* A thread keeps its row from one step to the next.
LEMMA ContinueCarrying ==
    ASSUME Sound, NEW h \in Handler, call[h].op \in Op, NEW op \in Op \ {"seed_case"},
           Continue(h, op), UNCHANGED <<case, trail>>
    PROVE  Carrying(h)
<1>1. call[h] \in Work
  BY Working
<1>2. PICK c : c = [call[h] EXCEPT !.op = op]
  OBVIOUS
<1>3. c.op = op /\ c.row = call[h].row
  BY <1>1, <1>2 DEF Work
<1>4. call[h].op # "idle" /\ op # "append"
  BY DEF Op
<1> QED
  BY <1>2, <1>3, <1>4 DEF Carrying, Continue

LEMMA ReturnCarrying ==
    ASSUME NEW h \in Handler, Return(h), UNCHANGED <<case, trail>>
    PROVE  Carrying(h)
<1>1. PICK c : c = Idle
  OBVIOUS
<1>2. c.op = "idle" /\ call' = [call EXCEPT ![h] = c]
  BY <1>1 DEF Return, Idle
<1> QED
  BY <1>2 DEF Carrying

LEMMA OthersCarry ==
    ASSUME Sound, NEW h \in Handler,
           \/ StartRun(h) \/ AgentFails(h) \/ Register(h) \/ MarkResult(h)
           \/ StartReply(h) \/ StartPayment(h) \/ StartReview(h) \/ ReadProposal(h)
           \/ \E hours \in Hours : AdvanceTime(h, hours)
           \/ ListCases(h) \/ StartReset(h) \/ SeedPortfolio(h)
    PROVE  Carrying(h)
<1>1. CASE \/ StartRun(h) \/ StartReply(h) \/ StartPayment(h) \/ StartReview(h)
           \/ StartReset(h) \/ \E hours \in Hours : AdvanceTime(h, hours)
  <2>1. Proceeds(h)
    BY <1>1, BeginProceeds DEF StartRun, StartReply, StartPayment, StartReview, StartReset,
       AdvanceTime, Op, Acting
  <2> QED
    BY <2>1, ProceedsCarrying
<1>2. CASE AgentFails(h)
  BY <1>2, ReturnCarrying DEF AgentFails
<1>3. CASE Register(h)
  BY <1>3, ReturnCarrying, ContinueCarrying DEF Register, Op
<1>4. CASE MarkResult(h)
  BY <1>4, ReturnCarrying, ContinueCarrying DEF MarkResult, Op
<1>5. CASE ReadProposal(h)
  <2>1. call[h] \in Work
    BY <1>5, Working DEF ReadProposal, Op
  <2>2. CASE Proposed = {}
    BY <1>5, <2>2, ReturnCarrying DEF ReadProposal, Return
  <2>3. CASE Proposed # {}
    <3>1. PICK c : c = [call[h] EXCEPT !.op = "decide", !.action = trail[LastProposal].action]
      OBVIOUS
    <3>2. c.op = "decide" /\ c.row = call[h].row
      BY <2>1, <3>1 DEF Work
    <3>3. call[h].op # "idle" /\ call' = [call EXCEPT ![h] = c]
      BY <1>5, <2>3, <3>1 DEF ReadProposal
    <3> QED
      BY <1>5, <3>2, <3>3 DEF Carrying, ReadProposal
  <2> QED
    BY <2>2, <2>3
<1>6. CASE ListCases(h)
  <2>1. call[h] \in Work
    BY <1>6, Working DEF ListCases, Op
  <2>2. CASE ~IsDue(case, call[h].at)
    BY <1>6, <2>2, ReturnCarrying DEF ListCases, Return
  <2>3. CASE IsDue(case, call[h].at)
    <3>1. PICK c : c = [call[h] EXCEPT !.op = "wake", !.row = case]
      OBVIOUS
    <3>2. c.op = "wake" /\ c.row = case
      BY <2>1, <3>1 DEF Work
    <3>3. call' = [call EXCEPT ![h] = c]
      BY <1>6, <2>3, <3>1 DEF ListCases
    <3> QED
      BY <1>6, <3>2, <3>3 DEF Carrying, ListCases
  <2> QED
    BY <2>2, <2>3
<1>7. CASE SeedPortfolio(h)
  <2>1. CASE case # NoCase \/ others
    BY <1>7, <2>1, ReturnCarrying DEF SeedPortfolio
  <2>2. CASE ~(case # NoCase \/ others)
    <3>1. call[h] \in Work
      BY <1>7, Working DEF SeedPortfolio, Op
    <3>2. PICK c : c = [call[h] EXCEPT !.op = "seed_case"]
      OBVIOUS
    <3>3. c.op = "seed_case" /\ c.row = call[h].row
      BY <3>1, <3>2 DEF Work
    <3>4. call' = [call EXCEPT ![h] = c] /\ call[h].op # "idle"
      BY <1>7, <2>2, <3>2 DEF SeedPortfolio, Continue
    <3> QED
      BY <1>7, <2>2, <3>3, <3>4 DEF SeedPortfolio, Carrying
  <2> QED
    BY <2>1, <2>2
<1> QED
  BY <1>1, <1>2, <1>3, <1>4, <1>5, <1>6, <1>7

\* What the steps do to the money.
LEMMA BanksMoney ==
    ASSUME NEW h \in Handler, Handler = {h}, Sound, Sound', MoneyOK, NEW paid \in Nat,
           Banks(h, paid)
    PROVE  MoneyOK'
<1>1. PICK c : /\ call' = [call EXCEPT ![h] = c]
               /\ c.op = "append" /\ c.row = case' /\ c.event.amount = paid
  BY DEF Banks
<1>2. call'[h] = c /\ \A g \in Handler : call'[g] = c
  BY <1>1 DEF Sound, CallsTyped
<1>3. case' # NoCase /\ case' \in Row
  <2>1. c \in Saved
    BY <1>1, <1>2 DEF Sound, CallsTyped, Work, Op, Idle
  <2> QED
    BY <1>1, <2>1, NothingIsAnAct DEF Saved
<1>4. PICK total \in Nat : total = Total(trail)
  BY TotalIsNat DEF Sound, TrailTyped
<1>5. total + paid <= case'.recovered /\ total <= case'.recovered
  <2>1. Carries(call[h])
    BY DEF MoneyOK
  <2>2. CASE call[h].op = "seed_case"
    <3>1. trail = <<>> /\ case'.recovered = 0 /\ paid = 0
      BY <2>1, <2>2 DEF Carries, MoneyOK, Banks
    <3> QED
      BY <1>4, <3>1, TotalOfNothing
  <2>3. CASE call[h].op # "seed_case"
    <3>1. /\ call[h].row = case /\ case \in Row
          /\ case'.recovered = case.recovered + paid
      BY <2>1, <2>3 DEF Carries, Banks
    <3>2. total <= case.recovered /\ case.recovered \in Nat
      BY <1>4, <3>1, NothingIsAnAct, SteppedRow DEF MoneyOK
    <3> QED
      BY <3>1, <3>2
  <2> QED
    BY <2>2, <2>3
<1>6. Total(trail)' = total
  BY <1>4 DEF Banks, Total, PaidOf, IsPaid
<1>7. (\A g \in Handler : Carries(call[g]))'
  <2> SUFFICES ASSUME NEW g \in Handler PROVE Carries(call[g])'
    OBVIOUS
  <2> QED
    BY <1>1, <1>2, <1>3, <1>5, <1>6 DEF Carries
<1> QED
  BY <1>3, <1>5, <1>6, <1>7 DEF MoneyOK

LEMMA CarryingMoney ==
    ASSUME NEW h \in Handler, Handler = {h}, Sound, MoneyOK, Carrying(h)
    PROVE  MoneyOK'
<1>1. PICK c : /\ call' = [call EXCEPT ![h] = c]
               /\ c.op # "append"
               /\ c.op # "idle" => c.row = case \/ (call[h].op # "idle" /\ c.row = call[h].row)
               /\ c.op = "seed_case" => case = NoCase
  BY DEF Carrying
<1>2. \A g \in Handler : call'[g] = c
  BY <1>1 DEF Sound, CallsTyped
<1>3. c.op # "idle" => c.row = case
  BY <1>1 DEF MoneyOK, Carries
<1>4. UNCHANGED <<case, trail>> /\ Total(trail)' = Total(trail)
  BY DEF Carrying, Total, PaidOf, IsPaid
<1>5. (\A g \in Handler : Carries(call[g]))'
  <2> SUFFICES ASSUME NEW g \in Handler PROVE Carries(call[g])'
    OBVIOUS
  <2> QED
    BY <1>1, <1>2, <1>3, <1>4 DEF Carries
<1> QED
  BY <1>4, <1>5 DEF MoneyOK

LEMMA AppendMoney ==
    ASSUME NEW h \in Handler, Handler = {h}, Sound, MoneyOK, AppendEvent(h)
    PROVE  MoneyOK'
<1>1. call[h].op = "append" /\ Carries(call[h])
  BY DEF AppendEvent, MoneyOK
<1>2. PICK e \in Entry : e = call[h].event
  BY <1>1, AppendingThread
<1>3. trail' = Append(trail, e) /\ UNCHANGED case
  BY <1>2 DEF AppendEvent
<1>4. Total(trail') <= case.recovered /\ case # NoCase
  <2>1. Total(trail') = Total(trail) + e.amount
    BY <1>3, TotalAppended DEF Sound, TrailTyped
  <2> QED
    BY <1>1, <1>2, <2>1 DEF Carries
<1>5. PICK c : /\ call' = [call EXCEPT ![h] = c]
               /\ c.op \notin {"append", "seed_case"}
               /\ c.op # "idle" => c.row = call[h].row
  <2>1. call[h].next \in {"strategize", "gate", "execute", "done"}
    BY <1>1, AppendingThread DEF Saved
  <2>2. CASE call[h].next = "done"
    <3>1. PICK c : c = Idle
      OBVIOUS
    <3>2. c.op = "idle" /\ call' = [call EXCEPT ![h] = c]
      BY <2>2, <3>1 DEF AppendEvent, Idle
    <3> QED
      BY <3>2
  <2>3. CASE call[h].next # "done"
    <3>1. PICK c : c = [op |-> call[h].next, row |-> call[h].row, action |-> call[h].action,
                        at |-> call[h].at, epoch |-> call[h].epoch]
      OBVIOUS
    <3>2. /\ c.op = call[h].next /\ c.row = call[h].row
          /\ call' = [call EXCEPT ![h] = c]
      BY <2>3, <3>1 DEF AppendEvent
    <3> QED
      BY <2>1, <2>3, <3>2
  <2> QED
    BY <2>2, <2>3
<1>6. \A g \in Handler : call'[g] = c
  BY <1>5 DEF Sound, CallsTyped
<1>7. c.op # "idle" => c.row = case
  BY <1>1, <1>5 DEF Carries
<1>8. (\A g \in Handler : Carries(call[g]))'
  <2> SUFFICES ASSUME NEW g \in Handler PROVE Carries(call[g])'
    OBVIOUS
  <2> QED
    BY <1>3, <1>5, <1>6, <1>7 DEF Carries
<1>9. Total(trail)' = Total(trail')
  BY DEF Total, PaidOf, IsPaid
<1> QED
  BY <1>3, <1>4, <1>8, <1>9 DEF MoneyOK

LEMMA TotalOfTheFirst ==
    ASSUME NEW e \in Entry, e.amount = 0
    PROVE  Total(Append(<<>>, e)) = 0
<1>1. PICK s \in Seq(Entry) : s = <<>>
  <2>1. <<>> \in Seq(Entry)
    OBVIOUS
  <2> QED
    BY <2>1, Zenon
<1>2. Total(s) = 0
  BY <1>1, TotalOfNothing
<1>3. Total(Append(s, e)) = Total(s) + e.amount
  BY TotalAppended
<1> QED
  BY <1>1, <1>2, <1>3

LEMMA DeleteMoney ==
    ASSUME NEW h \in Handler, Handler = {h}, Sound, DeleteAll(h)
    PROVE  MoneyOK'
<1>1. PICK c : c = [call[h] EXCEPT !.op = "seed", !.row = NoCase, !.epoch = epoch + 1]
  OBVIOUS
<1>2. c.op = "seed" /\ c.row = NoCase
  <2>1. PICK d \in Work : d = call[h]
    BY Working DEF DeleteAll, Op
  <2>2. d = [op |-> d.op, row |-> d.row, action |-> d.action, at |-> d.at, epoch |-> d.epoch]
    BY DEF Work
  <2>3. c = [op |-> "seed", row |-> NoCase, action |-> d.action, at |-> d.at,
             epoch |-> epoch + 1]
    BY <1>1, <2>1, <2>2
  <2> QED
    BY <2>3
<1>3. \A g \in Handler : call'[g] = c
  BY <1>1 DEF DeleteAll, Sound, CallsTyped
<1>4. case' = NoCase /\ trail' = <<>>
  BY DEF DeleteAll
<1>5. (\A g \in Handler : Carries(call[g]))'
  <2> SUFFICES ASSUME NEW g \in Handler PROVE Carries(call[g])'
    OBVIOUS
  <2> QED
    BY <1>2, <1>3, <1>4 DEF Carries
<1> QED
  BY <1>4, <1>5 DEF MoneyOK

\* An empty database that is seeded has no money, and its trail none.
LEMMA CrashMoney ==
    ASSUME Sound, MoneyOK, NEW logged \in BOOLEAN, Crash(logged)
    PROVE  MoneyOK'
<1>1. \A g \in Handler : call'[g] = Idle
  BY DEF Crash
<1>2. (\A g \in Handler : Carries(call[g]))'
  BY <1>1 DEF Carries, Idle
<1>3. CASE UNCHANGED <<case, trail>>
  <2>1. Total(trail)' = Total(trail)
    BY <1>3 DEF Total, PaidOf, IsPaid
  <2> QED
    BY <1>2, <1>3, <2>1 DEF MoneyOK
<1>4. CASE case = NoCase /\ case' = SeedRow
  <2>1. PICK e \in Entry :
            e = [Event("case_detected") EXCEPT !.to = SeedRow.status, !.epoch = epoch]
    BY Beginnings DEF Sound
  <2>2. e.amount = 0
    BY <2>1 DEF Event
  <2>3. trail = <<>> /\ <<>> \in Seq(Entry)
    BY <1>4 DEF MoneyOK
  <2>4. trail' = trail \/ trail' = Append(trail, e)
    BY <1>4, <2>1 DEF Crash, SeedRow, NoCase
  <2>5. Total(trail') = 0
    <3>1. CASE trail' = trail
      BY <2>3, <3>1, TotalOfNothing
    <3>2. CASE trail' = Append(trail, e)
      BY <2>2, <2>3, <3>2, TotalOfTheFirst
    <3> QED
      BY <2>4, <3>1, <3>2
  <2>6. SeedRow # NoCase /\ SeedRow.recovered = 0
    BY DEF SeedRow, NoCase
  <2>7. Total(trail)' = Total(trail')
    BY DEF Total, PaidOf, IsPaid
  <2> QED
    BY <1>2, <1>4, <2>5, <2>6, <2>7 DEF MoneyOK
<1> QED
  BY <1>3, <1>4 DEF Crash

LEMMA UnchangedMoney ==
    ASSUME MoneyOK, UNCHANGED <<case, trail, call>>
    PROVE  MoneyOK'
<1>1. Total(trail)' = Total(trail)
  BY DEF Total, PaidOf, IsPaid
<1>2. (\A g \in Handler : Carries(call[g]))'
  <2> SUFFICES ASSUME NEW g \in Handler PROVE Carries(call[g])'
    OBVIOUS
  <2> QED
    BY <1>1 DEF MoneyOK, Carries
<1> QED
  BY <1>1, <1>2 DEF MoneyOK

LEMMA NextMoney ==
    ASSUME NEW h0, Handler = {h0}, Sound, Sound', MoneyOK, [Next]_vars
    PROVE  MoneyOK'
<1>1. ASSUME NEW h \in Handler, Run(h) \/ Customer(h) \/ Operator(h)
      PROVE  MoneyOK'
  <2>1. Handler = {h}
    OBVIOUS
  <2>2. \/ Carrying(h) \/ DeleteAll(h)
        \/ \E paid \in Nat : Banks(h, paid)
    <3>1. 0 \in Nat /\ \A amount \in 1..Profile.due : amount \in Nat
      OBVIOUS
    <3>2. Run(h) => Carrying(h) \/ Banks(h, 0)
      BY RunBanks, OthersCarry DEF Run
    <3>3. Customer(h) => Carrying(h) \/ \E paid \in Nat : Banks(h, paid)
      BY <3>1, InterpretBanks, PaymentBanks, OthersCarry DEF Customer
    <3>4. Operator(h) => Carrying(h) \/ DeleteAll(h) \/ Banks(h, 0)
      BY RunBanks, SeedBanks, OthersCarry DEF Operator
    <3> QED
      BY <1>1, <3>1, <3>2, <3>3, <3>4
  <2> QED
    BY <2>1, <2>2, CarryingMoney, DeleteMoney, BanksMoney
<1>2. ASSUME NEW h \in Handler, AppendEvent(h)
      PROVE  MoneyOK'
  BY <1>2, AppendMoney
<1>3. CASE SaveOther \/ UNCHANGED vars
  BY <1>3, UnchangedMoney DEF SaveOther, vars
<1> QED
  BY <1>1, <1>2, <1>3, CrashMoney DEF Next

LEMMA InitMoney ==
    ASSUME Init
    PROVE  MoneyOK
<1>1. PICK e \in Entry : e = [Event("case_detected") EXCEPT !.to = SeedRow.status]
  BY Beginnings
<1>2. e.amount = 0
  BY <1>1 DEF Event
<1>3. <<>> \in Seq(Entry) /\ trail = Append(<<>>, e)
  BY <1>1 DEF Init
<1>4. Total(trail) = 0
  BY <1>2, <1>3, TotalOfTheFirst
<1>5. case # NoCase /\ case.recovered = 0
  BY DEF Init, SeedRow, NoCase
<1>6. \A h \in Handler : Carries(call[h])
  BY DEF Init, Carries, Idle
<1> QED
  BY <1>4, <1>5, <1>6 DEF MoneyOK

LEMMA AlwaysMoney ==
    ASSUME NEW h0, Handler = {h0}
    PROVE  Spec => []MoneyOK
<1>1. Init => MoneyOK
  BY InitMoney
<1>2. Sound /\ Sound' /\ MoneyOK /\ [Next]_vars => MoneyOK'
  BY NextMoney
<1> QED
  BY <1>1, <1>2, AlwaysSound, PTL DEF Spec

\* With one thread, whatever is paid, wherever the process dies and however
\* often the tables are emptied: the payments a trail shows add up to no more
\* than the row holds.
THEOREM MoneyIsInTheCaseAlone ==
    ASSUME NEW h0, Handler = {h0}
    PROVE  Spec => []MoneyIsInTheCase
<1>1. MoneyOK => MoneyIsInTheCase
  BY PaidInTrailIsTotal DEF MoneyOK, MoneyIsInTheCase
<1> QED
  BY <1>1, AlwaysMoney, PTL

-----------------------------------------------------------------------------
(***************************************************************************)
(* A case that is paid, with one thread, when no reply to it is begun: the *)
(* trail holds no execution after the payment that settled it.             *)
(***************************************************************************)
PaidIsNotAnswered == [][\A h \in Handler : StartReply(h) => case.status # "paid"]_vars

\* What a thread does with the row it has read.
Busy == Op \ {"list", "delete", "seed", "seed_case"}

Settled == {j \in Of("payment_captured") : trail[j].to = "paid"}

\* Nothing is done with a paid row but to note that it has been paid.
Unsettled(c) ==
    /\ c.op \in Busy => c.row.status # "paid"
    /\ c.op = "append" =>
           /\ c.event.to = c.row.status
           /\ c.row.status = "paid" => c.event.type = "payment_captured" /\ c.next = "done"

PaidOK ==
    /\ Settled # {} => case # NoCase /\ case.status = "paid"
    /\ \A h \in Handler : Unsettled(call[h])
    /\ \A i \in Of("action_executed"), j \in Settled : i < j

\* A row that is not paid, or is by this payment, is saved over one that was not.
Settles(h) ==
    /\ UNCHANGED trail
    /\ call[h].op \in Busy \cup {"seed_case"}
    /\ \E c : /\ call' = [call EXCEPT ![h] = c]
              /\ c.op = "append" /\ c.row = case' /\ c.event.to = c.row.status
              /\ c.row.status = "paid" => c.event.type = "payment_captured" /\ c.next = "done"

\* A thread goes on with a row it may use, or ends.
Uses(h) ==
    /\ UNCHANGED <<case, trail>>
    /\ \E c : /\ call' = [call EXCEPT ![h] = c]
              /\ c.op # "append"
              /\ c.op \in Busy => \/ c.row.status # "paid"
                                  \/ call[h].op \in Busy /\ c.row = call[h].row

LEMMA SettlesBy ==
    ASSUME NEW h \in Handler, NEW row, NEW action, NEW event \in Blank, NEW next,
           Save(h, row, action, event, next), UNCHANGED Rest,
           call[h].op \in Busy \cup {"seed_case"},
           row.status = "paid" => event.type = "payment_captured" /\ next = "done"
    PROVE  Settles(h)
<1>1. PICK c : c = Appending(h, row, action, event, next)
  OBVIOUS
<1>2. c.op = "append" /\ c.row = row /\ c.next = next
  BY <1>1 DEF Appending
<1>3. c.event.to = row.status /\ c.event.type = event.type
  BY <1>1 DEF Appending, Blank
<1>4. call' = [call EXCEPT ![h] = c] /\ case' = row
  BY <1>1 DEF Save, Appending
<1> QED
  BY <1>2, <1>3, <1>4 DEF Settles, Rest

LEMMA GatedIsUnpaid ==
    \A decision \in {"approved", "escalate", "deferred", "rejected"} :
        GatedStatus[decision] \in Status \ {"paid"}
BY DEF GatedStatus, Status

LEMMA ExecutedIsUnpaid ==
    ASSUME NEW type
    PROVE  ExecutedStatus(type) \in Status \ {"paid"}
BY DEF ExecutedStatus, Status

LEMMA ReplyIsUnpaid ==
    ASSUME NEW row \in Row, NEW intent \in Intent, NEW callback
    PROVE  Reply(row, intent, callback).status # "paid"
<1>1. /\ [row EXCEPT !.status = "stopped", !.optOut = TRUE].status = "stopped"
      /\ [row EXCEPT !.status = "awaiting_human", !.dispute = TRUE].status = "awaiting_human"
      /\ [row EXCEPT !.status = "stopped"].status = "stopped"
      /\ [row EXCEPT !.status = "awaiting_human"].status = "awaiting_human"
      /\ [row EXCEPT !.status = "awaiting_response", !.wake = callback].status =
             "awaiting_response"
      /\ [row EXCEPT !.status = "detected", !.wake = Never].status = "detected"
      /\ [row EXCEPT !.status = "ptp_recorded", !.wake = PromiseAt].status = "ptp_recorded"
      /\ [row EXCEPT !.status = "awaiting_response"].status = "awaiting_response"
  BY DEF Row
<1> QED
  BY <1>1 DEF Reply

\* Only a payment saves a row as paid.
LEMMA RunSettles ==
    ASSUME Sound, NEW h \in Handler, Unsettled(call[h]),
           \/ Diagnose(h) \/ Gate(h) \/ SaveExecuted(h) \/ WakeCase(h)
           \/ \E proposal \in Proposals : Strategize(h, proposal)
           \/ \E approve \in BOOLEAN : Decide(h, approve)
    PROVE  Settles(h)
<1>1. PICK old \in Row : old = call[h].row /\ call[h].op \in Busy
  BY ReadRow DEF Diagnose, Gate, SaveExecuted, WakeCase, Strategize, Decide, Op, Busy
<1>2. PICK a \in Row : a = Step(old) /\ a.status = old.status
  <2>1. Step(old) \in Row
    BY SteppedRow
  <2>2. Step(old).status = old.status
    BY DEF Step, Row
  <2> QED
    BY <2>1, <2>2
<1>3. old.status # "paid"
  BY <1>1 DEF Unsettled
<1>4. CASE Diagnose(h)
  <2>1. PICK row : row = [a EXCEPT !.status = "diagnosed", !.llmCalls = @ + 1]
    OBVIOUS
  <2>2. row.status # "paid"
    BY <2>1 DEF Row
  <2>3. PICK event \in Blank : event = Event("diagnosis_completed")
    BY FreeEvents DEF EventType
  <2>4. Save(h, row, NoAction, event, "strategize") /\ UNCHANGED Rest
    BY <1>1, <1>2, <1>4, <2>1, <2>3 DEF Diagnose
  <2> QED
    BY <1>1, <2>2, <2>4, SettlesBy
<1>5. ASSUME NEW proposal \in Proposals, Strategize(h, proposal)
      PROVE  Settles(h)
  <2>1. PICK row : row = [a EXCEPT !.status = "action_proposed", !.attempts = @ + 1,
                                   !.llmCalls = @ + 1]
    OBVIOUS
  <2>2. row.status # "paid"
    BY <2>1 DEF Row
  <2>3. PICK event \in Blank : event = Event("action_proposed")
    BY FreeEvents DEF EventType
  <2>4. \E action : Save(h, row, action, event, "gate") /\ UNCHANGED Rest
    BY <1>1, <1>2, <1>5, <2>1, <2>3 DEF Strategize
  <2> QED
    BY <1>1, <2>2, <2>4, SettlesBy
<1>6. CASE Gate(h)
  <2>1. PICK result : result = Evaluate(call[h].action, GateInput(old), Budget,
                                        clocks[call[h].at], Policy)
    OBVIOUS
  <2>2. result.decision \in {"approved", "escalate", "deferred", "rejected"}
    <3>1. call[h].at \in 1..Len(clocks) /\ clocks \in Seq(Nat)
      BY <1>6, Working DEF Gate, Op, CallOK, Sound, ClocksTyped
    <3>2. clocks[call[h].at] \in Nat
      BY <3>1
    <3> QED
      BY <2>1, <3>2, Decisions
  <2>3. PICK status \in Status \ {"paid"} : status = GatedStatus[result.decision]
    BY <2>2, GatedIsUnpaid
  <2>4. PICK row : row = [a EXCEPT !.status = status,
                                   !.wake = IF result.decision = "deferred" THEN result.retryAt
                                            ELSE @]
    OBVIOUS
  <2>5. row.status # "paid"
    BY <2>3, <2>4 DEF Row
  <2>6. PICK event \in Blank : event = [Event("policy_evaluated") EXCEPT
                                           !.outcome = result.decision]
    BY <2>2, FreeEvents DEF EventType, Outcome
  <2>7. Save(h, row, call[h].action, event, RouteAfterGate(result.decision)) /\ UNCHANGED Rest
    BY <1>1, <1>2, <1>6, <2>1, <2>3, <2>4, <2>6 DEF Gate
  <2> QED
    BY <1>1, <2>5, <2>7, SettlesBy
<1>7. CASE SaveExecuted(h)
  <2>1. PICK status \in Status \ {"paid"} : status = ExecutedStatus(call[h].action.type)
    BY ExecutedIsUnpaid
  <2>2. PICK row : row = IF call[h].op = "replay" THEN a ELSE [a EXCEPT !.status = status]
    OBVIOUS
  <2>3. row.status # "paid"
    <3>1. [a EXCEPT !.status = status].status = status
      BY DEF Row
    <3> QED
      BY <1>2, <1>3, <2>1, <2>2, <3>1
  <2>4. PICK event \in Blank : event = [Event("action_executed") EXCEPT !.outcome = call[h].op]
    BY <1>7, FreeEvents DEF EventType, SaveExecuted, Outcome
  <2>5. Save(h, row, call[h].action, event, "done") /\ UNCHANGED Rest
    BY <1>1, <1>2, <1>7, <2>1, <2>2, <2>4 DEF SaveExecuted
  <2> QED
    BY <1>1, <2>3, <2>5, SettlesBy
<1>8. ASSUME NEW approve \in BOOLEAN, Decide(h, approve)
      PROVE  Settles(h)
  <2>1. PICK row : row = [a EXCEPT !.status = IF approve THEN "action_gated" ELSE "stopped"]
    OBVIOUS
  <2>2. row.status # "paid"
    BY <2>1 DEF Row
  <2>3. PICK event \in Blank :
            event = [Event("human_review_decided") EXCEPT
                        !.outcome = IF approve THEN "approved" ELSE "denied"]
    BY FreeEvents DEF EventType, Outcome
  <2>4. Save(h, row, call[h].action, event, IF approve THEN "execute" ELSE "done")
        /\ UNCHANGED Rest
    BY <1>1, <1>2, <1>8, <2>1, <2>3 DEF Decide
  <2> QED
    BY <1>1, <2>2, <2>4, SettlesBy
<1>9. CASE WakeCase(h)
  <2>1. PICK row : row = [a EXCEPT !.status = "detected", !.wake = Never]
    OBVIOUS
  <2>2. row.status # "paid"
    BY <2>1 DEF Row
  <2>3. PICK o \in Outcome : o = IF a.status = "ptp_recorded" THEN "promise_missed"
                                 ELSE "scheduled_followup_due"
    BY DEF Outcome
  <2>4. PICK event \in Blank : event = [Event("woken") EXCEPT !.outcome = o]
    BY <2>3, FreeEvents DEF EventType
  <2>5. Save(h, row, NoAction, event, "done") /\ UNCHANGED Rest
    BY <1>1, <1>2, <1>9, <2>1, <2>3, <2>4 DEF WakeCase
  <2> QED
    BY <1>1, <2>2, <2>5, SettlesBy
<1> QED
  BY <1>4, <1>5, <1>6, <1>7, <1>8, <1>9

LEMMA CustomerSettles ==
    ASSUME Sound, NEW h \in Handler,
           \/ \E intent \in Intent, callback \in {Clock + DayLength, PromiseAt} :
                  InterpretReply(h, intent, callback)
           \/ \E amount \in 1..Profile.due : ApplyPayment(h, amount)
    PROVE  Settles(h)
<1>1. PICK old \in Row : old = call[h].row /\ call[h].op \in Busy
  BY ReadRow DEF InterpretReply, ApplyPayment, Op, Busy
<1>2. PICK a \in Row : a = Step(old)
  BY SteppedRow
<1>3. ASSUME NEW intent \in Intent, NEW callback, InterpretReply(h, intent, callback)
      PROVE  Settles(h)
  <2>1. PICK b : b = [a EXCEPT !.llmCalls = a.llmCalls + 1]
    OBVIOUS
  <2>2. b \in Row
    BY <2>1 DEF Row
  <2>3. PICK row : row = Reply(b, intent, callback) /\ row.status # "paid"
    BY <2>2, ReplyIsUnpaid
  <2>4. PICK event \in Blank : event = [Event("reply_interpreted") EXCEPT !.outcome = intent]
    BY FreeEvents DEF EventType, Outcome
  <2>5. Save(h, row, NoAction, event, "done") /\ UNCHANGED Rest
    BY <1>1, <1>2, <1>3, <2>1, <2>3, <2>4 DEF InterpretReply
  <2> QED
    BY <1>1, <2>3, <2>5, SettlesBy
<1>4. ASSUME NEW amount \in 1..Profile.due, ApplyPayment(h, amount)
      PROVE  Settles(h)
  <2>1. PICK row : row = [a EXCEPT !.recovered = a.recovered + amount,
                                   !.status = IF a.recovered + amount = Profile.due THEN "paid"
                                              ELSE "partially_paid"]
    OBVIOUS
  <2>2. PICK event \in Blank : /\ event = [Event("payment_captured") EXCEPT !.amount = amount]
                               /\ event.type = "payment_captured"
    <3>1. amount \in Nat /\ "payment_captured" \in EventType
      BY DEF EventType
    <3>2. PICK event : event = [Event("payment_captured") EXCEPT !.amount = amount]
      OBVIOUS
    <3>3. event \in Blank /\ event.type = "payment_captured"
      BY <3>1, <3>2, Events
    <3> QED
      BY <3>2, <3>3
  <2>3. Save(h, row, NoAction, event, "done") /\ UNCHANGED Rest
    <3>1. a.recovered \in Nat /\ amount \in Nat
      BY CaseAssumption DEF Row
    <3> QED
      BY <1>1, <1>2, <1>4, <2>1, <2>2, <3>1 DEF ApplyPayment
  <2> QED
    BY <1>1, <2>2, <2>3, SettlesBy
<1> QED
  BY <1>3, <1>4

LEMMA SeedSettles ==
    ASSUME Sound, NEW h \in Handler, SeedCase(h)
    PROVE  Settles(h)
<1>1. PICK event \in Blank : event = Event("case_detected")
  BY FreeEvents DEF EventType
<1>2. SeedRow.status # "paid" /\ call[h].op = "seed_case"
  BY DEF SeedRow, SeedCase
<1>3. Save(h, SeedRow, NoAction, event, "done") /\ UNCHANGED Rest
  BY <1>1 DEF SeedCase
<1> QED
  BY <1>2, <1>3, SettlesBy

LEMMA BeginUses ==
    ASSUME NEW h \in Handler, NEW op \in Op, NEW at, Begin(h, op, at),
           UNCHANGED <<case, trail>>, op \in Busy => case.status # "paid"
    PROVE  Uses(h)
<1>1. PICK c : c = [op |-> op, row |-> case, action |-> NoAction, at |-> at, epoch |-> epoch]
  OBVIOUS
<1>2. c.op = op /\ c.row = case /\ call' = [call EXCEPT ![h] = c]
  BY <1>1 DEF Begin
<1>3. op # "append"
  BY DEF Op
<1> QED
  BY <1>2, <1>3 DEF Uses

LEMMA ReturnUses ==
    ASSUME NEW h \in Handler, Return(h), UNCHANGED <<case, trail>>
    PROVE  Uses(h)
<1>1. PICK c : c = Idle
  OBVIOUS
<1>2. c.op = "idle" /\ call' = [call EXCEPT ![h] = c]
  BY <1>1 DEF Return, Idle
<1> QED
  BY <1>2 DEF Uses, Busy, Op

LEMMA ContinueUses ==
    ASSUME Sound, NEW h \in Handler, call[h].op \in Op, NEW op \in Op,
           op \in Busy => call[h].op \in Busy,
           Continue(h, op), UNCHANGED <<case, trail>>
    PROVE  Uses(h)
<1>1. call[h] \in Work
  BY Working
<1>2. PICK c : c = [call[h] EXCEPT !.op = op]
  OBVIOUS
<1>3. c.op = op /\ c.row = call[h].row
  BY <1>1, <1>2 DEF Work
<1>4. op # "append"
  BY DEF Op
<1> QED
  BY <1>2, <1>3, <1>4 DEF Uses, Continue

\* Who begins a payment has read a row that lacks some of the amount.
LEMMA PayersAreUnpaid ==
    ASSUME Sound, NEW h \in Handler, StartPayment(h)
    PROVE  case.status # "paid"
<1>1. PICK row : row = case
  OBVIOUS
<1>2. RowOK(row) /\ row.recovered < Profile.due
  BY <1>1 DEF StartPayment, Sound, CaseTyped
<1>3. Profile.due \in Nat
  BY CaseAssumption
<1> QED
  BY <1>1, <1>2, <1>3 DEF RowOK

LEMMA OthersUse ==
    ASSUME Sound, NEW h \in Handler, StartReply(h) => case.status # "paid",
           \/ StartRun(h) \/ AgentFails(h) \/ Register(h) \/ MarkResult(h)
           \/ StartReply(h) \/ StartPayment(h) \/ StartReview(h) \/ ReadProposal(h)
           \/ \E hours \in Hours : AdvanceTime(h, hours)
           \/ ListCases(h) \/ StartReset(h) \/ SeedPortfolio(h)
    PROVE  Uses(h)
<1>1. CASE StartRun(h)
  BY <1>1, BeginUses DEF StartRun, Op
<1>2. CASE StartReply(h)
  BY <1>2, BeginUses DEF StartReply, Op
<1>3. CASE StartPayment(h)
  BY <1>3, PayersAreUnpaid, BeginUses DEF StartPayment, Op
<1>4. CASE StartReview(h)
  BY <1>4, BeginUses DEF StartReview, Op
<1>5. CASE StartReset(h) \/ \E hours \in Hours : AdvanceTime(h, hours)
  BY <1>5, BeginUses DEF StartReset, AdvanceTime, Op, Busy
<1>6. CASE AgentFails(h)
  BY <1>6, ReturnUses DEF AgentFails
<1>7. CASE Register(h)
  BY <1>7, ReturnUses, ContinueUses DEF Register, Op, Busy
<1>8. CASE MarkResult(h)
  BY <1>8, ReturnUses, ContinueUses DEF MarkResult, Op, Busy
<1>9. CASE ReadProposal(h)
  <2>1. call[h] \in Work
    BY <1>9, Working DEF ReadProposal, Op
  <2>2. CASE Proposed = {}
    BY <1>9, <2>2, ReturnUses DEF ReadProposal, Return
  <2>3. CASE Proposed # {}
    <3>1. PICK c : c = [call[h] EXCEPT !.op = "decide", !.action = trail[LastProposal].action]
      OBVIOUS
    <3>2. c.op = "decide" /\ c.row = call[h].row
      BY <2>1, <3>1 DEF Work
    <3>3. call[h].op \in Busy /\ call' = [call EXCEPT ![h] = c]
      BY <1>9, <2>3, <3>1 DEF ReadProposal, Busy, Op
    <3> QED
      BY <1>9, <3>2, <3>3 DEF Uses, ReadProposal
  <2> QED
    BY <2>2, <2>3
<1>10. CASE ListCases(h)
  <2>1. call[h] \in Work
    BY <1>10, Working DEF ListCases, Op
  <2>2. CASE ~IsDue(case, call[h].at)
    BY <1>10, <2>2, ReturnUses DEF ListCases, Return
  <2>3. CASE IsDue(case, call[h].at)
    <3>1. PICK c : c = [call[h] EXCEPT !.op = "wake", !.row = case]
      OBVIOUS
    <3>2. c.op = "wake" /\ c.row = case
      BY <2>1, <3>1 DEF Work
    <3>3. call' = [call EXCEPT ![h] = c]
      BY <1>10, <2>3, <3>1 DEF ListCases
    <3>4. case.status # "paid"
      BY <2>3 DEF IsDue
    <3> QED
      BY <1>10, <3>2, <3>3, <3>4 DEF Uses, ListCases
  <2> QED
    BY <2>2, <2>3
<1>11. CASE SeedPortfolio(h)
  BY <1>11, ReturnUses, ContinueUses DEF SeedPortfolio, Op, Busy
<1> QED
  BY <1>1, <1>2, <1>3, <1>4, <1>5, <1>6, <1>7, <1>8, <1>9, <1>10, <1>11

\* What the steps do to a case that is paid.
LEMMA SettlesPaid ==
    ASSUME NEW h \in Handler, Handler = {h}, Sound, MoneyOK, PaidOK, Settles(h)
    PROVE  PaidOK'
<1>1. PICK c : /\ call' = [call EXCEPT ![h] = c]
               /\ c.op = "append" /\ c.event.to = c.row.status
               /\ c.row.status = "paid" => c.event.type = "payment_captured" /\ c.next = "done"
  BY DEF Settles
<1>2. \A g \in Handler : call'[g] = c
  BY <1>1 DEF Sound, CallsTyped
<1>3. Settled = {}
  <2>1. CASE call[h].op = "seed_case"
    <3>1. Len(trail) = 0
      BY <2>1 DEF MoneyOK, Carries
    <3> QED
      BY <3>1 DEF Settled, Of
  <2>2. CASE call[h].op \in Busy
    <3>1. call[h].row = case /\ call[h].row.status # "paid"
      BY <2>2 DEF MoneyOK, Carries, PaidOK, Unsettled, Busy, Op
    <3> QED
      BY <3>1 DEF PaidOK
  <2> QED
    BY <2>1, <2>2 DEF Settles
<1>4. Settled' = {}
  BY <1>3 DEF Settles, Settled, Of
<1>5. (\A g \in Handler : Unsettled(call[g]))'
  BY <1>1, <1>2 DEF Unsettled, Busy, Op
<1> QED
  BY <1>4, <1>5 DEF PaidOK

LEMMA SamePaid ==
    ASSUME UNCHANGED trail
    PROVE  Settled' = Settled /\ Of("action_executed")' = Of("action_executed")
BY DEF Settled, Of

LEMMA UsesPaid ==
    ASSUME NEW h \in Handler, Handler = {h}, Sound, PaidOK, Uses(h)
    PROVE  PaidOK'
<1>1. PICK c : /\ call' = [call EXCEPT ![h] = c]
               /\ c.op # "append"
               /\ c.op \in Busy => \/ c.row.status # "paid"
                                   \/ call[h].op \in Busy /\ c.row = call[h].row
  BY DEF Uses
<1>2. \A g \in Handler : call'[g] = c
  BY <1>1 DEF Sound, CallsTyped
<1>3. (\A g \in Handler : Unsettled(call[g]))'
  BY <1>1, <1>2 DEF Unsettled, PaidOK
<1> QED
  BY <1>3, SamePaid DEF Uses, PaidOK

LEMMA AppendPaid ==
    ASSUME NEW h \in Handler, Handler = {h}, Sound, MoneyOK, PaidOK, AppendEvent(h)
    PROVE  PaidOK'
<1>1. call[h].op = "append" /\ Carries(call[h]) /\ Unsettled(call[h])
  BY DEF AppendEvent, MoneyOK, PaidOK
<1>2. PICK e \in Entry : e = call[h].event
  BY <1>1, AppendingThread
<1>3. trail' = Append(trail, e) /\ UNCHANGED case
  BY <1>2 DEF AppendEvent
<1>4. /\ e.to = case.status /\ case # NoCase
      /\ case.status = "paid" => e.type = "payment_captured" /\ call[h].next = "done"
  BY <1>1, <1>2 DEF Carries, Unsettled
<1>5. /\ \A j \in Settled' : j \in Settled \/ (j = Len(trail) + 1 /\ e.to = "paid")
      /\ \A i \in Of("action_executed")' :
             i \in Of("action_executed") \/ (i = Len(trail) + 1 /\ e.type = "action_executed")
      /\ \A i \in Of("action_executed") : i < Len(trail) + 1
  BY <1>3, Appended DEF Settled, Of
<1>6. Settled' # {} => case' # NoCase /\ case'.status = "paid"
  BY <1>3, <1>4, <1>5 DEF PaidOK
<1>7. \A i \in Of("action_executed")', j \in Settled' : i < j
  <2> SUFFICES ASSUME NEW i \in Of("action_executed")', NEW j \in Settled' PROVE i < j
    OBVIOUS
  <2>1. case.status = "paid"
    BY <1>3, <1>6
  <2>2. i \in Of("action_executed")
    BY <1>4, <1>5, <2>1
  <2> QED
    BY <1>5, <2>2 DEF PaidOK
<1>8. PICK c : /\ call' = [call EXCEPT ![h] = c]
               /\ c.op # "append"
               /\ c.op \in Busy => call[h].next # "done" /\ c.row = call[h].row
  <2>1. call[h].next \in {"strategize", "gate", "execute", "done"}
    BY <1>1, AppendingThread DEF Saved
  <2>2. CASE call[h].next = "done"
    <3>1. PICK c : c = Idle
      OBVIOUS
    <3>2. c.op = "idle" /\ call' = [call EXCEPT ![h] = c]
      BY <2>2, <3>1 DEF AppendEvent, Idle
    <3> QED
      BY <3>2 DEF Busy, Op
  <2>3. CASE call[h].next # "done"
    <3>1. PICK c : c = [op |-> call[h].next, row |-> call[h].row, action |-> call[h].action,
                        at |-> call[h].at, epoch |-> call[h].epoch]
      OBVIOUS
    <3>2. /\ c.op = call[h].next /\ c.row = call[h].row
          /\ call' = [call EXCEPT ![h] = c]
      BY <2>3, <3>1 DEF AppendEvent
    <3> QED
      BY <2>1, <2>3, <3>2
  <2> QED
    BY <2>2, <2>3
<1>9. \A g \in Handler : call'[g] = c
  BY <1>8 DEF Sound, CallsTyped
<1>10. c.op \in Busy => c.row.status # "paid"
  BY <1>1, <1>4, <1>8 DEF Carries
<1>11. (\A g \in Handler : Unsettled(call[g]))'
  BY <1>8, <1>9, <1>10 DEF Unsettled
<1> QED
  BY <1>6, <1>7, <1>11 DEF PaidOK

LEMMA DeletePaid ==
    ASSUME NEW h \in Handler, Handler = {h}, Sound, DeleteAll(h)
    PROVE  PaidOK'
<1>1. PICK c : c = [call[h] EXCEPT !.op = "seed", !.row = NoCase, !.epoch = epoch + 1]
  OBVIOUS
<1>2. c.op = "seed"
  <2>1. PICK d \in Work : d = call[h]
    BY Working DEF DeleteAll, Op
  <2>2. d = [op |-> d.op, row |-> d.row, action |-> d.action, at |-> d.at, epoch |-> d.epoch]
    BY DEF Work
  <2>3. c = [op |-> "seed", row |-> NoCase, action |-> d.action, at |-> d.at,
             epoch |-> epoch + 1]
    BY <1>1, <2>1, <2>2
  <2> QED
    BY <2>3
<1>3. \A g \in Handler : call'[g] = c
  BY <1>1 DEF DeleteAll, Sound, CallsTyped
<1>4. (\A g \in Handler : Unsettled(call[g]))'
  BY <1>2, <1>3 DEF Unsettled, Busy
<1>5. Len(trail') = 0
  BY DEF DeleteAll
<1>6. Settled' = {}
  BY <1>5 DEF Settled, Of
<1> QED
  BY <1>4, <1>6 DEF PaidOK

LEMMA CrashPaid ==
    ASSUME Sound, MoneyOK, PaidOK, NEW logged \in BOOLEAN, Crash(logged)
    PROVE  PaidOK'
<1>1. \A g \in Handler : call'[g] = Idle
  BY DEF Crash
<1>2. (\A g \in Handler : Unsettled(call[g]))'
  BY <1>1 DEF Unsettled, Idle, Busy, Op
<1>3. CASE UNCHANGED <<case, trail>>
  BY <1>2, <1>3, SamePaid DEF PaidOK
<1>4. CASE case = NoCase /\ case' = SeedRow
  <2>1. PICK e \in Entry :
            e = [Event("case_detected") EXCEPT !.to = SeedRow.status, !.epoch = epoch]
    BY Beginnings DEF Sound
  <2>2. e.to # "paid"
    BY <2>1 DEF Event, SeedRow
  <2>3. Len(trail) = 0
    BY <1>4 DEF MoneyOK
  <2>4. trail' = trail \/ trail' = Append(trail, e)
    BY <1>4, <2>1 DEF Crash, SeedRow, NoCase
  <2>5. Settled' = {}
    <3>1. CASE trail' = trail
      BY <2>3, <3>1 DEF Settled, Of
    <3>2. CASE trail' = Append(trail, e)
      BY <2>2, <2>3, <3>2, Appended DEF Settled, Of
    <3> QED
      BY <2>4, <3>1, <3>2
  <2> QED
    BY <1>2, <2>5 DEF PaidOK
<1> QED
  BY <1>3, <1>4 DEF Crash

LEMMA UnchangedPaid ==
    ASSUME PaidOK, UNCHANGED <<case, trail, call>>
    PROVE  PaidOK'
<1>1. (\A g \in Handler : Unsettled(call[g]))'
  <2> SUFFICES ASSUME NEW g \in Handler PROVE Unsettled(call[g])'
    OBVIOUS
  <2> QED
    BY DEF PaidOK, Unsettled
<1> QED
  BY <1>1, SamePaid DEF PaidOK

LEMMA NextPaid ==
    ASSUME NEW h0, Handler = {h0}, Sound, MoneyOK, PaidOK, [Next]_vars,
           [\A h \in Handler : StartReply(h) => case.status # "paid"]_vars
    PROVE  PaidOK'
<1>1. CASE SaveOther \/ UNCHANGED vars
  BY <1>1, UnchangedPaid DEF SaveOther, vars
<1>2. CASE ~UNCHANGED vars
  <2>1. ASSUME NEW h \in Handler, Run(h) \/ Customer(h) \/ Operator(h)
        PROVE  PaidOK'
    <3>1. Handler = {h} /\ Unsettled(call[h]) /\ (StartReply(h) => case.status # "paid")
      BY <1>2 DEF PaidOK
    <3>2. Run(h) => Uses(h) \/ Settles(h)
      BY <3>1, RunSettles, OthersUse DEF Run
    <3>3. Customer(h) => Uses(h) \/ Settles(h)
      BY <3>1, CustomerSettles, OthersUse DEF Customer
    <3>4. Operator(h) => Uses(h) \/ Settles(h) \/ DeleteAll(h)
      <4>1. \/ \E approve \in BOOLEAN : Decide(h, approve)
            \/ WakeCase(h)
            => Settles(h)
        BY <3>1, RunSettles
      <4>2. \/ StartReview(h) \/ ReadProposal(h)
            \/ \E hours \in Hours : AdvanceTime(h, hours)
            \/ ListCases(h) \/ StartReset(h) \/ SeedPortfolio(h)
            => Uses(h)
        BY <3>1, OthersUse
      <4> QED
        BY <4>1, <4>2, SeedSettles DEF Operator
    <3> QED
      BY <2>1, <3>1, <3>2, <3>3, <3>4, UsesPaid, SettlesPaid, DeletePaid
  <2>2. ASSUME NEW h \in Handler, AppendEvent(h)
        PROVE  PaidOK'
    BY <2>2, AppendPaid
  <2> QED
    BY <1>1, <1>2, <2>1, <2>2, CrashPaid DEF Next
<1> QED
  BY <1>1, <1>2

LEMMA InitPaid ==
    ASSUME Init
    PROVE  PaidOK
<1>1. PICK e \in Entry : e = [Event("case_detected") EXCEPT !.to = SeedRow.status]
  BY Beginnings
<1>2. e.to # "paid"
  BY <1>1 DEF Event, SeedRow
<1>3. Len(trail) = 1 /\ trail[1] = e
  BY <1>1 DEF Init
<1>4. Settled = {}
  BY <1>2, <1>3 DEF Settled, Of
<1>5. \A h \in Handler : Unsettled(call[h])
  BY DEF Init, Unsettled, Idle, Busy, Op
<1> QED
  BY <1>4, <1>5 DEF PaidOK

\* With one thread, when no reply to a paid case is begun: after the payment
\* that settles a case nothing is executed, and so nobody is contacted, until
\* the tables are emptied.
THEOREM PaidIsNotContactedAlone ==
    ASSUME NEW h0, Handler = {h0}
    PROVE  Spec /\ PaidIsNotAnswered => []PaidIsNotContacted
<1>1. Init => PaidOK
  BY InitPaid
<1>2. Sound /\ MoneyOK /\ PaidOK /\ [Next]_vars
          /\ [\A h \in Handler : StartReply(h) => case.status # "paid"]_vars => PaidOK'
  BY NextPaid
<1>3. PaidOK => PaidIsNotContacted
  <2> SUFFICES ASSUME PaidOK, NEW i \in Effects, NEW j \in Of("payment_captured"),
                      j < i, trail[j].to = "paid"
               PROVE  FALSE
    BY DEF PaidIsNotContacted
  <2>1. i \in Of("action_executed") /\ j \in Settled
    BY DEF Effects, Executed, Settled
  <2>2. i \in Int /\ j \in Int
    BY DEF Of, Effects, Executed
  <2> QED
    BY <2>1, <2>2 DEF PaidOK
<1> QED
  BY <1>1, <1>2, <1>3, AlwaysSound, AlwaysMoney, PTL DEF Spec, PaidIsNotAnswered
=============================================================================
