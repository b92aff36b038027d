------------------------- MODULE Intervention_proofs ------------------------
(***************************************************************************)
(* Proofs about Intervention, for any findings, merchants, patterns,       *)
(* threads and number of demo runs.                                        *)
(***************************************************************************)
EXTENDS Intervention, TLAPS

\* What a thread in the middle of an operation has read, by operation.
LEMMA CallShape ==
    ASSUME TypeOK, NEW h \in Handler
    PROVE  /\ call[h].op = "correlate" =>
                /\ call[h].finding \in Finding
                /\ call[h].basis \in Nat
           /\ call[h].op = "record" =>
                /\ call[h].finding \in Finding
                /\ call[h].basis \in Nat
                /\ call[h].scope \in Scope
           /\ call[h].op = "request" =>
                /\ call[h].finding \in Finding
                /\ call[h].basis \in Nat
                /\ call[h].scope \in Scope
                /\ call[h].approval_required \in BOOLEAN
           /\ call[h].op \in InterventionOp => call[h].finding \in Finding
<1>1. call[h] \in EvidenceCall \cup InvestigationCall \cup InterventionCall
  BY DEF TypeOK
<1> QED
  BY <1>1 DEF EvidenceCall, InvestigationCall, InterventionCall, InterventionOp

\* A handler that ends leaves a well-typed call behind.
LEMMA ReturnType ==
    ASSUME TypeOK, NEW h \in Handler, Return(h)
    PROVE  call' \in [Handler -> EvidenceCall \cup InvestigationCall \cup InterventionCall]
BY DEF TypeOK, Return, Idle, EvidenceCall

\* The clusters of any set of findings are patterns of findings.
LEMMA ClusterPatternsType ==
    ASSUME NEW S \in SUBSET Finding
    PROVE  ClusterPatterns(S) \subseteq {PatternOf[f] : f \in Finding}
BY DEF ClusterPatterns

\* A policy decision, and the status it gives.
LEMMA PolicyType ==
    ASSUME NEW scope \in Scope, NEW required \in BOOLEAN
    PROVE  /\ PolicyDecision(scope, required) \in Decision
           /\ PolicyStatus(PolicyDecision(scope, required)) \in Status
BY DEF PolicyDecision, PolicyStatus, Decision, Status

LEMMA OutcomeType ==
    ASSUME NEW outcome \in Outcome
    PROVE  StatusOfOutcome(outcome) \in MeasuredStatus
BY DEF Outcome, StatusOfOutcome, MeasuredStatus

\* Appending an event keeps the trails sequences of events.
LEMMA AppendEventType ==
    ASSUME TypeOK, NEW f \in Finding, NEW type, NEW detail,
           [type |-> type, detail |-> detail] \in Event,
           AppendEvent(f, type, detail)
    PROVE  events' \in [Finding -> Seq(Event)]
<1>1. Append(events[f], [type |-> type, detail |-> detail]) \in Seq(Event)
  BY DEF TypeOK
<1> QED
  BY <1>1 DEF TypeOK, AppendEvent

\* A row whose status is known to be one of a stored row is a stored row.
LEMMA StoredRow ==
    ASSUME TypeOK, NEW f \in Finding, intervention[f].status \in Status
    PROVE  intervention[f] \in InterventionRow
BY DEF TypeOK, NoIntervention, Status

LEMMA SetStatusType ==
    ASSUME TypeOK, NEW f \in Finding, NEW status \in Status,
           intervention[f].status \in Status, SetStatus(f, status)
    PROVE  intervention' \in [Finding -> InterventionRow \cup {NoIntervention}]
<1>1. [intervention[f] EXCEPT !.status = status] \in InterventionRow
  BY StoredRow DEF InterventionRow
<1> QED
  BY <1>1 DEF TypeOK, SetStatus

\* The one shape approve, execute and rollback share.
LEMMA AdvanceType ==
    ASSUME TypeOK, NEW h \in Handler, NEW f \in Finding,
           NEW from \in Status, NEW to \in Status, NEW type, NEW detail,
           [type |-> type, detail |-> detail] \in Event,
           UNCHANGED <<evidenceVars, investigation>>, Return(h),
           Advance(f, from, to, type, detail)
    PROVE  TypeOK'
<1>1. call' \in [Handler -> EvidenceCall \cup InvestigationCall \cup InterventionCall]
  BY ReturnType
<1>2. /\ intervention' \in [Finding -> InterventionRow \cup {NoIntervention}]
      /\ events' \in [Finding -> Seq(Event)]
  <2>1. CASE intervention[f].status = from
    <3>1. SetStatus(f, to) /\ AppendEvent(f, type, detail)
      BY <2>1 DEF Advance
    <3> QED
      BY <2>1, <3>1, SetStatusType, AppendEventType
  <2>2. CASE intervention[f].status # from
    BY <2>2 DEF Advance, Unstored, TypeOK
  <2> QED
    BY <2>1, <2>2
<1> QED
  BY <1>1, <1>2 DEF TypeOK, evidenceVars

-----------------------------------------------------------------------------
LEMMA InitType == Init => TypeOK
<1> SUFFICES ASSUME Init PROVE TypeOK
  OBVIOUS
<1>1. run \in 0..MaxRuns
  BY EvidenceAssumption DEF Init, EvidenceInit
<1>2. /\ flagged \subseteq Finding
      /\ findings \subseteq Finding
      /\ clusters \subseteq {PatternOf[f] : f \in Finding}
  BY ClusterPatternsType DEF Init, EvidenceInit, Seeded
<1>3. call \in [Handler -> EvidenceCall \cup InvestigationCall \cup InterventionCall]
  BY DEF Init, EvidenceInit, Idle, EvidenceCall
<1>4. events \in [Finding -> Seq(Event)]
  BY DEF Init
<1> QED
  BY <1>1, <1>2, <1>3, <1>4 DEF TypeOK, Init, EvidenceInit, InvestigationInit

\* Every step, of any thread, keeps the types.
LEMMA StepType == TypeOK /\ [Next]_vars => TypeOK'
<1> SUFFICES ASSUME TypeOK, [Next]_vars PROVE TypeOK'
  OBVIOUS
<1>1. CASE Crash
  <2>1. call' \in [Handler -> EvidenceCall \cup InvestigationCall \cup InterventionCall]
    BY <1>1 DEF Crash, Restart, Idle, EvidenceCall
  <2>2. /\ live' = live /\ run' = run /\ flagged' = flagged
        /\ findings' \subseteq Finding
        /\ clusters' \subseteq {PatternOf[f] : f \in Finding}
    BY <1>1, ClusterPatternsType DEF Crash, Restart, WriteFindings, evidenceVars, TypeOK
  <2> QED
    BY <1>1, <2>1, <2>2 DEF Crash, Unstored, TypeOK
<1>2. ASSUME NEW h \in Handler, CreateRun(h) PROVE TypeOK'
  <2>1. call' \in [Handler -> EvidenceCall \cup InvestigationCall \cup InterventionCall]
    BY <1>2 DEF CreateRun, SeedRun, Begin, EvidenceCall, TypeOK
  <2>2. run' \in 0..MaxRuns
    BY <1>2, EvidenceAssumption DEF CreateRun, SeedRun, TypeOK
  <2>3. events' \in [Finding -> Seq(Event)]
    BY <1>2 DEF CreateRun
  <2> QED
    BY <1>2, <2>1, <2>2, <2>3 DEF CreateRun, SeedRun, Seeded, TypeOK
<1>3. ASSUME NEW h \in Handler, EvidenceStep(h) PROVE TypeOK'
  <2>1. call' \in [Handler -> EvidenceCall \cup InvestigationCall \cup InterventionCall]
    <3>1. CASE StartDetection(h)
      BY <3>1 DEF StartDetection, Begin, EvidenceCall, TypeOK
    <3>2. CASE CountFindings(h)
      <4>1. (IF findings = {} THEN [op |-> "detect"] ELSE Idle) \in EvidenceCall
        BY DEF Idle, EvidenceCall
      <4> QED
        BY <3>2, <4>1 DEF CountFindings, Continue, TypeOK
    <3>3. CASE Detect(h, Investigated)
      BY <3>3, ReturnType DEF Detect
    <3> QED
      BY <1>3, <3>1, <3>2, <3>3 DEF EvidenceStep
  <2>2. /\ live' = live /\ run' = run /\ flagged' = flagged
        /\ findings' \subseteq Finding
        /\ clusters' \subseteq {PatternOf[f] : f \in Finding}
    BY <1>3, ClusterPatternsType
       DEF EvidenceStep, StartDetection, CountFindings, Detect, WriteFindings,
           evidenceVars, TypeOK
  <2> QED
    BY <1>3, <2>1, <2>2 DEF EvidenceStep, Unstored, TypeOK
<1>4. ASSUME NEW h \in Handler, InvestigationStep(h) PROVE TypeOK'
  <2>1. ASSUME NEW f \in Finding, ReadFinding(h, f)
        PROVE  call' \in [Handler -> EvidenceCall \cup InvestigationCall \cup InterventionCall]
    BY <2>1 DEF ReadFinding, Begin, InvestigationCall, TypeOK
  <2>2. ASSUME ReadCluster(h)
        PROVE  call' \in [Handler -> EvidenceCall \cup InvestigationCall \cup InterventionCall]
    BY <2>2, CallShape
       DEF ReadCluster, Continue, ScopeOf, Scope, InvestigationCall, TypeOK
  <2>3. ASSUME RecordInvestigation(h) PROVE TypeOK'
    <3>1. call' \in [Handler -> EvidenceCall \cup InvestigationCall \cup InterventionCall]
      BY <2>3, ReturnType DEF RecordInvestigation
    <3>2. investigation' \in [Finding -> InvestigationRow \cup {NoInvestigation}]
      <4>1. /\ call[h].finding \in Finding /\ call[h].basis \in Nat
            /\ call[h].scope \in Scope
        BY <2>3, CallShape DEF RecordInvestigation
      <4>2. ApprovalRequired(call[h].scope) \in BOOLEAN
        BY DEF ApprovalRequired
      <4>3. [scope |-> call[h].scope, basis |-> call[h].basis,
             approval_required |-> ApprovalRequired(call[h].scope)] \in InvestigationRow
        BY <4>1, <4>2 DEF InvestigationRow
      <4> QED
        BY <2>3, <4>1, <4>3 DEF RecordInvestigation, TypeOK
    <3> QED
      BY <1>4, <2>3, <3>1, <3>2
         DEF InvestigationStep, RecordInvestigation, Unstored, evidenceVars, TypeOK
  <2> QED
    BY <1>4, <2>1, <2>2, <2>3
       DEF InvestigationStep, ReadFinding, ReadCluster, Unstored, evidenceVars, TypeOK
<1>5. ASSUME NEW h \in Handler, NEW f \in Finding, ReadInvestigation(h, f) PROVE TypeOK'
  <2>1. investigation[f] \in InvestigationRow
    BY <1>5 DEF ReadInvestigation, Investigated, TypeOK
  <2>2. call' \in [Handler -> EvidenceCall \cup InvestigationCall \cup InterventionCall]
    BY <1>5, <2>1
       DEF ReadInvestigation, Begin, InvestigationRow, InterventionCall, TypeOK
  <2> QED
    BY <1>5, <2>2 DEF ReadInvestigation, Unstored, evidenceVars, TypeOK
<1>6. ASSUME NEW h \in Handler, RequestIntervention(h) PROVE TypeOK'
  <2> DEFINE c == call[h]
             decision == PolicyDecision(c.scope, c.approval_required)
  <2>1. /\ c.finding \in Finding /\ c.basis \in Nat
        /\ decision \in Decision /\ PolicyStatus(decision) \in Status
    BY <1>6, CallShape, PolicyType DEF RequestIntervention
  <2>2. call' \in [Handler -> EvidenceCall \cup InvestigationCall \cup InterventionCall]
    BY <1>6, ReturnType DEF RequestIntervention
  <2>3. /\ intervention' \in [Finding -> InterventionRow \cup {NoIntervention}]
        /\ events' \in [Finding -> Seq(Event)]
    <3>1. CASE c.finding \in Investigated \ Intervened
      <4>1. intervention' = [intervention EXCEPT ![c.finding] =
                [status |-> PolicyStatus(decision), policy_decision |-> decision,
                 basis |-> c.basis, outcome |-> "none"]]
        BY <1>6, <3>1 DEF RequestIntervention
      <4>2. AppendEvent(c.finding, "policy_evaluated", decision)
        BY <1>6, <3>1 DEF RequestIntervention
      <4>3. intervention' \in [Finding -> InterventionRow \cup {NoIntervention}]
        BY <2>1, <4>1 DEF InterventionRow, TypeOK
      <4>4. [type |-> "policy_evaluated", detail |-> decision] \in Event
        BY <2>1 DEF Event
      <4> HIDE DEF c, decision
      <4> QED
        BY <2>1, <4>2, <4>3, <4>4, AppendEventType
    <3>2. CASE c.finding \notin Investigated \ Intervened
      BY <1>6, <3>2 DEF RequestIntervention, Unstored, TypeOK
    <3> QED
      BY <3>1, <3>2
  <2> QED
    BY <1>6, <2>2, <2>3 DEF RequestIntervention, evidenceVars, TypeOK
<1>7. ASSUME NEW h \in Handler, NEW f \in Finding, NEW op \in InterventionOp,
             CheckOwnership(h, op, f)
      PROVE  TypeOK'
  <2>1. call' \in [Handler -> EvidenceCall \cup InvestigationCall \cup InterventionCall]
    BY <1>7 DEF CheckOwnership, Begin, InterventionCall, TypeOK
  <2> QED
    BY <1>7, <2>1 DEF CheckOwnership, Unstored, evidenceVars, TypeOK
<1>8. ASSUME NEW h \in Handler, ApproveIntervention(h) PROVE TypeOK'
  <2>1. call[h].op \in {"approve", "deny"} /\ call[h].finding \in Finding
    BY <1>8, CallShape DEF ApproveIntervention, Finish, InterventionOp
  <2>2. [type |-> "merchant_approval_recorded", detail |-> call[h].op] \in Event
    BY <2>1 DEF Event
  <2>3. (IF call[h].op = "approve" THEN "approved" ELSE "rejected") \in Status
    BY DEF Status
  <2>4. "awaiting_approval" \in Status
    BY DEF Status
  <2> QED
    BY <1>8, <2>1, <2>2, <2>3, <2>4, AdvanceType DEF ApproveIntervention, Finish
<1>9. ASSUME NEW h \in Handler, ExecuteIntervention(h) PROVE TypeOK'
  <2>1. call[h].finding \in Finding
    BY <1>9, CallShape DEF ExecuteIntervention, Finish, InterventionOp
  <2>2. [type |-> "bounded_action_executed", detail |-> "none"] \in Event
    BY DEF Event
  <2>3. "approved" \in Status /\ "executed" \in Status
    BY DEF Status
  <2> QED
    BY <1>9, <2>1, <2>2, <2>3, AdvanceType DEF ExecuteIntervention, Finish
<1>10. ASSUME NEW h \in Handler, VerifyIntervention(h) PROVE TypeOK'
  <2> DEFINE f == call[h].finding
  <2>1. f \in Finding
    BY <1>10, CallShape DEF VerifyIntervention, Finish, InterventionOp
  <2>2. call' \in [Handler -> EvidenceCall \cup InvestigationCall \cup InterventionCall]
    BY <1>10, ReturnType DEF VerifyIntervention, Finish
  <2>3. /\ intervention' \in [Finding -> InterventionRow \cup {NoIntervention}]
        /\ events' \in [Finding -> Seq(Event)]
    <3>1. CASE intervention[f].status = "executed"
      <4>1. PICK outcome \in Outcome :
                /\ PersistMeasurement(f, outcome)
                /\ AppendEvent(f, "treated_vs_holdout_verified", outcome)
        BY <1>10, <3>1 DEF VerifyIntervention
      <4>2. intervention[f] \in InterventionRow
        BY <2>1, <3>1, StoredRow DEF Status
      <4>3. StatusOfOutcome(outcome) \in Status
        BY OutcomeType DEF MeasuredStatus, Status
      <4>4. intervention' \in [Finding -> InterventionRow \cup {NoIntervention}]
        BY <2>1, <4>1, <4>2, <4>3 DEF PersistMeasurement, InterventionRow, TypeOK
      <4>5. [type |-> "treated_vs_holdout_verified", detail |-> outcome] \in Event
        BY DEF Event
      <4> HIDE DEF f
      <4> QED
        BY <2>1, <4>1, <4>4, <4>5, AppendEventType
    <3>2. CASE intervention[f].status # "executed"
      BY <1>10, <3>2 DEF VerifyIntervention, Unstored, TypeOK
    <3> QED
      BY <3>1, <3>2
  <2> QED
    BY <1>10, <2>2, <2>3 DEF VerifyIntervention, Finish, evidenceVars, TypeOK
<1>11. ASSUME NEW h \in Handler, RollbackIntervention(h) PROVE TypeOK'
  <2>1. call[h].finding \in Finding
    BY <1>11, CallShape DEF RollbackIntervention, Finish, InterventionOp
  <2>2. [type |-> "rollback_completed", detail |-> "none"] \in Event
    BY DEF Event
  <2>3. "rollback_required" \in Status /\ "rolled_back" \in Status
    BY DEF Status
  <2> QED
    BY <1>11, <2>1, <2>2, <2>3, AdvanceType DEF RollbackIntervention, Finish
<1>12. ASSUME NEW f \in Finding, LivePayment(f) PROVE TypeOK'
  BY <1>12 DEF LivePayment, RecordLivePayment, Unstored, TypeOK
<1>13. CASE UNCHANGED vars
  BY <1>13 DEF vars, evidenceVars, TypeOK
<1> QED
  BY <1>1, <1>2, <1>3, <1>4, <1>5, <1>6, <1>7, <1>8, <1>9, <1>10, <1>11, <1>12, <1>13 DEF Next

\* The state stays well typed: tables hold rows of their CHECK constraints'
\* values and threads hold what the code can have read.
THEOREM TypeCorrect == Spec => []TypeOK
<1> QED
  BY InitType, StepType, PTL DEF Spec

-----------------------------------------------------------------------------
(***************************************************************************)
(* The audit trail.  What a step does to the intervention rows and their   *)
(* trails is one of three things: nothing, forget them all, or append to   *)
(* one trail an event that may occur in the row's status and explains the  *)
(* status it leaves.                                                       *)
(***************************************************************************)
Explained(f) ==
    \E e \in Event :
        /\ StatusBefore(e) = intervention[f].status
        /\ StatusAfter(e) = intervention'[f].status
        /\ events'[f] = Append(events[f], e)
        /\ \A g \in Finding \ {f} :
              intervention'[g] = intervention[g] /\ events'[g] = events[g]

Forgotten ==
    /\ run' = run + 1
    /\ intervention' = [f \in Finding |-> NoIntervention]
    /\ events' = [f \in Finding |-> <<>>]

LEMMA AdvanceExplained ==
    ASSUME TypeOK, NEW f \in Finding, NEW from \in Status, NEW to \in Status,
           NEW type, NEW detail,
           [type |-> type, detail |-> detail] \in Event,
           StatusBefore([type |-> type, detail |-> detail]) = from,
           StatusAfter([type |-> type, detail |-> detail]) = to,
           Advance(f, from, to, type, detail)
    PROVE  Explained(f) \/ Unstored
<1>1. CASE intervention[f].status = from
  <2> DEFINE e == [type |-> type, detail |-> detail]
  <2>1. intervention[f] \in InterventionRow
    BY <1>1, StoredRow
  <2>2. intervention' = [intervention EXCEPT ![f].status = to]
    BY <1>1 DEF Advance, SetStatus
  <2>3. intervention'[f].status = to
    BY <2>1, <2>2 DEF TypeOK, InterventionRow
  <2>4. events' = [events EXCEPT ![f] = Append(events[f], e)]
    BY <1>1 DEF Advance, AppendEvent
  <2>5. \A g \in Finding \ {f} : intervention'[g] = intervention[g] /\ events'[g] = events[g]
    BY <2>2, <2>4 DEF TypeOK
  <2>6. events'[f] = Append(events[f], e)
    BY <2>4 DEF TypeOK
  <2>7. e \in Event /\ StatusBefore(e) = intervention[f].status /\ StatusAfter(e) = to
    BY <1>1
  <2> HIDE DEF e
  <2> QED
    BY <2>3, <2>5, <2>6, <2>7 DEF Explained
<1>2. CASE intervention[f].status # from
  BY <1>2 DEF Advance
<1> QED
  BY <1>1, <1>2

\* Every step of the system, seen from the trails.
LEMMA StepExplained ==
    ASSUME TypeOK, [Next]_vars
    PROVE  \/ Unstored
           \/ Forgotten
           \/ /\ run' = run
              /\ \E f \in Finding : Explained(f)
<1>1. CASE Crash \/ \E f \in Finding : LivePayment(f)
  BY <1>1 DEF Crash, LivePayment
<1>2. ASSUME NEW h \in Handler, CreateRun(h) PROVE Forgotten
  BY <1>2 DEF CreateRun, SeedRun, Forgotten
<1>3. ASSUME NEW h \in Handler,
             \/ EvidenceStep(h)
             \/ InvestigationStep(h)
             \/ \E f \in Finding : ReadInvestigation(h, f)
             \/ \E f \in Finding, op \in InterventionOp : CheckOwnership(h, op, f)
      PROVE  Unstored
  BY <1>3 DEF EvidenceStep, InvestigationStep, ReadInvestigation, CheckOwnership
<1>4. ASSUME NEW h \in Handler, RequestIntervention(h)
      PROVE  Unstored \/ (run' = run /\ Explained(call[h].finding))
  <2> DEFINE c == call[h]
             f == c.finding
             decision == PolicyDecision(c.scope, c.approval_required)
             e == [type |-> "policy_evaluated", detail |-> decision]
  <2>1. f \in Finding /\ decision \in Decision
    BY <1>4, CallShape, PolicyType DEF RequestIntervention
  <2>2. CASE f \in Investigated \ Intervened
    <3>1. intervention' = [intervention EXCEPT ![f] =
              [status |-> PolicyStatus(decision), policy_decision |-> decision,
               basis |-> c.basis, outcome |-> "none"]]
      BY <1>4, <2>2 DEF RequestIntervention
    <3>2. events' = [events EXCEPT ![f] = Append(events[f], e)]
      BY <1>4, <2>2 DEF RequestIntervention, AppendEvent
    <3>3. intervention[f].status = "absent"
      BY <2>1, <2>2 DEF Intervened, NoIntervention
    <3>4. intervention'[f].status = PolicyStatus(decision)
      BY <2>1, <3>1 DEF TypeOK
    <3>5. e \in Event
      BY <2>1 DEF Event
    <3>6. StatusBefore(e) = "absent" /\ StatusAfter(e) = PolicyStatus(decision)
      BY DEF StatusBefore, StatusAfter
    <3>7. /\ events'[f] = Append(events[f], e)
          /\ \A g \in Finding \ {f} : intervention'[g] = intervention[g] /\ events'[g] = events[g]
      BY <2>1, <3>1, <3>2 DEF TypeOK
    <3>8. run' = run
      BY <1>4 DEF RequestIntervention, evidenceVars
    <3> HIDE DEF c, f, decision, e
    <3> QED
      BY <3>3, <3>4, <3>5, <3>6, <3>7, <3>8 DEF Explained, f, c
  <2>3. CASE f \notin Investigated \ Intervened
    BY <1>4, <2>3 DEF RequestIntervention
  <2> QED
    BY <2>2, <2>3
<1>5. ASSUME NEW h \in Handler, ApproveIntervention(h)
      PROVE  Unstored \/ (run' = run /\ Explained(call[h].finding))
  <2> DEFINE to == IF call[h].op = "approve" THEN "approved" ELSE "rejected"
             e == [type |-> "merchant_approval_recorded", detail |-> call[h].op]
  <2>1. call[h].op \in {"approve", "deny"} /\ call[h].finding \in Finding
    BY <1>5, CallShape DEF ApproveIntervention, Finish, InterventionOp
  <2>2. e \in Event /\ to \in Status /\ "awaiting_approval" \in Status
    BY <2>1 DEF Event, Status
  <2>3. StatusBefore(e) = "awaiting_approval" /\ StatusAfter(e) = to
    BY DEF StatusBefore, StatusAfter
  <2>4. Advance(call[h].finding, "awaiting_approval", to,
                "merchant_approval_recorded", call[h].op)
    BY <1>5 DEF ApproveIntervention
  <2>5. run' = run
    BY <1>5 DEF ApproveIntervention, Finish, evidenceVars
  <2> HIDE DEF to
  <2> QED
    BY <2>1, <2>2, <2>3, <2>4, <2>5, AdvanceExplained
<1>6. ASSUME NEW h \in Handler, ExecuteIntervention(h)
      PROVE  Unstored \/ (run' = run /\ Explained(call[h].finding))
  <2> DEFINE e == [type |-> "bounded_action_executed", detail |-> "none"]
  <2>1. call[h].finding \in Finding /\ run' = run
    BY <1>6, CallShape DEF ExecuteIntervention, Finish, InterventionOp, evidenceVars
  <2>2. e \in Event /\ "approved" \in Status /\ "executed" \in Status
    BY DEF Event, Status
  <2>3. StatusBefore(e) = "approved" /\ StatusAfter(e) = "executed"
    BY DEF StatusBefore, StatusAfter
  <2> QED
    BY <1>6, <2>1, <2>2, <2>3, AdvanceExplained DEF ExecuteIntervention
<1>7. ASSUME NEW h \in Handler, VerifyIntervention(h)
      PROVE  Unstored \/ (run' = run /\ Explained(call[h].finding))
  <2> DEFINE f == call[h].finding
  <2>1. f \in Finding /\ run' = run
    BY <1>7, CallShape DEF VerifyIntervention, Finish, InterventionOp, evidenceVars
  <2>2. CASE intervention[f].status = "executed"
    <3>1. PICK outcome \in Outcome :
              /\ PersistMeasurement(f, outcome)
              /\ AppendEvent(f, "treated_vs_holdout_verified", outcome)
      BY <1>7, <2>2 DEF VerifyIntervention
    <3> DEFINE e == [type |-> "treated_vs_holdout_verified", detail |-> outcome]
    <3>2. intervention[f] \in InterventionRow
      BY <2>1, <2>2, StoredRow DEF Status
    <3>3. intervention'[f].status = StatusOfOutcome(outcome)
      BY <2>1, <3>1, <3>2 DEF PersistMeasurement, InterventionRow, TypeOK
    <3>4. e \in Event
      BY DEF Event
    <3>5. StatusBefore(e) = "executed" /\ StatusAfter(e) = StatusOfOutcome(outcome)
      BY DEF StatusBefore, StatusAfter
    <3>6. /\ events'[f] = Append(events[f], e)
          /\ \A g \in Finding \ {f} : intervention'[g] = intervention[g] /\ events'[g] = events[g]
      BY <2>1, <3>1 DEF PersistMeasurement, AppendEvent, TypeOK
    <3> HIDE DEF e
    <3> QED
      BY <2>1, <2>2, <3>3, <3>4, <3>5, <3>6 DEF Explained
  <2>3. CASE intervention[f].status # "executed"
    BY <1>7, <2>3 DEF VerifyIntervention
  <2> QED
    BY <2>2, <2>3
<1>8. ASSUME NEW h \in Handler, RollbackIntervention(h)
      PROVE  Unstored \/ (run' = run /\ Explained(call[h].finding))
  <2> DEFINE e == [type |-> "rollback_completed", detail |-> "none"]
  <2>1. call[h].finding \in Finding /\ run' = run
    BY <1>8, CallShape DEF RollbackIntervention, Finish, InterventionOp, evidenceVars
  <2>2. e \in Event /\ "rollback_required" \in Status /\ "rolled_back" \in Status
    BY DEF Event, Status
  <2>3. StatusBefore(e) = "rollback_required" /\ StatusAfter(e) = "rolled_back"
    BY DEF StatusBefore, StatusAfter
  <2> QED
    BY <1>8, <2>1, <2>2, <2>3, AdvanceExplained DEF RollbackIntervention
<1>9. CASE UNCHANGED vars
  BY <1>9 DEF vars, Unstored
<1>10. ASSUME NEW h \in Handler,
              \/ RequestIntervention(h) \/ ApproveIntervention(h) \/ ExecuteIntervention(h)
              \/ VerifyIntervention(h) \/ RollbackIntervention(h)
       PROVE  call[h].finding \in Finding
  BY <1>10, CallShape
     DEF RequestIntervention, ApproveIntervention, ExecuteIntervention,
         VerifyIntervention, RollbackIntervention, Finish, InterventionOp
<1> QED
  BY <1>1, <1>2, <1>3, <1>4, <1>5, <1>6, <1>7, <1>8, <1>9, <1>10 DEF Next

-----------------------------------------------------------------------------
(***************************************************************************)
(* The inductive invariant about trails: each replays to its row's status, *)
(* and its events come in the order of the stages of an intervention.      *)
(* Replaying alone does not exclude a second execution: only the order     *)
(* relates events that are not next to each other.                         *)
(***************************************************************************)
Stage(e) ==
    CASE e.type = "policy_evaluated" -> 1
      [] e.type = "merchant_approval_recorded" -> 2
      [] e.type = "bounded_action_executed" -> 3
      [] e.type = "treated_vs_holdout_verified" -> 4
      [] e.type = "rollback_completed" -> 5

Staged(log) ==
    \A i, j \in 1..Len(log) : i < j => Stage(log[i]) < Stage(log[j])

TrailInv == \A f \in Finding : Replays(events[f], intervention[f].status) /\ Staged(events[f])

\* An event that may follow another belongs to a later stage.
LEMMA NextStage ==
    ASSUME NEW d \in Event, NEW e \in Event, StatusAfter(d) = StatusBefore(e)
    PROVE  Stage(d) < Stage(e)
<1>1. CASE d.type = "policy_evaluated"
  BY <1>1 DEF Event, Decision, StatusAfter, StatusBefore, PolicyStatus, Stage
<1>2. CASE d.type = "merchant_approval_recorded"
  BY <1>2 DEF Event, StatusAfter, StatusBefore, Stage
<1>3. CASE d.type = "bounded_action_executed"
  BY <1>3 DEF Event, StatusAfter, StatusBefore, Stage
<1>4. CASE d.type = "treated_vs_holdout_verified"
  BY <1>4 DEF Event, Outcome, StatusAfter, StatusBefore, StatusOfOutcome, Stage
<1>5. CASE d.type = "rollback_completed"
  BY <1>5 DEF Event, StatusAfter, StatusBefore, Stage
<1> QED
  BY <1>1, <1>2, <1>3, <1>4, <1>5 DEF Event

LEMMA StageType == \A e \in Event : Stage(e) \in Nat
BY DEF Event, Stage

\* A stored event never leaves a row without a status.
LEMMA StatusAfterStored == \A e \in Event : StatusAfter(e) # "absent"
BY DEF Event, StatusAfter, PolicyStatus, StatusOfOutcome, Decision, Outcome

\* Appending the event that explains a change of status keeps a trail staged
\* and replaying.
LEMMA AppendReplays ==
    ASSUME NEW log \in Seq(Event), NEW status, Replays(log, status), Staged(log),
           NEW e \in Event, StatusBefore(e) = status
    PROVE  Replays(Append(log, e), StatusAfter(e)) /\ Staged(Append(log, e))
<1> DEFINE longer == Append(log, e)
<1>1. /\ Len(log) \in Nat /\ Len(longer) = Len(log) + 1
      /\ \A i \in 1..Len(log) : longer[i] = log[i] /\ log[i] \in Event
      /\ longer[Len(log) + 1] = e
  OBVIOUS
<1> HIDE DEF longer
<1>2. StatusAt(longer, Len(longer)) = StatusAfter(e)
  BY <1>1 DEF StatusAt
<1>3. ASSUME NEW i \in 1..Len(longer)
      PROVE  StatusBefore(longer[i]) = StatusAt(longer, i - 1)
  <2>1. CASE i = Len(longer)
    <3>1. StatusAt(longer, i - 1) = StatusAt(log, Len(log))
      BY <1>1, <2>1 DEF StatusAt
    <3> QED
      BY <1>1, <2>1, <3>1 DEF Replays
  <2>2. CASE i # Len(longer)
    <3>1. i \in 1..Len(log) /\ StatusAt(longer, i - 1) = StatusAt(log, i - 1)
      BY <1>1, <2>2 DEF StatusAt
    <3> QED
      BY <1>1, <3>1 DEF Replays
  <2> QED
    BY <2>1, <2>2
<1>4. ASSUME NEW i \in 1..Len(longer), NEW j \in 1..Len(longer), i < j
      PROVE  Stage(longer[i]) < Stage(longer[j])
  <2>1. CASE j # Len(longer)
    BY <1>1, <1>4, <2>1 DEF Staged
  <2>2. CASE j = Len(longer)
    <3>1. Len(log) # 0 /\ i \in 1..Len(log) /\ Len(log) \in 1..Len(log)
      BY <1>1, <1>4, <2>2
    <3>2. StatusAfter(log[Len(log)]) = StatusBefore(e)
      BY <3>1 DEF Replays, StatusAt
    <3>3. Stage(log[Len(log)]) < Stage(e)
      BY <1>1, <3>1, <3>2, NextStage
    <3>4. i = Len(log) \/ Stage(log[i]) < Stage(log[Len(log)])
      BY <1>1, <3>1 DEF Staged
    <3>5. /\ Stage(log[i]) \in Nat /\ Stage(e) \in Nat
          /\ Stage(log[Len(log)]) \in Nat
      BY <1>1, <3>1, StageType
    <3> QED
      BY <1>1, <2>2, <3>1, <3>3, <3>4, <3>5
  <2> QED
    BY <2>1, <2>2
<1> QED
  BY <1>2, <1>3, <1>4 DEF Replays, Staged, longer

LEMMA TrailInit == Init => TrailInv
BY DEF Init, TrailInv, NoIntervention, Replays, Staged, StatusAt

LEMMA TrailStep ==
    ASSUME TypeOK, TrailInv, [Next]_vars
    PROVE  TrailInv'
<1>1. CASE Unstored
  BY <1>1 DEF Unstored, TrailInv
<1>2. CASE Forgotten
  BY <1>2 DEF Forgotten, TrailInv, NoIntervention, Replays, Staged, StatusAt
<1>3. ASSUME NEW f \in Finding, Explained(f) PROVE TrailInv'
  <2>1. PICK e \in Event :
            /\ StatusBefore(e) = intervention[f].status
            /\ StatusAfter(e) = intervention'[f].status
            /\ events'[f] = Append(events[f], e)
            /\ \A g \in Finding \ {f} :
                  intervention'[g] = intervention[g] /\ events'[g] = events[g]
    BY <1>3 DEF Explained
  <2>2. Replays(events'[f], intervention'[f].status) /\ Staged(events'[f])
    BY <2>1, AppendReplays DEF TypeOK, TrailInv
  <2>3. \A g \in Finding \ {f} : Replays(events'[g], intervention'[g].status) /\ Staged(events'[g])
    BY <2>1 DEF TrailInv
  <2> QED
    BY <2>2, <2>3 DEF TrailInv
<1> QED
  BY <1>1, <1>2, <1>3, StepExplained

LEMMA TrailCorrect == Spec => []TrailInv
<1>1. TypeOK /\ TrailInv /\ [Next]_vars => TrailInv'
  BY TrailStep
<1> QED
  BY <1>1, TrailInit, TypeCorrect, PTL DEF Spec

\* The stored events of an intervention replay to its stored status.
THEOREM AuditTrail == Spec => []AuditTrailReplays
<1>1. TrailInv => AuditTrailReplays
  BY DEF TrailInv, AuditTrailReplays
<1> QED
  BY <1>1, TrailCorrect, PTL

\* The event that leaves a row approved is a clearance.
LEMMA ClearedBy ==
    ASSUME NEW e \in Event, StatusAfter(e) = "approved"
    PROVE  Clears(e) /\ Stage(e) <= 2 /\ e.detail # "deny"
<1>1. CASE e.type = "policy_evaluated"
  BY <1>1 DEF Event, Decision, StatusAfter, PolicyStatus, Clears, Stage
<1>2. CASE e.type = "merchant_approval_recorded"
  BY <1>2 DEF Event, StatusAfter, Clears, Stage
<1>3. CASE e.type \notin {"policy_evaluated", "merchant_approval_recorded"}
  BY <1>3 DEF Event, Outcome, StatusAfter, StatusOfOutcome
<1> QED
  BY <1>1, <1>2, <1>3

\* A trail that replays and is staged executes at most once, and only after a
\* clearance and no refusal.
LEMMA ExecutionInTrail ==
    ASSUME NEW log \in Seq(Event), NEW status, Replays(log, status), Staged(log),
           NEW j \in 1..Len(log), log[j].type = "bounded_action_executed"
    PROVE  /\ \E i \in 1..(j - 1) : Clears(log[i])
           /\ \A i \in 1..Len(log) :
                /\ log[i].type = "bounded_action_executed" => i = j
                /\ log[i].detail # "deny"
<1>1. /\ Len(log) \in Nat
      /\ \A i \in 1..Len(log) : log[i] \in Event /\ Stage(log[i]) \in Nat
  BY StageType
<1>2. StatusBefore(log[j]) = "approved" /\ Stage(log[j]) = 3
  BY DEF StatusBefore, Stage
<1>3. j - 1 \in 1..Len(log) /\ StatusAfter(log[j - 1]) = "approved"
  BY <1>1, <1>2 DEF Replays, StatusAt
<1>4. Clears(log[j - 1]) /\ Stage(log[j - 1]) <= 2 /\ log[j - 1].detail # "deny"
  BY <1>1, <1>3, ClearedBy
<1>5. ASSUME NEW i \in 1..Len(log), log[i].type = "bounded_action_executed" PROVE i = j
  <2>1. Stage(log[i]) = 3
    BY <1>5 DEF Stage
  <2> QED
    BY <1>1, <1>2, <2>1 DEF Staged
<1>6. ASSUME NEW i \in 1..Len(log), log[i].detail = "deny" PROVE FALSE
  <2>1. Stage(log[i]) = 2
    BY <1>1, <1>6 DEF Event, Decision, Outcome, Stage
  <2>2. i # j - 1 /\ i < j
    BY <1>1, <1>2, <1>4, <1>6, <2>1 DEF Staged
  <2>3. Stage(log[i]) < Stage(log[j - 1])
    BY <1>1, <1>3, <2>2 DEF Staged
  <2> QED
    BY <1>1, <1>3, <1>4, <2>1, <2>3
<1> QED
  BY <1>1, <1>3, <1>4, <1>5, <1>6

\* An intervention is executed at most once, after a clearance by the policy
\* or the merchant, and never when it was refused.
THEOREM ExecutesOnce == Spec => []ExecutesOnceWhenCleared
<1>1. TypeOK /\ TrailInv => ExecutesOnceWhenCleared
  BY ExecutionInTrail DEF TypeOK, TrailInv, ExecutesOnceWhenCleared
<1> QED
  BY <1>1, TypeCorrect, TrailCorrect, PTL
=============================================================================
