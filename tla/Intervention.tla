---------------------------- MODULE Intervention ----------------------------
(***************************************************************************)
(* request / approve / execute / verify / rollback of an intervention,     *)
(* composed with the investigations and the evidence they stand on.  The   *)
(* API's ownership check is a read of its own; the operation's transaction *)
(* re-reads the status.  An intervention is identified by its              *)
(* investigation, which is identified by its finding.                      *)
(***************************************************************************)
EXTENDS Investigation, Sequences

VARIABLES
    intervention,  \* sre_interventions and its measurement row
    events         \* sre_intervention_events, in sequence_no order

vars == <<evidenceVars, call, investigation, intervention, events>>

Status == {"awaiting_approval", "approved", "executed", "verified",
           "replan_required", "rollback_required", "rolled_back", "rejected"}
Decision == {"approved", "needs_approval", "blocked"}
Outcome == {"improved", "negative_side_effect", "no_improvement"}

NoIntervention == [status |-> "absent", policy_decision |-> "none",
                   basis |-> 0, outcome |-> "none"]

\* `basis` is a ghost: the run the investigation it was decided on is from.
InterventionRow == [status : Status, policy_decision : Decision, basis : Nat,
                    outcome : Outcome \cup {"none"}]

Event ==
    [type : {"policy_evaluated"}, detail : Decision] \cup
    [type : {"merchant_approval_recorded"}, detail : {"approve", "deny"}] \cup
    [type : {"bounded_action_executed", "rollback_completed"}, detail : {"none"}] \cup
    [type : {"treated_vs_holdout_verified"}, detail : Outcome]

InterventionOp == {"approve", "deny", "execute", "verify", "rollback"}

InterventionCall ==
    [op : {"request"}, finding : Finding, scope : Scope,
     approval_required : BOOLEAN, basis : Nat] \cup
    [op : InterventionOp, finding : Finding]

Intervened == {f \in Finding : intervention[f] # NoIntervention}

-----------------------------------------------------------------------------
\* Mutant of PolicyDecision: only customer communication needs approval.
PolicyDecisionForCustomers(scope, approval_required) ==
    IF scope = "customer" THEN "needs_approval" ELSE "approved"

\* _policy
PolicyDecision(scope, approval_required) ==
    IF approval_required THEN "needs_approval"
    ELSE IF scope = "network" THEN "approved" ELSE "blocked"

\* Mutant of PolicyStatus: a row that needs the merchant starts as approved.
PolicyStatusAtOnce(decision) == IF decision = "blocked" THEN "rejected" ELSE "approved"

PolicyStatus(decision) ==
    CASE decision = "needs_approval" -> "awaiting_approval"
      [] decision = "approved" -> "approved"
      [] decision = "blocked" -> "rejected"

\* Mutant of StatusOfOutcome: a status the table has no name for.
StatusNamedAsOutcome(outcome) ==
    CASE outcome = "improved" -> "verified"
      [] outcome = "negative_side_effect" -> "rollback_required"
      [] outcome = "no_improvement" -> "no_improvement"

\* _persist_measurement: the outcome the hidden script gives sets the status.
StatusOfOutcome(outcome) ==
    CASE outcome = "improved" -> "verified"
      [] outcome = "negative_side_effect" -> "rollback_required"
      [] outcome = "no_improvement" -> "replan_required"

MeasuredStatus == {"verified", "replan_required", "rollback_required", "rolled_back"}

\* _append_event: sequence_no is MAX + 1, read in the same transaction.
AppendEvent(f, type, detail) ==
    events' = [events EXCEPT ![f] = Append(@, [type |-> type, detail |-> detail])]

SetStatus(f, status) ==
    intervention' = [intervention EXCEPT ![f].status = status]

PersistMeasurement(f, outcome) ==
    intervention' = [intervention EXCEPT ![f].outcome = outcome,
                                         ![f].status = StatusOfOutcome(outcome)]

Unstored == UNCHANGED <<intervention, events>>

-----------------------------------------------------------------------------
Init ==
    /\ EvidenceInit
    /\ InvestigationInit
    /\ intervention = [f \in Finding |-> NoIntervention]
    /\ events = [f \in Finding |-> <<>>]

\* seed_synthetic_data deletes every table of the previous run in the
\* transaction that replaces the evidence.
CreateRun(h) ==
    /\ SeedRun(h)
    /\ investigation' = [f \in Finding |-> NoInvestigation]
    /\ intervention' = [f \in Finding |-> NoIntervention]
    /\ events' = [f \in Finding |-> <<>>]

\* _investigation: scope and approval_required are read before the transaction.
ReadInvestigation(h, f) ==
    /\ f \in Investigated
    /\ Begin(h, [op |-> "request", finding |-> f, scope |-> investigation[f].scope,
                 approval_required |-> investigation[f].approval_required,
                 basis |-> investigation[f].basis])
    /\ UNCHANGED <<evidenceVars, investigation>> /\ Unstored

\* Mutant of RequestIntervention: a repeated request replaces the row.
RequestReplacesIntervention(h) ==
    /\ call[h].op = "request"
    /\ Return(h)
    /\ UNCHANGED <<evidenceVars, investigation>>
    /\ LET c == call[h]
           decision == PolicyDecision(c.scope, c.approval_required)
       IN  IF c.finding \in Investigated
           THEN /\ intervention' = [intervention EXCEPT ![c.finding] =
                      [status |-> PolicyStatus(decision), policy_decision |-> decision,
                       basis |-> c.basis, outcome |-> "none"]]
                /\ events' = [events EXCEPT ![c.finding] =
                      <<[type |-> "policy_evaluated", detail |-> decision]>>]
           ELSE Unstored

\* The transaction inserts the row decided on what was read, unless there is
\* one; the foreign key refuses it when the investigation is gone.
RequestIntervention(h) ==
    /\ call[h].op = "request"
    /\ Return(h)
    /\ UNCHANGED <<evidenceVars, investigation>>
    /\ LET c == call[h]
           decision == PolicyDecision(c.scope, c.approval_required)
       IN  IF c.finding \in Investigated \ Intervened
           THEN /\ intervention' = [intervention EXCEPT ![c.finding] =
                      [status |-> PolicyStatus(decision), policy_decision |-> decision,
                       basis |-> c.basis, outcome |-> "none"]]
                /\ AppendEvent(c.finding, "policy_evaluated", decision)
           ELSE Unstored

\* The ownership check of the approval, execute, verify and rollback endpoints.
CheckOwnership(h, op, f) ==
    /\ f \in Intervened
    /\ Begin(h, [op |-> op, finding |-> f])
    /\ UNCHANGED <<evidenceVars, investigation>> /\ Unstored

\* The transaction of such an endpoint, on the row as it is by then.
Finish(h, ops) ==
    /\ call[h].op \in ops
    /\ Return(h)
    /\ UNCHANGED <<evidenceVars, investigation>>

\* Changes the status of f and records why, when the status is `from`; any
\* other status is a refusal (409) or an idempotent repetition.
Advance(f, from, to, type, detail) ==
    IF intervention[f].status = from
    THEN SetStatus(f, to) /\ AppendEvent(f, type, detail)
    ELSE Unstored

\* Mutant of ApproveIntervention: a refusal can be reconsidered.
ApproveAfterRefusal(h) ==
    /\ Finish(h, {"approve", "deny"})
    /\ \E from \in {"awaiting_approval", "rejected"} :
        Advance(call[h].finding, from,
                IF call[h].op = "approve" THEN "approved" ELSE "rejected",
                "merchant_approval_recorded", call[h].op)

ApproveIntervention(h) ==
    /\ Finish(h, {"approve", "deny"})
    /\ Advance(call[h].finding, "awaiting_approval",
               IF call[h].op = "approve" THEN "approved" ELSE "rejected",
               "merchant_approval_recorded", call[h].op)

\* Mutants of ExecuteIntervention: no status guard; a repetition executes again.
ExecuteUnguarded(h) ==
    /\ Finish(h, {"execute"})
    /\ LET f == call[h].finding
       IN  Advance(f, intervention[f].status, "executed", "bounded_action_executed", "none")

ExecuteAgain(h) ==
    /\ Finish(h, {"execute"})
    /\ \E from \in {"approved", "executed"} :
        Advance(call[h].finding, from, "executed", "bounded_action_executed", "none")

\* Executing an executed intervention again succeeds and changes nothing.
ExecuteIntervention(h) ==
    /\ Finish(h, {"execute"})
    /\ Advance(call[h].finding, "approved", "executed", "bounded_action_executed", "none")

\* Mutant of VerifyIntervention: an intervention to replan is measured again.
VerifyAgain(h) ==
    /\ Finish(h, {"verify"})
    /\ LET f == call[h].finding
       IN  IF intervention[f].status \in {"executed", "replan_required"}
           THEN \E outcome \in Outcome :
                    /\ PersistMeasurement(f, outcome)
                    /\ AppendEvent(f, "treated_vs_holdout_verified", outcome)
           ELSE Unstored

\* Verifying a measured intervention again succeeds and changes nothing.
VerifyIntervention(h) ==
    /\ Finish(h, {"verify"})
    /\ LET f == call[h].finding
       IN  IF intervention[f].status = "executed"
           THEN \E outcome \in Outcome :
                    /\ PersistMeasurement(f, outcome)
                    /\ AppendEvent(f, "treated_vs_holdout_verified", outcome)
           ELSE Unstored

RollbackIntervention(h) ==
    /\ Finish(h, {"rollback"})
    /\ Advance(call[h].finding, "rollback_required", "rolled_back", "rollback_completed", "none")

EvidenceStep(h) ==
    /\ StartDetection(h) \/ CountFindings(h) \/ Detect(h, Investigated)
    /\ UNCHANGED investigation /\ Unstored

InvestigationStep(h) ==
    /\ (\E f \in Finding : ReadFinding(h, f)) \/ ReadCluster(h) \/ RecordInvestigation(h)
    /\ Unstored

Crash == Restart /\ UNCHANGED investigation /\ Unstored

LivePayment(f) == RecordLivePayment(f) /\ UNCHANGED investigation /\ Unstored

Next ==
    \/ Crash
    \/ \E f \in Finding : LivePayment(f)
    \/ \E h \in Handler :
        \/ CreateRun(h)
        \/ EvidenceStep(h)
        \/ InvestigationStep(h)
        \/ \E f \in Finding : ReadInvestigation(h, f)
        \/ RequestIntervention(h)
        \/ \E f \in Finding, op \in InterventionOp : CheckOwnership(h, op, f)
        \/ ApproveIntervention(h)
        \/ ExecuteIntervention(h)
        \/ VerifyIntervention(h)
        \/ RollbackIntervention(h)

Spec == Init /\ [][Next]_vars

\* A request that has begun runs to its end unless the process dies.
DetectionFairness == \A h \in Handler :
    WF_vars((CountFindings(h) \/ Detect(h, Investigated))
            /\ UNCHANGED investigation /\ Unstored)

FairSpec == Spec /\ DetectionFairness

-----------------------------------------------------------------------------
TypeOK ==
    /\ live \subseteq {PatternOf[f] : f \in Finding}
    /\ run \in 0..MaxRuns
    /\ flagged \subseteq Finding
    /\ findings \subseteq Finding
    /\ clusters \subseteq {PatternOf[f] : f \in Finding}
    /\ call \in [Handler -> EvidenceCall \cup InvestigationCall \cup InterventionCall]
    /\ investigation \in [Finding -> InvestigationRow \cup {NoInvestigation}]
    /\ intervention \in [Finding -> InterventionRow \cup {NoIntervention}]
    /\ events \in [Finding -> Seq(Event)]

\* Every intervention keeps the investigation it was decided on, and every
\* investigation its finding, though each is read in one transaction and
\* referred to in a later one, with a new run possibly in between.
ReferencesIntact == Investigated \subseteq findings /\ Intervened \subseteq Investigated

\* The status an event leaves the row in, and the status it may occur in.
StatusAfter(e) ==
    CASE e.type = "policy_evaluated" -> PolicyStatus(e.detail)
      [] e.type = "merchant_approval_recorded" ->
             IF e.detail = "approve" THEN "approved" ELSE "rejected"
      [] e.type = "bounded_action_executed" -> "executed"
      [] e.type = "treated_vs_holdout_verified" -> StatusOfOutcome(e.detail)
      [] e.type = "rollback_completed" -> "rolled_back"

StatusBefore(e) ==
    CASE e.type = "policy_evaluated" -> "absent"
      [] e.type = "merchant_approval_recorded" -> "awaiting_approval"
      [] e.type = "bounded_action_executed" -> "approved"
      [] e.type = "treated_vs_holdout_verified" -> "executed"
      [] e.type = "rollback_completed" -> "rollback_required"

StatusAt(log, i) == IF i = 0 THEN "absent" ELSE StatusAfter(log[i])

Replays(log, status) ==
    /\ status = StatusAt(log, Len(log))
    /\ \A i \in 1..Len(log) : StatusBefore(log[i]) = StatusAt(log, i - 1)

\* Replaying the stored events from nothing gives, event by event, a legal
\* path that ends in the row's status: neither concurrent requests, repeated
\* calls, refused calls nor a reset leave a row its audit trail cannot explain.
AuditTrailReplays ==
    \A f \in Finding : Replays(events[f], intervention[f].status)

Occurs(f, type) == \E i \in 1..Len(events[f]) : events[f][i].type = type

\* What clears an event log for execution: the policy, or the merchant.
Clears(e) ==
    \/ e = [type |-> "policy_evaluated", detail |-> "approved"]
    \/ e = [type |-> "merchant_approval_recorded", detail |-> "approve"]

\* "Run an already approved demo action once": in the trail an execution
\* comes after an approval by the policy or the merchant, never after a
\* refusal, and is never followed by another, whatever calls are repeated.
ExecutesOnceWhenCleared ==
    \A f \in Finding :
        \A j \in 1..Len(events[f]) :
            events[f][j].type = "bounded_action_executed" =>
                /\ \E i \in 1..(j - 1) : Clears(events[f][i])
                /\ \A i \in 1..Len(events[f]) :
                    /\ events[f][i].type = "bounded_action_executed" => i = j
                    /\ events[f][i].detail # "deny"

\* The stored measurement is the one the trail reports, there is one exactly
\* when the status says so, and a rollback follows only a harmful one.
MeasurementMatchesTrail ==
    \A f \in Finding :
        /\ (intervention[f].outcome # "none") <=> intervention[f].status \in MeasuredStatus
        /\ \A i \in 1..Len(events[f]) :
            events[f][i].type = "treated_vs_holdout_verified" =>
                events[f][i].detail = intervention[f].outcome
        /\ intervention[f].status = "rolled_back" =>
            intervention[f].outcome = "negative_side_effect"

\* A decision taken on an investigation of the current run is the one the
\* current evidence calls for: the finding, the cluster, the investigation
\* and the intervention are read and written in separate transactions.  A live
\* incident found to be network-wide too late is left to the merchant.
DecisionFollowsEvidence ==
    \A f \in Intervened :
        intervention[f].basis = run =>
            \/ intervention[f].policy_decision =
                   IF PatternOf[f] \in clusters THEN "approved" ELSE "needs_approval"
            \/ f \notin Seeded /\ intervention[f].policy_decision = "needs_approval"

\* Within a run the trail only grows, and a refused, kept or rolled-back
\* intervention stays so, whatever calls are still in flight.
Final == {"rejected", "verified", "replan_required", "rolled_back"}

TrailOnlyGrows ==
    [][run' = run =>
        \A f \in Finding :
            /\ Len(events'[f]) >= Len(events[f])
            /\ SubSeq(events'[f], 1, Len(events[f])) = events[f]
            /\ intervention[f].status \in Final => intervention'[f] = intervention[f]]_vars

\* README: customer-facing and payment-flow actions require explicit merchant
\* approval.  An executed intervention whose stored investigation requires
\* approval, on evidence that is not network-wide, has the merchant's approval
\* in its trail.
MerchantApprovedWhenRequired ==
    \A f \in Intervened :
        /\ Occurs(f, "bounded_action_executed")
        /\ investigation[f].approval_required
        /\ PatternOf[f] \notin clusters
        => \E i \in 1..Len(events[f]) :
                 events[f][i] = [type |-> "merchant_approval_recorded", detail |-> "approve"]

\* The same of interventions decided on an investigation of the current run:
\* there the decision, the trail and the evidence of now belong together,
\* although each was read and written in a transaction of its own.
CurrentAreApproved ==
    \A f \in Intervened :
        /\ Occurs(f, "bounded_action_executed")
        /\ intervention[f].basis = run
        /\ PatternOf[f] \notin clusters
        => \E i \in 1..Len(events[f]) :
                 events[f][i] = [type |-> "merchant_approval_recorded", detail |-> "approve"]

\* A seeded run is detected on, and all that was seeded is found: the creating
\* handler, a concurrent detection or the restart that killed both writes the
\* findings, with or without live payments in between.
EveryRunIsDetected == []<>(flagged \cap Seeded \subseteq findings)

-----------------------------------------------------------------------------
\* The abstract promise, read off the audit trail alone.
HasEvent(e) == {f \in Finding : \E i \in 1..Len(events[f]) : events[f][i] = e}
HasEventType(type) == {f \in Finding : Occurs(f, type)}

Promise == INSTANCE ControlledChange WITH
    Item     <- Finding,
    cleared  <- {f \in Finding : \E i \in 1..Len(events[f]) : Clears(events[f][i])},
    refused  <- HasEvent([type |-> "policy_evaluated", detail |-> "blocked"]) \cup
                HasEvent([type |-> "merchant_approval_recorded", detail |-> "deny"]),
    applied  <- HasEventType("bounded_action_executed"),
    settled  <- HasEvent([type |-> "treated_vs_holdout_verified", detail |-> "improved"]) \cup
                HasEvent([type |-> "treated_vs_holdout_verified", detail |-> "no_improvement"]),
    harmful  <- HasEvent([type |-> "treated_vs_holdout_verified",
                          detail |-> "negative_side_effect"]),
    reverted <- HasEventType("rollback_completed")

\* The workflow implements the abstract promise, new runs and crashes included.
KeepsPromise == Promise!Spec
=============================================================================
