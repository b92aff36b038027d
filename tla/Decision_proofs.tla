--------------------------- MODULE Decision_proofs --------------------------
(***************************************************************************)
(* Proofs about Intervention, continued: that references stay intact, that *)
(* scopes and decisions follow the evidence of their run, that stored      *)
(* measurements are the ones the trails report, that the workflow          *)
(* implements ControlledChange, and that its trails only grow.             *)
(***************************************************************************)
EXTENDS Intervention_proofs, FiniteSetTheorems

\* What a step does to the evidence: nothing, a new run, a detection, or a
\* live payment, which only adds to what a detection would find.
Detected ==
    /\ UNCHANGED <<live, run, flagged>>
    /\ findings' = flagged /\ clusters' = ClusterPatterns(flagged)

NewEvidence == UNCHANGED live /\ run' = run + 1 /\ findings' = {} /\ clusters' = {}

PaidLive ==
    /\ UNCHANGED <<live, run, findings, clusters>>
    /\ \E f \in Finding \ Seeded : flagged' = flagged \cup {f}

LEMMA EvidenceSteps ==
    ASSUME [Next]_vars
    PROVE  \/ UNCHANGED evidenceVars
           \/ NewEvidence /\ Forgotten /\ investigation' = [f \in Finding |-> NoInvestigation]
           \/ /\ Detected
              /\ findings \cap Investigated = {}
              /\ UNCHANGED investigation /\ Unstored
           \/ PaidLive /\ UNCHANGED investigation /\ Unstored
<1>1. CASE Crash
  BY <1>1 DEF Crash, Restart, WriteFindings, Detected
<1>2. ASSUME NEW h \in Handler, CreateRun(h)
      PROVE  NewEvidence /\ Forgotten /\ investigation' = [f \in Finding |-> NoInvestigation]
  BY <1>2 DEF CreateRun, SeedRun, NewEvidence, Forgotten
<1>3. ASSUME NEW h \in Handler, EvidenceStep(h)
      PROVE  \/ UNCHANGED evidenceVars
             \/ /\ Detected
                /\ findings \cap Investigated = {}
                /\ UNCHANGED investigation /\ Unstored
  BY <1>3 DEF EvidenceStep, StartDetection, CountFindings, Detect, WriteFindings, Detected
<1>4. ASSUME NEW f \in Finding, LivePayment(f)
      PROVE  PaidLive /\ UNCHANGED investigation /\ Unstored
  BY <1>4 DEF LivePayment, RecordLivePayment, PaidLive
<1> QED
  BY <1>1, <1>2, <1>3, <1>4
     DEF Next, vars, evidenceVars, InvestigationStep, ReadFinding, ReadCluster,
         RecordInvestigation, ReadInvestigation, RequestIntervention, CheckOwnership,
         ApproveIntervention, ExecuteIntervention, VerifyIntervention, RollbackIntervention,
         Finish

-----------------------------------------------------------------------------
LEMMA NoFindingsNoClusters == ClusterPatterns({}) = {}
BY DEF ClusterPatterns

\* More findings make no fewer clusters; those of other patterns make no other.
LEMMA ClustersGrow ==
    ASSUME NEW S \in SUBSET Finding, NEW T \in SUBSET Finding, S \subseteq T, NEW p
    PROVE  /\ p \in ClusterPatterns(S) => p \in ClusterPatterns(T)
           /\ (\A f \in T \ S : PatternOf[f] # p) =>
                  (p \in ClusterPatterns(T) => p \in ClusterPatterns(S))
<1> DEFINE Merchants(R) == {MerchantOf[f] : f \in {g \in R : PatternOf[g] = p}}
<1>1. IsFiniteSet(Merchants(T)) /\ Merchants(S) \subseteq Merchants(T)
  <2>1. IsFiniteSet({g \in T : PatternOf[g] = p})
    BY EvidenceAssumption, FS_Subset
  <2> DEFINE G == {g \in T : PatternOf[g] = p}
             image == [g \in G |-> MerchantOf[g]]
  <2>2. IsFiniteSet(Merchants(T))
    <3>1. image \in Surjection(G, Merchants(T))
      BY DEF Surjection
    <3> QED
      BY <2>1, <3>1, FS_Surjection
  <2> QED
    BY <2>2
<1>2. /\ Cardinality(Merchants(S)) \in Nat /\ Cardinality(Merchants(T)) \in Nat
      /\ Cardinality(Merchants(S)) <= Cardinality(Merchants(T))
  <2>1. IsFiniteSet(Merchants(S)) /\ Cardinality(Merchants(S)) <= Cardinality(Merchants(T))
    BY <1>1, FS_Subset
  <2> QED
    BY <1>1, <2>1, FS_CardinalityType
<1>3. \A R : p \in ClusterPatterns(R) <=>
                 /\ \E f \in R : PatternOf[f] = p
                 /\ Cardinality(Merchants(R)) >= PrivacyThreshold
  BY DEF ClusterPatterns, AffectedMerchants
<1>4. ASSUME \A f \in T \ S : PatternOf[f] # p
      PROVE  {g \in S : PatternOf[g] = p} = {g \in T : PatternOf[g] = p}
  BY <1>4
<1>5. (\A f \in T \ S : PatternOf[f] # p) => Merchants(S) = Merchants(T)
  BY <1>4
<1>6. p \in ClusterPatterns(S) => p \in ClusterPatterns(T)
  <2> HIDE DEF Merchants
  <2> QED
    BY <1>2, <1>3, EvidenceAssumption
<1>7. ASSUME \A f \in T \ S : PatternOf[f] # p
      PROVE  p \in ClusterPatterns(T) => p \in ClusterPatterns(S)
  <2>1. Merchants(S) = Merchants(T)
    BY <1>5, <1>7
  <2> HIDE DEF Merchants
  <2> QED
    BY <1>3, <1>7, <2>1
<1> QED
  BY <1>6, <1>7

\* Detecting again adds clusters, and of patterns of live payments only.
LEMMA DetectedAgain ==
    ASSUME TypeOK, EvidenceConsistent, findings # {}, Detected
    PROVE  /\ findings' # {}
           /\ \A p \in clusters : p \in clusters'
           /\ \A p \in clusters' : p \in live \/ p \in clusters
<1>1. /\ findings \in SUBSET Finding /\ flagged \in SUBSET Finding
      /\ findings \subseteq flagged /\ flagged \cap Seeded \subseteq findings
      /\ clusters = ClusterPatterns(findings) /\ clusters' = ClusterPatterns(flagged)
      /\ findings' = flagged
  BY DEF TypeOK, EvidenceConsistent, Detected
<1>2. \A f \in flagged \ findings : PatternOf[f] \in live
  BY <1>1 DEF Seeded
<1>3. ASSUME NEW p \in clusters PROVE p \in clusters'
  BY <1>1, <1>3, ClustersGrow
<1>4. ASSUME NEW p \in clusters', p \notin live PROVE p \in clusters
  BY <1>1, <1>2, <1>4, ClustersGrow
<1> QED
  BY <1>1, <1>3, <1>4

LEMMA EvidenceConsistentStep ==
    ASSUME TypeOK, EvidenceConsistent, [Next]_vars
    PROVE  EvidenceConsistent'
<1>1. CASE UNCHANGED evidenceVars
  BY <1>1 DEF EvidenceConsistent, evidenceVars, ClusterPatterns, AffectedMerchants, Seeded
<1>2. CASE NewEvidence
  BY <1>2, NoFindingsNoClusters DEF NewEvidence, EvidenceConsistent
<1>3. CASE Detected
  BY <1>3 DEF Detected, EvidenceConsistent
<1>4. CASE PaidLive
  <2>1. flagged' \cap Seeded' = flagged \cap Seeded /\ flagged \subseteq flagged'
    BY <1>4 DEF PaidLive, Seeded
  <2> QED
    BY <1>4, <2>1 DEF PaidLive, EvidenceConsistent
<1> QED
  BY <1>1, <1>2, <1>3, <1>4, EvidenceSteps

LEMMA EvidenceConsistentInit == Init => EvidenceConsistent
BY DEF Init, EvidenceInit, EvidenceConsistent

\* What is stored, in every state between the transactions of any number of
\* threads, is all the seeded events give, and perhaps some of what the live
\* payments give, with the clusters that follow from it; or it is nothing.
THEOREM EvidenceStaysConsistent == Spec => []EvidenceConsistent
<1>1. TypeOK /\ EvidenceConsistent /\ [Next]_vars => EvidenceConsistent'
  BY EvidenceConsistentStep
<1> QED
  BY <1>1, EvidenceConsistentInit, TypeCorrect, PTL DEF Spec

-----------------------------------------------------------------------------
\* What a step does to the investigations besides forgetting them.
LEMMA InvestigationSteps ==
    ASSUME TypeOK, [Next]_vars
    PROVE  \/ UNCHANGED investigation
           \/ Forgotten /\ investigation' = [f \in Finding |-> NoInvestigation]
           \/ /\ UNCHANGED evidenceVars /\ Unstored
              /\ \E h \in Handler :
                    /\ call[h].op = "record"
                    /\ call[h].finding \in findings
                    /\ investigation' = [investigation EXCEPT ![call[h].finding] =
                          [scope |-> call[h].scope, basis |-> call[h].basis,
                           approval_required |-> ApprovalRequired(call[h].scope)]]
<1>1. ASSUME NEW h \in Handler, RecordInvestigation(h), Unstored
      PROVE  \/ UNCHANGED investigation
             \/ /\ UNCHANGED evidenceVars /\ Unstored
                /\ call[h].op = "record"
                /\ call[h].finding \in findings
                /\ investigation' = [investigation EXCEPT ![call[h].finding] =
                      [scope |-> call[h].scope, basis |-> call[h].basis,
                       approval_required |-> ApprovalRequired(call[h].scope)]]
  BY <1>1 DEF RecordInvestigation
<1> QED
  BY <1>1
     DEF Next, vars, Crash, LivePayment, CreateRun, SeedRun, Forgotten, EvidenceStep, InvestigationStep,
         ReadFinding, ReadCluster, ReadInvestigation, RequestIntervention, CheckOwnership, ApproveIntervention,
         ExecuteIntervention, VerifyIntervention, RollbackIntervention, Finish

\* Which interventions there are: a request adds one to an investigation.
LEMMA IntervenedSteps ==
    ASSUME TypeOK, [Next]_vars
    PROVE  \/ Intervened' = {}
           \/ Intervened' \subseteq Intervened
           \/ /\ UNCHANGED <<evidenceVars, investigation>>
              /\ Intervened' \subseteq Intervened \cup Investigated
<1>1. ASSUME Unstored PROVE Intervened' \subseteq Intervened
  BY <1>1 DEF Unstored, Intervened
<1>2. CASE Forgotten
  BY <1>2 DEF Forgotten, Intervened
<1>3. ASSUME NEW h \in Handler, RequestIntervention(h)
      PROVE  /\ UNCHANGED <<evidenceVars, investigation>>
             /\ Intervened' \subseteq Intervened \cup Investigated
  <2>1. call[h].finding \in Finding
    BY <1>3, CallShape DEF RequestIntervention
  <2>2. \/ Unstored
        \/ /\ call[h].finding \in Investigated
           /\ \A g \in Finding \ {call[h].finding} : intervention'[g] = intervention[g]
    BY <1>3, <2>1 DEF RequestIntervention, TypeOK
  <2>3. UNCHANGED <<evidenceVars, investigation>>
    BY <1>3 DEF RequestIntervention
  <2> QED
    BY <2>2, <2>3 DEF Intervened, Unstored
<1>4. ASSUME NEW f \in Finding, intervention[f].status \in Status,
             \A g \in Finding \ {f} : intervention'[g] = intervention[g]
      PROVE  Intervened' \subseteq Intervened
  BY <1>4 DEF Intervened, NoIntervention, Status
<1>5. ASSUME NEW h \in Handler, ApproveIntervention(h) \/ ExecuteIntervention(h) \/
                                 VerifyIntervention(h) \/ RollbackIntervention(h)
      PROVE  Intervened' \subseteq Intervened
  <2>1. call[h].finding \in Finding
    BY <1>5, CallShape DEF ApproveIntervention, ExecuteIntervention, VerifyIntervention,
                           RollbackIntervention, Finish, InterventionOp
  <2>2. Unstored \/ (/\ intervention[call[h].finding].status \in Status
                     /\ \A g \in Finding \ {call[h].finding} : intervention'[g] = intervention[g])
    BY <1>5, <2>1
       DEF ApproveIntervention, ExecuteIntervention, VerifyIntervention,
           RollbackIntervention, Finish, Advance, SetStatus, PersistMeasurement, Status, TypeOK
  <2> QED
    BY <1>1, <1>4, <2>1, <2>2
<1>6. ASSUME NEW h \in Handler,
             \/ EvidenceStep(h)
             \/ InvestigationStep(h)
             \/ \E f \in Finding : ReadInvestigation(h, f)
             \/ \E f \in Finding, op \in InterventionOp : CheckOwnership(h, op, f)
      PROVE  Unstored
  BY <1>6 DEF EvidenceStep, InvestigationStep, ReadInvestigation, CheckOwnership
<1>7. CASE UNCHANGED vars \/ Crash \/ \E f \in Finding : LivePayment(f)
  BY <1>1, <1>7 DEF vars, Crash, LivePayment, Unstored
<1>8. ASSUME NEW h \in Handler, CreateRun(h) PROVE Forgotten
  BY <1>8 DEF CreateRun, SeedRun, Forgotten
<1> QED
  BY <1>1, <1>2, <1>3, <1>5, <1>6, <1>7, <1>8 DEF Next

\* An investigation keeps its finding, and an intervention its investigation.
THEOREM ReferencesStayIntact == Spec => []ReferencesIntact
<1>1. Init => ReferencesIntact
  BY DEF Init, InvestigationInit, ReferencesIntact, Investigated, Intervened
<1>2. ASSUME TypeOK, ReferencesIntact, [Next]_vars PROVE ReferencesIntact'
  <2>1. Investigated' \subseteq findings'
    <3>1. CASE UNCHANGED investigation
      <4>1. Investigated' = Investigated
        BY <3>1 DEF Investigated
      <4>2. \/ UNCHANGED findings
            \/ Investigated' = {}
            \/ findings \cap Investigated = {}
        BY <1>2, EvidenceSteps DEF evidenceVars, Investigated, PaidLive
      <4> QED
        BY <1>2, <4>1, <4>2 DEF ReferencesIntact
    <3>2. CASE investigation' = [f \in Finding |-> NoInvestigation]
      BY <3>2 DEF Investigated
    <3>3. ASSUME UNCHANGED evidenceVars, NEW h \in Handler, call[h].finding \in findings,
                 NEW row,
                 investigation' = [investigation EXCEPT ![call[h].finding] = row]
          PROVE  Investigated' \subseteq findings'
      BY <1>2, <3>3 DEF ReferencesIntact, Investigated, TypeOK, evidenceVars
    <3> QED
      BY <1>2, <3>1, <3>2, <3>3, InvestigationSteps
  <2>2. Intervened' \subseteq Investigated'
    <3>1. ASSUME NEW h \in Handler, call[h].op = "record",
                 investigation' = [investigation EXCEPT ![call[h].finding] =
                     [scope |-> call[h].scope, basis |-> call[h].basis,
                      approval_required |-> ApprovalRequired(call[h].scope)]]
          PROVE  Investigated \subseteq Investigated'
      <4>1. call[h].scope # "absent"
        BY <1>2, <3>1, CallShape DEF Scope
      <4> QED
        BY <1>2, <3>1, <4>1 DEF Investigated, NoInvestigation, TypeOK
    <3>2. Investigated \subseteq Investigated' \/ Forgotten
      BY <1>2, <3>1, InvestigationSteps DEF Investigated
    <3> QED
      BY <1>2, <3>2, IntervenedSteps DEF ReferencesIntact, Forgotten, Intervened
  <2> QED
    BY <2>1, <2>2 DEF ReferencesIntact
<1>3. TypeOK /\ ReferencesIntact /\ [Next]_vars => ReferencesIntact'
  BY <1>2
<1> QED
  BY <1>1, <1>3, TypeCorrect, PTL DEF Spec

-----------------------------------------------------------------------------
(***************************************************************************)
(* Scopes and decisions.  Whatever was read in the current run was read    *)
(* after its detection (a finding was stored), and detecting again changes *)
(* nothing about the seeded patterns and only adds clusters of the others; *)
(* so what follows from the evidence goes on following from it.  What was  *)
(* read in an earlier run says so by its basis.                            *)
(***************************************************************************)
ScopeRight(f, scope) ==
    \/ scope = ScopeOf(f, PatternOf[f] \in clusters)
    \/ f \notin Seeded /\ scope = ScopeOf(f, FALSE)

Follows(f, basis, scope) ==
    /\ basis <= run
    /\ basis = run => findings # {} /\ ScopeRight(f, scope)

CallFollows(c) ==
    /\ c.op = "correlate" =>
        c.finding \in Finding /\ c.basis <= run /\ (c.basis = run => findings # {})
    /\ c.op \in {"record", "request"} => Follows(c.finding, c.basis, c.scope)
    /\ c.op = "request" => c.approval_required = ApprovalRequired(c.scope)

CallsFollow == \A h \in Handler : CallFollows(call[h])

InvestigationsFollow ==
    \A f \in Investigated :
        /\ Follows(f, investigation[f].basis, investigation[f].scope)
        /\ investigation[f].approval_required = ApprovalRequired(investigation[f].scope)

InterventionsFollow ==
    \A f \in Intervened : \E scope \in Scope :
        /\ Follows(f, intervention[f].basis, scope)
        /\ intervention[f].policy_decision = PolicyDecision(scope, ApprovalRequired(scope))

\* A step leaves what followed from the evidence following from it.
LEMMA FollowsKept ==
    ASSUME TypeOK, EvidenceConsistent, [Next]_vars
    PROVE  /\ \A f \in Finding : \A scope : \A basis \in Nat :
                  Follows(f, basis, scope) => Follows(f, basis, scope)'
           /\ \A basis \in Nat :
                  basis <= run /\ (basis = run => findings # {})
                  => basis <= run' /\ (basis = run' => findings' # {})
<1>1. run \in Nat
  BY EvidenceAssumption DEF TypeOK
<1>2. CASE UNCHANGED evidenceVars
  BY <1>2 DEF evidenceVars, Follows, ScopeRight, Seeded, ScopeOf
<1>3. CASE NewEvidence
  BY <1>1, <1>3 DEF NewEvidence, Follows
<1>4. CASE Detected
  <2>1. /\ live' = live /\ run' = run
        /\ findings # {} => findings' # {}
    BY <1>4, DetectedAgain DEF Detected
  <2>2. ASSUME NEW f \in Finding, NEW scope, findings # {}, ScopeRight(f, scope)
        PROVE  ScopeRight(f, scope)'
    <3> DEFINE p == PatternOf[f]
    <3>1. /\ p \in clusters => p \in clusters'
          /\ p \in clusters' => p \in live \/ p \in clusters
      BY <1>4, <2>2, DetectedAgain
    <3>2. Seeded' = Seeded /\ (p \in live => f \notin Seeded)
      BY <2>1 DEF Seeded
    <3>3. \A b : ScopeOf(f, b)' = ScopeOf(f, b)
      BY DEF ScopeOf
    <3>4. CASE f \notin Seeded /\ scope = ScopeOf(f, FALSE)
      BY <3>2, <3>4 DEF ScopeRight, ScopeOf
    <3>5. CASE scope = ScopeOf(f, p \in clusters)
      <4>1. CASE (p \in clusters) <=> (p \in clusters')
        BY <3>5, <4>1 DEF ScopeRight, ScopeOf
      <4>2. CASE ~((p \in clusters) <=> (p \in clusters'))
        <5>1. p \notin clusters /\ f \notin Seeded
          BY <3>1, <3>2, <4>2
        <5>2. scope = ScopeOf(f, FALSE)
          BY <3>5, <5>1 DEF ScopeOf
        <5> QED
          BY <3>2, <5>1, <5>2 DEF ScopeRight, ScopeOf
      <4> QED
        BY <4>1, <4>2
    <3> QED
      BY <2>2, <3>4, <3>5 DEF ScopeRight
  <2> QED
    BY <2>1, <2>2 DEF Follows
<1>5. CASE PaidLive
  BY <1>5 DEF PaidLive, Follows, ScopeRight, Seeded, ScopeOf
<1> QED
  BY <1>2, <1>3, <1>4, <1>5, EvidenceSteps

LEMMA CallKept ==
    ASSUME TypeOK, EvidenceConsistent, [Next]_vars, NEW h \in Handler,
           CallFollows(call[h]), call'[h] = call[h]
    PROVE  CallFollows(call[h])'
<1> DEFINE c == call[h]
<1>1. c.op \in {"correlate", "record", "request"} => c.basis \in Nat /\ c.finding \in Finding
  BY CallShape
<1>2. /\ c.op = "correlate" => c.basis <= run' /\ (c.basis = run' => findings' # {})
      /\ c.op \in {"record", "request"} => Follows(c.finding, c.basis, c.scope)
      /\ c.op = "request" => c.approval_required = ApprovalRequired(c.scope)
  BY <1>1, FollowsKept DEF CallFollows
<1>3. \A f, b, s : /\ f = c.finding /\ b = c.basis /\ s = c.scope
                   /\ f \in Finding /\ b \in Nat /\ Follows(f, b, s)
                   => Follows(f, b, s)'
  BY FollowsKept
<1> QED
  BY <1>1, <1>2, <1>3 DEF CallFollows, Follows, ScopeRight, ApprovalRequired

\* A thread that has read nothing of the evidence has nothing to follow.
Reader == {"correlate", "record", "request"}

LEMMA CallsFollowKept ==
    ASSUME TypeOK, EvidenceConsistent, CallsFollow, [Next]_vars,
           \A g \in Handler : call'[g] = call[g] \/ call'[g].op \notin Reader \/ CallFollows(call[g])'
    PROVE  CallsFollow'
<1> SUFFICES ASSUME NEW g \in Handler PROVE CallFollows(call[g])'
  BY DEF CallsFollow
<1>1. CASE call'[g] = call[g]
  BY <1>1, CallKept DEF CallsFollow
<1>2. CASE call'[g].op \notin Reader
  BY <1>2 DEF CallFollows, Reader
<1> QED
  BY <1>1, <1>2

LEMMA ReadFindingFollows ==
    ASSUME TypeOK, EvidenceConsistent, NEW h \in Handler, NEW f \in Finding, ReadFinding(h, f)
    PROVE  CallFollows(call[h])'
<1>1. findings # {} /\ run \in Nat
  BY EvidenceAssumption DEF ReadFinding, TypeOK
<1>2. call'[h] = [op |-> "correlate", finding |-> f, basis |-> run] /\ UNCHANGED evidenceVars
  BY DEF ReadFinding, Begin, TypeOK
<1> QED
  BY <1>1, <1>2 DEF CallFollows, evidenceVars

LEMMA ReadClusterFollows ==
    ASSUME TypeOK, CallsFollow, NEW h \in Handler, ReadCluster(h)
    PROVE  CallFollows(call[h])'
<1> DEFINE c == call[h]
           scope == ScopeOf(c.finding, PatternOf[c.finding] \in clusters)
<1>1. c.basis <= run /\ (c.basis = run => findings # {})
  BY DEF ReadCluster, CallsFollow, CallFollows
<1>2. /\ call'[h] = [op |-> "record", finding |-> c.finding, basis |-> c.basis,
                     scope |-> scope]
      /\ UNCHANGED evidenceVars
  BY DEF ReadCluster, Continue, TypeOK
<1>3. call'[h].op = "record" /\ call'[h].finding = c.finding /\ call'[h].basis = c.basis
      /\ call'[h].scope = scope
  BY <1>2
<1> QED
  BY <1>1, <1>2, <1>3 DEF CallFollows, Follows, ScopeRight, Seeded, evidenceVars, ScopeOf

LEMMA ReadInvestigationFollows ==
    ASSUME TypeOK, InvestigationsFollow, NEW h \in Handler, NEW f \in Finding,
           ReadInvestigation(h, f)
    PROVE  CallFollows(call[h])'
<1> DEFINE i == investigation[f]
<1>1. Follows(f, i.basis, i.scope) /\ i.approval_required = ApprovalRequired(i.scope)
  BY DEF ReadInvestigation, InvestigationsFollow
<1>2. /\ call'[h] = [op |-> "request", finding |-> f, scope |-> i.scope,
                     approval_required |-> i.approval_required, basis |-> i.basis]
      /\ UNCHANGED evidenceVars
  BY DEF ReadInvestigation, Begin, TypeOK
<1>3. /\ call'[h].op = "request" /\ call'[h].finding = f /\ call'[h].basis = i.basis
      /\ call'[h].scope = i.scope /\ call'[h].approval_required = i.approval_required
  BY <1>2
<1> QED
  BY <1>1, <1>2, <1>3 DEF CallFollows, Follows, ScopeRight, Seeded, evidenceVars, ScopeOf, ApprovalRequired

\* A step in which one thread ends, or begins what reads no evidence.
LEMMA CallsFollowStep ==
    ASSUME TypeOK, EvidenceConsistent, CallsFollow, InvestigationsFollow, [Next]_vars
    PROVE  CallsFollow'
<1>1. ASSUME NEW h \in Handler, NEW c, call' = [call EXCEPT ![h] = c], c.op \notin Reader
      PROVE  CallsFollow'
  BY <1>1, CallsFollowKept DEF TypeOK
<1>2. Idle.op \notin Reader /\ [op |-> "count"].op \notin Reader /\ [op |-> "detect"].op \notin Reader
  BY DEF Idle, Reader
<1>3. CASE UNCHANGED vars
  BY <1>3, CallsFollowKept DEF vars
<1>4. CASE Crash \/ \E f \in Finding : LivePayment(f)
  BY <1>2, <1>4, CallsFollowKept DEF Crash, Restart, LivePayment, RecordLivePayment
<1>5. ASSUME NEW h \in Handler, Return(h) PROVE CallsFollow'
  BY <1>1, <1>2, <1>5 DEF Return
<1>6. ASSUME NEW h \in Handler, CreateRun(h) \/ StartDetection(h) PROVE CallsFollow'
  BY <1>1, <1>2, <1>6 DEF CreateRun, SeedRun, StartDetection, Begin
<1>7. ASSUME NEW h \in Handler, CountFindings(h) PROVE CallsFollow'
  BY <1>1, <1>2, <1>7 DEF CountFindings, Continue
<1>8. ASSUME NEW h \in Handler, NEW f \in Finding, ReadFinding(h, f) PROVE CallsFollow'
  <2>1. \A g \in Handler \ {h} : call'[g] = call[g]
    BY <1>8 DEF ReadFinding, Begin, TypeOK
  <2> QED
    BY <1>8, <2>1, ReadFindingFollows, CallsFollowKept
<1>9. ASSUME NEW h \in Handler, ReadCluster(h) PROVE CallsFollow'
  <2>1. \A g \in Handler \ {h} : call'[g] = call[g]
    BY <1>9 DEF ReadCluster, Continue, TypeOK
  <2> QED
    BY <1>9, <2>1, ReadClusterFollows, CallsFollowKept
<1>10. ASSUME NEW h \in Handler, NEW f \in Finding, ReadInvestigation(h, f) PROVE CallsFollow'
  <2>1. \A g \in Handler \ {h} : call'[g] = call[g]
    BY <1>10 DEF ReadInvestigation, Begin, TypeOK
  <2> QED
    BY <1>10, <2>1, ReadInvestigationFollows, CallsFollowKept
<1>11. ASSUME NEW h \in Handler, NEW f \in Finding, NEW op \in InterventionOp,
              CheckOwnership(h, op, f)
       PROVE  CallsFollow'
  <2>1. [op |-> op, finding |-> f].op \notin Reader
    BY DEF InterventionOp, Reader
  <2> QED
    BY <1>1, <1>11, <2>1 DEF CheckOwnership, Begin
<1> QED
  BY <1>3, <1>4, <1>5, <1>6, <1>7, <1>8, <1>9, <1>10, <1>11
     DEF Next, EvidenceStep, Detect, InvestigationStep, RecordInvestigation, RequestIntervention,
         ApproveIntervention, ExecuteIntervention, VerifyIntervention, RollbackIntervention,
         Finish

LEMMA InvestigationsFollowStep ==
    ASSUME TypeOK, EvidenceConsistent, CallsFollow, InvestigationsFollow, [Next]_vars
    PROVE  InvestigationsFollow'
<1>1. ASSUME NEW f \in Investigated, investigation'[f] = investigation[f]
      PROVE  /\ Follows(f, investigation[f].basis, investigation[f].scope)'
             /\ investigation'[f].approval_required = ApprovalRequired(investigation'[f].scope)
  <2>1. investigation[f].basis \in Nat /\ f \in Finding
    BY <1>1 DEF Investigated, TypeOK, InvestigationRow
  <2>2. \A b, s : b = investigation[f].basis /\ s = investigation[f].scope => Follows(f, b, s)'
    BY <2>1, FollowsKept DEF InvestigationsFollow
  <2> QED
    BY <1>1, <2>2 DEF InvestigationsFollow, Follows, ScopeRight
<1>2. CASE UNCHANGED investigation
  <2>1. Investigated' = Investigated
    BY <1>2 DEF Investigated
  <2> QED
    BY <1>1, <1>2, <2>1 DEF InvestigationsFollow, ApprovalRequired
<1>3. CASE investigation' = [f \in Finding |-> NoInvestigation]
  BY <1>3 DEF InvestigationsFollow, Investigated
<1>4. ASSUME NEW h \in Handler, call[h].op = "record", UNCHANGED evidenceVars,
             investigation' = [investigation EXCEPT ![call[h].finding] =
                 [scope |-> call[h].scope, basis |-> call[h].basis,
                  approval_required |-> ApprovalRequired(call[h].scope)]]
      PROVE  InvestigationsFollow'
  <2> DEFINE c == call[h]
  <2>1. Follows(c.finding, c.basis, c.scope) /\ c.finding \in Finding
    BY <1>4, CallShape DEF CallsFollow, CallFollows
  <2>2. /\ investigation'[c.finding].scope = c.scope
        /\ investigation'[c.finding].basis = c.basis
        /\ investigation'[c.finding].approval_required = ApprovalRequired(c.scope)
    BY <1>4, <2>1 DEF TypeOK
  <2>3. /\ Investigated' \subseteq Investigated \cup {c.finding}
        /\ \A f \in Finding \ {c.finding} : investigation'[f] = investigation[f]
    BY <1>4, <2>1 DEF TypeOK, Investigated
  <2>4. ASSUME NEW f \in Investigated', f # c.finding
        PROVE  /\ Follows(f, investigation[f].basis, investigation[f].scope)'
               /\ investigation'[f].approval_required = ApprovalRequired(investigation'[f].scope)
    BY <1>1, <2>3, <2>4 DEF Investigated
  <2>5. Follows(c.finding, c.basis, c.scope) =>
            \A f : f = c.finding => Follows(f, investigation[f].basis, investigation[f].scope)'
    BY <1>4, <2>2 DEF Follows, ScopeRight, Seeded, evidenceVars, ScopeOf
  <2> QED
    BY <2>1, <2>2, <2>4, <2>5 DEF InvestigationsFollow, ApprovalRequired
<1> QED
  BY <1>2, <1>3, <1>4, InvestigationSteps

\* An investigation of this run has the scope this run's evidence gives.
THEOREM ScopesFollowEvidence == Spec => []ScopeFollowsEvidence
<1> DEFINE Inv == EvidenceConsistent /\ CallsFollow /\ InvestigationsFollow
<1>1. Init => Inv
  BY EvidenceConsistentInit
     DEF Init, EvidenceInit, InvestigationInit, Idle, CallsFollow, CallFollows,
         InvestigationsFollow, Investigated
<1>2. TypeOK /\ Inv /\ [Next]_vars => Inv'
  BY EvidenceConsistentStep, CallsFollowStep, InvestigationsFollowStep
<1>3. Inv => ScopeFollowsEvidence
  BY DEF InvestigationsFollow, Follows, ScopeRight, ScopeFollowsEvidence
<1> QED
  BY <1>1, <1>2, <1>3, TypeCorrect, PTL DEF Spec

\* What a step does to the decisions: it keeps them, or forgets them all, or
\* a request takes one.
LEMMA DecisionSteps ==
    ASSUME TypeOK, [Next]_vars
    PROVE  \/ Forgotten
           \/ \A f \in Intervened' :
                 /\ f \in Intervened
                 /\ intervention'[f].basis = intervention[f].basis
                 /\ intervention'[f].policy_decision = intervention[f].policy_decision
           \/ /\ UNCHANGED evidenceVars
              /\ \E h \in Handler, status \in Status :
                    /\ call[h].op = "request"
                    /\ call[h].finding \notin Intervened
                    /\ status = PolicyStatus(PolicyDecision(call[h].scope,
                                                           call[h].approval_required))
                    /\ intervention' = [intervention EXCEPT ![call[h].finding] =
                          [status |-> status, basis |-> call[h].basis, outcome |-> "none",
                           policy_decision |->
                               PolicyDecision(call[h].scope, call[h].approval_required)]]
<1>1. CASE Unstored
  BY <1>1 DEF Unstored, Intervened
<1>2. ASSUME NEW h \in Handler, CreateRun(h) PROVE Forgotten
  BY <1>2 DEF CreateRun, SeedRun, Forgotten
<1>3. ASSUME NEW h \in Handler,
             \/ EvidenceStep(h)
             \/ InvestigationStep(h)
             \/ \E f \in Finding : ReadInvestigation(h, f)
             \/ \E f \in Finding, op \in InterventionOp : CheckOwnership(h, op, f)
      PROVE  Unstored
  BY <1>3 DEF EvidenceStep, InvestigationStep, ReadInvestigation, CheckOwnership
<1>4. ASSUME NEW h \in Handler, RequestIntervention(h), ~Unstored
      PROVE  /\ UNCHANGED evidenceVars
             /\ \E status \in Status :
                    /\ call[h].op = "request"
                    /\ call[h].finding \notin Intervened
                    /\ status = PolicyStatus(PolicyDecision(call[h].scope,
                                                           call[h].approval_required))
                    /\ intervention' = [intervention EXCEPT ![call[h].finding] =
                          [status |-> status, basis |-> call[h].basis, outcome |-> "none",
                           policy_decision |->
                               PolicyDecision(call[h].scope, call[h].approval_required)]]
  <2>1. PolicyStatus(PolicyDecision(call[h].scope, call[h].approval_required)) \in Status
    BY <1>4, CallShape, PolicyType DEF RequestIntervention
  <2> QED
    BY <1>4, <2>1 DEF RequestIntervention
<1>5. ASSUME NEW f \in Finding, NEW status \in Status, NEW outcome \in Outcome \cup {"none"},
             intervention[f].status \in Status,
             \/ intervention' = [intervention EXCEPT ![f].status = status]
             \/ intervention' = [intervention EXCEPT ![f].outcome = outcome, ![f].status = status]
      PROVE  \A g \in Intervened' :
                 /\ g \in Intervened
                 /\ intervention'[g].basis = intervention[g].basis
                 /\ intervention'[g].policy_decision = intervention[g].policy_decision
  <2>1. intervention[f] \in InterventionRow /\ f \in Intervened
    BY <1>5, StoredRow DEF Intervened, NoIntervention, Status
  <2>2. /\ intervention'[f].basis = intervention[f].basis
        /\ intervention'[f].policy_decision = intervention[f].policy_decision
        /\ \A g \in Finding \ {f} : intervention'[g] = intervention[g]
    BY <1>5, <2>1 DEF TypeOK, InterventionRow
  <2> QED
    BY <2>1, <2>2 DEF Intervened
<1>6. ASSUME NEW h \in Handler, ApproveIntervention(h) \/ ExecuteIntervention(h) \/
                                 VerifyIntervention(h) \/ RollbackIntervention(h),
             ~Unstored
      PROVE  \A g \in Intervened' :
                 /\ g \in Intervened
                 /\ intervention'[g].basis = intervention[g].basis
                 /\ intervention'[g].policy_decision = intervention[g].policy_decision
  <2> DEFINE f == call[h].finding
  <2>1. f \in Finding
    BY <1>6, CallShape DEF ApproveIntervention, ExecuteIntervention, VerifyIntervention,
                           RollbackIntervention, Finish, InterventionOp
  <2>2. /\ intervention[f].status \in Status
        /\ \E status \in Status, outcome \in Outcome \cup {"none"} :
             \/ intervention' = [intervention EXCEPT ![f].status = status]
             \/ intervention' = [intervention EXCEPT ![f].outcome = outcome, ![f].status = status]
    <3>1. CASE VerifyIntervention(h)
      <4>1. PICK outcome \in Outcome : PersistMeasurement(f, outcome)
        BY <1>6, <3>1 DEF VerifyIntervention
      <4>2. StatusOfOutcome(outcome) \in Status
        BY OutcomeType DEF MeasuredStatus, Status
      <4> QED
        BY <1>6, <3>1, <4>1, <4>2 DEF VerifyIntervention, PersistMeasurement, Status
    <3>2. CASE ~VerifyIntervention(h)
      BY <1>6, <3>2 DEF ApproveIntervention, ExecuteIntervention, RollbackIntervention, Finish,
                        Advance, SetStatus, Status
    <3> QED
      BY <3>1, <3>2
  <2> QED
    BY <1>5, <2>1, <2>2
<1>7. CASE UNCHANGED vars \/ Crash \/ \E f \in Finding : LivePayment(f)
  BY <1>1, <1>7 DEF vars, Crash, LivePayment, Unstored
<1> QED
  BY <1>1, <1>2, <1>3, <1>4, <1>6, <1>7 DEF Next

LEMMA InterventionsFollowStep ==
    ASSUME TypeOK, EvidenceConsistent, CallsFollow, InterventionsFollow, [Next]_vars
    PROVE  InterventionsFollow'
<1>1. ASSUME NEW f \in Intervened, f \in Intervened',
             intervention'[f].basis = intervention[f].basis,
             intervention'[f].policy_decision = intervention[f].policy_decision
      PROVE  \E scope \in Scope :
                /\ Follows(f, intervention[f].basis, scope)'
                /\ intervention'[f].policy_decision =
                       PolicyDecision(scope, ApprovalRequired(scope))
  <2>1. PICK scope \in Scope :
            /\ Follows(f, intervention[f].basis, scope)
            /\ intervention[f].policy_decision = PolicyDecision(scope, ApprovalRequired(scope))
    BY DEF InterventionsFollow
  <2>2. intervention[f].basis \in Nat /\ f \in Finding
    BY DEF Intervened, TypeOK, InterventionRow
  <2>3. \A b : b = intervention[f].basis => Follows(f, b, scope)'
    BY <2>1, <2>2, FollowsKept
  <2> QED
    BY <1>1, <2>1, <2>3 DEF Follows, ScopeRight
<1>2. CASE Forgotten
  BY <1>2 DEF Forgotten, InterventionsFollow, Intervened
<1>3. CASE \A f \in Intervened' :
              /\ f \in Intervened
              /\ intervention'[f].basis = intervention[f].basis
              /\ intervention'[f].policy_decision = intervention[f].policy_decision
  BY <1>1, <1>3 DEF InterventionsFollow, PolicyDecision, ApprovalRequired
<1>4. ASSUME UNCHANGED evidenceVars, NEW h \in Handler, NEW status \in Status,
             call[h].op = "request",
             intervention' = [intervention EXCEPT ![call[h].finding] =
                 [status |-> status, basis |-> call[h].basis, outcome |-> "none",
                  policy_decision |-> PolicyDecision(call[h].scope, call[h].approval_required)]]
      PROVE  InterventionsFollow'
  <2> DEFINE c == call[h]
  <2>1. /\ Follows(c.finding, c.basis, c.scope)
        /\ c.approval_required = ApprovalRequired(c.scope)
        /\ c.finding \in Finding /\ c.scope \in Scope
    BY <1>4, CallShape DEF CallsFollow, CallFollows
  <2>2. /\ intervention'[c.finding].basis = c.basis
        /\ intervention'[c.finding].policy_decision =
               PolicyDecision(c.scope, ApprovalRequired(c.scope))
        /\ \A f \in Finding \ {c.finding} : intervention'[f] = intervention[f]
    BY <1>4, <2>1 DEF TypeOK
  <2>3. \A f \in Intervened' : f # c.finding => f \in Intervened
    BY <2>2 DEF Intervened
  <2>4. \A f, s : f = c.finding /\ s = c.scope =>
            Follows(f, intervention[f].basis, s)'
    BY <1>4, <2>1, <2>2 DEF Follows, ScopeRight, Seeded, evidenceVars, ScopeOf
  <2>5. ASSUME NEW f \in Intervened'
        PROVE  \E scope \in Scope :
                /\ Follows(f, intervention[f].basis, scope)'
                /\ intervention'[f].policy_decision =
                       PolicyDecision(scope, ApprovalRequired(scope))
    <3>1. CASE f = c.finding
      BY <2>1, <2>2, <2>4, <3>1
    <3>2. CASE f # c.finding
      <4>1. f \in Intervened /\ intervention'[f] = intervention[f]
        BY <2>2, <2>3, <3>2 DEF Intervened
      <4> QED
        BY <1>1, <4>1
    <3> QED
      BY <3>1, <3>2
  <2> QED
    BY <2>5 DEF InterventionsFollow, PolicyDecision, ApprovalRequired
<1> QED
  BY <1>2, <1>3, <1>4, DecisionSteps

\* A decision on an investigation of this run is the one this run's evidence
\* calls for: only a network-wide pattern runs without the merchant.
THEOREM DecisionsFollowEvidence == Spec => []DecisionFollowsEvidence
<1> DEFINE Inv == /\ EvidenceConsistent /\ CallsFollow
                  /\ InvestigationsFollow /\ InterventionsFollow
<1>1. Init => Inv
  BY EvidenceConsistentInit
     DEF Init, EvidenceInit, InvestigationInit, Idle, CallsFollow, CallFollows,
         InvestigationsFollow, Investigated, InterventionsFollow, Intervened
<1>2. TypeOK /\ Inv /\ [Next]_vars => Inv'
  BY EvidenceConsistentStep, CallsFollowStep, InvestigationsFollowStep, InterventionsFollowStep
<1>3. InterventionsFollow => DecisionFollowsEvidence
  BY DEF InterventionsFollow, Follows, ScopeRight, DecisionFollowsEvidence, ScopeOf,
         PolicyDecision, ApprovalRequired
<1> QED
  BY <1>1, <1>2, <1>3, TypeCorrect, PTL DEF Spec

-----------------------------------------------------------------------------
(***************************************************************************)
(* Measurements.  A row that asks for a rollback has a harmful outcome;    *)
(* with that the rollback keeps what its status promises.                  *)
(***************************************************************************)
Measured(row, log) ==
    /\ (row.outcome # "none") <=> row.status \in MeasuredStatus
    /\ \A i \in 1..Len(log) :
           log[i].type = "treated_vs_holdout_verified" => log[i].detail = row.outcome
    /\ row.status \in {"rollback_required", "rolled_back"} => row.outcome = "negative_side_effect"

MeasurementsMatch == \A f \in Finding : Measured(intervention[f], events[f])

\* What an event does to the outcome of the row it is about.
OutcomeExplained(f) ==
    \E e \in Event :
        /\ events'[f] = Append(events[f], e)
        /\ \/ /\ e.type = "treated_vs_holdout_verified"
              /\ intervention[f].status = "executed"
              /\ intervention'[f].outcome = e.detail
              /\ intervention'[f].status = StatusOfOutcome(e.detail)
           \/ /\ e.type # "treated_vs_holdout_verified"
              /\ \/ intervention'[f].outcome = intervention[f].outcome
                 \/ intervention'[f].outcome = "none" /\ intervention[f] = NoIntervention
              /\ \/ intervention'[f].status \notin MeasuredStatus
                    /\ intervention[f].status \notin MeasuredStatus
                 \/ intervention'[f].status = "rolled_back"
                    /\ intervention[f].status = "rollback_required"
        /\ \A g \in Finding \ {f} :
              intervention'[g] = intervention[g] /\ events'[g] = events[g]

LEMMA AdvanceOutcome ==
    ASSUME TypeOK, NEW f \in Finding, NEW from \in Status, NEW to \in Status,
           NEW type, NEW detail,
           [type |-> type, detail |-> detail] \in Event,
           type # "treated_vs_holdout_verified",
           \/ from \notin MeasuredStatus /\ to \notin MeasuredStatus
           \/ from = "rollback_required" /\ to = "rolled_back",
           Advance(f, from, to, type, detail)
    PROVE  OutcomeExplained(f) \/ Unstored
<1>1. CASE intervention[f].status = from
  <2> DEFINE e == [type |-> type, detail |-> detail]
  <2>1. intervention[f] \in InterventionRow
    BY <1>1, StoredRow
  <2>2. intervention' = [intervention EXCEPT ![f].status = to]
    BY <1>1 DEF Advance, SetStatus
  <2>3. intervention'[f].status = to /\ intervention'[f].outcome = intervention[f].outcome
    BY <2>1, <2>2 DEF TypeOK, InterventionRow
  <2>4. events' = [events EXCEPT ![f] = Append(events[f], e)]
    BY <1>1 DEF Advance, AppendEvent
  <2>5. \A g \in Finding \ {f} : intervention'[g] = intervention[g] /\ events'[g] = events[g]
    BY <2>2, <2>4 DEF TypeOK
  <2>6. events'[f] = Append(events[f], e)
    BY <2>4 DEF TypeOK
  <2>7. e \in Event /\ e.type # "treated_vs_holdout_verified"
    OBVIOUS
  <2> HIDE DEF e
  <2> QED
    BY <1>1, <2>3, <2>5, <2>6, <2>7 DEF OutcomeExplained
<1>2. CASE intervention[f].status # from
  BY <1>2 DEF Advance
<1> QED
  BY <1>1, <1>2

LEMMA OutcomeSteps ==
    ASSUME TypeOK, [Next]_vars
    PROVE  Unstored \/ Forgotten \/ \E f \in Finding : OutcomeExplained(f)
<1>1. ASSUME NEW h \in Handler, RequestIntervention(h), ~Unstored
      PROVE  OutcomeExplained(call[h].finding)
  <2> DEFINE c == call[h]
             f == c.finding
             decision == PolicyDecision(c.scope, c.approval_required)
             e == [type |-> "policy_evaluated", detail |-> decision]
  <2>1. f \in Finding /\ decision \in Decision
    BY <1>1, CallShape, PolicyType DEF RequestIntervention
  <2>2. /\ intervention' = [intervention EXCEPT ![f] =
              [status |-> PolicyStatus(decision), policy_decision |-> decision,
               basis |-> c.basis, outcome |-> "none"]]
        /\ events' = [events EXCEPT ![f] = Append(events[f], e)]
        /\ f \notin Intervened
    BY <1>1 DEF RequestIntervention, AppendEvent
  <2>3. intervention[f] = NoIntervention /\ intervention[f].status \notin MeasuredStatus
    BY <2>1, <2>2 DEF Intervened, NoIntervention, MeasuredStatus
  <2>4. /\ intervention'[f].status = PolicyStatus(decision)
        /\ intervention'[f].outcome = "none"
        /\ events'[f] = Append(events[f], e)
        /\ \A g \in Finding \ {f} : intervention'[g] = intervention[g] /\ events'[g] = events[g]
    BY <2>1, <2>2 DEF TypeOK
  <2>5. e \in Event /\ e.type # "treated_vs_holdout_verified"
    BY <2>1 DEF Event
  <2>6. PolicyStatus(decision) \notin MeasuredStatus
    BY <2>1 DEF PolicyStatus, Decision, MeasuredStatus
  <2> HIDE DEF c, f, decision, e
  <2> QED
    BY <2>3, <2>4, <2>5, <2>6 DEF OutcomeExplained, f, c
<1>2. ASSUME NEW h \in Handler, ApproveIntervention(h)
      PROVE  Unstored \/ OutcomeExplained(call[h].finding)
  <2> DEFINE to == IF call[h].op = "approve" THEN "approved" ELSE "rejected"
  <2>1. call[h].op \in {"approve", "deny"} /\ call[h].finding \in Finding
    BY <1>2, CallShape DEF ApproveIntervention, Finish, InterventionOp
  <2>2. [type |-> "merchant_approval_recorded", detail |-> call[h].op] \in Event
    BY <2>1 DEF Event
  <2>3. /\ to \in Status /\ "awaiting_approval" \in Status
        /\ to \notin MeasuredStatus /\ "awaiting_approval" \notin MeasuredStatus
    BY DEF Status, MeasuredStatus
  <2>4. Advance(call[h].finding, "awaiting_approval", to,
                "merchant_approval_recorded", call[h].op)
    BY <1>2 DEF ApproveIntervention
  <2> HIDE DEF to
  <2> QED
    BY <2>1, <2>2, <2>3, <2>4, AdvanceOutcome
<1>3. ASSUME NEW h \in Handler, ExecuteIntervention(h)
      PROVE  Unstored \/ OutcomeExplained(call[h].finding)
  <2>1. call[h].finding \in Finding
    BY <1>3, CallShape DEF ExecuteIntervention, Finish, InterventionOp
  <2>2. [type |-> "bounded_action_executed", detail |-> "none"] \in Event
    BY DEF Event
  <2>3. /\ "approved" \in Status /\ "executed" \in Status
        /\ "approved" \notin MeasuredStatus /\ "executed" \notin MeasuredStatus
    BY DEF Status, MeasuredStatus
  <2> QED
    BY <1>3, <2>1, <2>2, <2>3, AdvanceOutcome DEF ExecuteIntervention
<1>4. ASSUME NEW h \in Handler, RollbackIntervention(h)
      PROVE  Unstored \/ OutcomeExplained(call[h].finding)
  <2>1. call[h].finding \in Finding
    BY <1>4, CallShape DEF RollbackIntervention, Finish, InterventionOp
  <2>2. [type |-> "rollback_completed", detail |-> "none"] \in Event
    BY DEF Event
  <2>3. "rollback_required" \in Status /\ "rolled_back" \in Status
    BY DEF Status
  <2> QED
    BY <1>4, <2>1, <2>2, <2>3, AdvanceOutcome DEF RollbackIntervention
<1>5. ASSUME NEW h \in Handler, VerifyIntervention(h), ~Unstored
      PROVE  OutcomeExplained(call[h].finding)
  <2> DEFINE f == call[h].finding
  <2>1. f \in Finding /\ intervention[f].status = "executed"
    BY <1>5, CallShape DEF VerifyIntervention, Finish, InterventionOp
  <2>2. PICK outcome \in Outcome :
            /\ PersistMeasurement(f, outcome)
            /\ AppendEvent(f, "treated_vs_holdout_verified", outcome)
    BY <1>5 DEF VerifyIntervention
  <2>3. intervention[f] \in InterventionRow
    BY <2>1, StoredRow DEF Status
  <2>4. /\ intervention'[f].outcome = outcome
        /\ intervention'[f].status = StatusOfOutcome(outcome)
        /\ \A g \in Finding \ {f} : intervention'[g] = intervention[g]
    BY <2>1, <2>2, <2>3 DEF PersistMeasurement, TypeOK, InterventionRow
  <2> DEFINE e == [type |-> "treated_vs_holdout_verified", detail |-> outcome]
  <2>5. /\ events'[f] = Append(events[f], e)
        /\ \A g \in Finding \ {f} : events'[g] = events[g]
    BY <2>1, <2>2 DEF AppendEvent, TypeOK
  <2>6. e \in Event /\ e.type = "treated_vs_holdout_verified" /\ e.detail = outcome
    BY DEF Event
  <2> HIDE DEF e, f
  <2> QED
    BY <2>1, <2>4, <2>5, <2>6 DEF OutcomeExplained, f
<1>6. ASSUME NEW h \in Handler, CreateRun(h) PROVE Forgotten
  BY <1>6 DEF CreateRun, SeedRun, Forgotten
<1>7. ASSUME NEW h \in Handler,
             \/ EvidenceStep(h)
             \/ InvestigationStep(h)
             \/ \E f \in Finding : ReadInvestigation(h, f)
             \/ \E f \in Finding, op \in InterventionOp : CheckOwnership(h, op, f)
      PROVE  Unstored
  BY <1>7 DEF EvidenceStep, InvestigationStep, ReadInvestigation, CheckOwnership
<1>8. CASE UNCHANGED vars \/ Crash \/ \E f \in Finding : LivePayment(f)
  BY <1>8 DEF vars, Crash, LivePayment, Unstored
<1>9. \A h \in Handler :
          RequestIntervention(h) \/ ApproveIntervention(h) \/ ExecuteIntervention(h) \/
          VerifyIntervention(h) \/ RollbackIntervention(h) => call[h].finding \in Finding
  BY CallShape DEF RequestIntervention, ApproveIntervention, ExecuteIntervention,
                   VerifyIntervention, RollbackIntervention, Finish, InterventionOp
<1> QED
  BY <1>1, <1>2, <1>3, <1>4, <1>5, <1>6, <1>7, <1>8, <1>9 DEF Next

LEMMA MeasurementsStep ==
    ASSUME TypeOK, MeasurementsMatch, [Next]_vars
    PROVE  MeasurementsMatch'
<1>1. CASE Unstored
  BY <1>1 DEF Unstored, MeasurementsMatch
<1>2. CASE Forgotten
  BY <1>2 DEF Forgotten, MeasurementsMatch, Measured, NoIntervention, MeasuredStatus
<1>3. ASSUME NEW f \in Finding, OutcomeExplained(f) PROVE MeasurementsMatch'
  <2> DEFINE log == events[f]
             row == intervention[f]
             new == intervention'[f]
  <2>1. PICK e \in Event :
            /\ events'[f] = Append(log, e)
            /\ \/ /\ e.type = "treated_vs_holdout_verified"
                  /\ row.status = "executed"
                  /\ new.outcome = e.detail
                  /\ new.status = StatusOfOutcome(e.detail)
               \/ /\ e.type # "treated_vs_holdout_verified"
                  /\ \/ new.outcome = row.outcome
                     \/ new.outcome = "none" /\ row = NoIntervention
                  /\ \/ new.status \notin MeasuredStatus /\ row.status \notin MeasuredStatus
                     \/ new.status = "rolled_back" /\ row.status = "rollback_required"
            /\ \A g \in Finding \ {f} :
                  intervention'[g] = intervention[g] /\ events'[g] = events[g]
    BY <1>3 DEF OutcomeExplained
  <2>2. log \in Seq(Event) /\ Measured(row, log)
    BY DEF TypeOK, MeasurementsMatch
  <2>3. /\ Len(log) \in Nat /\ Len(events'[f]) = Len(log) + 1
        /\ \A i \in 1..Len(log) : events'[f][i] = log[i]
        /\ events'[f][Len(log) + 1] = e
    BY <2>1, <2>2
  <2>4. ASSUME e.type = "treated_vs_holdout_verified"
        PROVE  Measured(intervention'[f], events'[f])
    <3>1. e.detail \in Outcome /\ e.detail # "none"
      BY <2>4 DEF Event, Outcome
    <3>2. row.outcome = "none"
      BY <2>1, <2>2, <2>4 DEF Measured, MeasuredStatus
    <3>3. \A i \in 1..Len(log) : log[i].type # "treated_vs_holdout_verified"
      <4>1. \A i \in 1..Len(log) : log[i].type = "treated_vs_holdout_verified" =>
                log[i].detail # "none"
        BY <2>2 DEF Event, Outcome
      <4> QED
        BY <2>2, <3>2, <4>1 DEF Measured
    <3>4. /\ new.outcome = e.detail /\ new.status \in MeasuredStatus
          /\ new.status # "rolled_back"
          /\ new.status = "rollback_required" => e.detail = "negative_side_effect"
      BY <2>1, <2>4, <3>1 DEF Outcome, StatusOfOutcome, MeasuredStatus
    <3> QED
      BY <2>3, <3>1, <3>3, <3>4 DEF Measured
  <2>5. ASSUME e.type # "treated_vs_holdout_verified"
        PROVE  Measured(intervention'[f], events'[f])
    <3>1. new.outcome = row.outcome
      BY <2>1, <2>5 DEF NoIntervention
    <3>2. (new.status \in MeasuredStatus) <=> (row.status \in MeasuredStatus)
      BY <2>1, <2>5 DEF MeasuredStatus
    <3>3. new.status \in {"rollback_required", "rolled_back"} =>
              row.status = "rollback_required"
      BY <2>1, <2>5 DEF MeasuredStatus
    <3> QED
      BY <2>2, <2>3, <2>5, <3>1, <3>2, <3>3 DEF Measured
  <2>6. Measured(intervention'[f], events'[f])
    BY <2>4, <2>5
  <2> QED
    BY <2>1, <2>6 DEF MeasurementsMatch
<1> QED
  BY <1>1, <1>2, <1>3, OutcomeSteps

\* The stored measurement is the one the trail reports, and only a harmful
\* one is rolled back, for every interleaving of requests and new runs.
THEOREM MeasurementsMatchTrails == Spec => []MeasurementMatchesTrail
<1>1. Init => MeasurementsMatch
  BY DEF Init, MeasurementsMatch, Measured, NoIntervention, MeasuredStatus
<1>2. TypeOK /\ MeasurementsMatch /\ [Next]_vars => MeasurementsMatch'
  BY MeasurementsStep
<1>3. MeasurementsMatch => MeasurementMatchesTrail
  BY DEF MeasurementsMatch, Measured, MeasurementMatchesTrail
<1> QED
  BY <1>1, <1>2, <1>3, TypeCorrect, PTL DEF Spec

-----------------------------------------------------------------------------
(***************************************************************************)
(* The merchant's approval.  The decision a trail begins with is the row's *)
(* own, so the clearance of an execution is the merchant's where the row   *)
(* asks for one.                                                           *)
(***************************************************************************)
DecisionInTrail ==
    \A f \in Finding : \A i \in 1..Len(events[f]) :
        events[f][i].type = "policy_evaluated" =>
            events[f][i].detail = intervention[f].policy_decision

\* Each decision has a status of its own.
LEMMA DecisionOfStatus ==
    ASSUME NEW d \in Decision, NEW e \in Decision, PolicyStatus(d) = PolicyStatus(e)
    PROVE  d = e
BY DEF Decision, PolicyStatus

\* A row without a status has no trail.
LEMMA NoStatusNoTrail ==
    ASSUME TypeOK, TrailInv, NEW f \in Finding, intervention[f].status = "absent"
    PROVE  Len(events[f]) = 0 /\ f \notin Intervened
<1>1. Len(events[f]) \in Nat /\ \A i \in 1..Len(events[f]) : events[f][i] \in Event
  BY DEF TypeOK
<1>2. Len(events[f]) = 0
  BY <1>1, StatusAfterStored DEF TrailInv, Replays, StatusAt
<1> QED
  BY <1>2 DEF TypeOK, Intervened, InterventionRow, Status

\* The request that takes a decision stores it in row and trail alike; no
\* later event is one, and no later step changes the row's.
LEMMA DecisionInTrailStep ==
    ASSUME TypeOK, TrailInv, DecisionInTrail, [Next]_vars
    PROVE  DecisionInTrail'
<1>1. CASE Unstored
  BY <1>1 DEF Unstored, DecisionInTrail
<1>2. CASE Forgotten
  BY <1>2 DEF Forgotten, DecisionInTrail
<1>3. ASSUME run' = run, NEW f \in Finding, Explained(f)
      PROVE  DecisionInTrail'
  <2>1. PICK e \in Event :
            /\ StatusBefore(e) = intervention[f].status
            /\ StatusAfter(e) = intervention'[f].status
            /\ events'[f] = Append(events[f], e)
            /\ \A g \in Finding \ {f} :
                  intervention'[g] = intervention[g] /\ events'[g] = events[g]
    BY <1>3 DEF Explained
  <2>2. ~Forgotten
    BY <1>3, EvidenceAssumption DEF Forgotten, TypeOK
  <2>3. f \in Intervened'
    BY <2>1, StatusAfterStored DEF Intervened, NoIntervention
  <2>4. CASE f \notin Intervened
    <3>1. PICK h \in Handler :
             /\ call[h].op = "request"
             /\ intervention' = [intervention EXCEPT ![call[h].finding] =
                   [status |-> PolicyStatus(PolicyDecision(call[h].scope,
                                                           call[h].approval_required)),
                    basis |-> call[h].basis, outcome |-> "none",
                    policy_decision |->
                        PolicyDecision(call[h].scope, call[h].approval_required)]]
      BY <2>2, <2>3, <2>4, DecisionSteps
    <3>2. PICK d \in Decision : d = PolicyDecision(call[h].scope, call[h].approval_required)
      BY <3>1, CallShape, PolicyType
    <3>3. intervention[f].status = "absent"
      BY <2>4 DEF Intervened, NoIntervention
    <3>4. call[h].finding = f
      BY <2>3, <2>4, <3>1 DEF Intervened, TypeOK
    <3>5. intervention'[f].status = PolicyStatus(d) /\ intervention'[f].policy_decision = d
      BY <3>1, <3>2, <3>4 DEF TypeOK
    <3>6. Len(events'[f]) = 1 /\ events'[f][1] = e
      BY <2>1, <3>3, NoStatusNoTrail DEF TypeOK
    <3>7. e.type = "policy_evaluated" => e.detail = d
      BY <2>1, <3>2, <3>5, DecisionOfStatus DEF StatusAfter, Event
    <3> QED
      BY <2>1, <3>5, <3>6, <3>7 DEF DecisionInTrail
  <2>5. CASE f \in Intervened
    <3>1. intervention[f].status # "absent"
      BY <2>5 DEF Intervened, TypeOK, InterventionRow, Status
    <3>2. e.type # "policy_evaluated"
      BY <2>1, <3>1 DEF StatusBefore
    <3>3. intervention'[f].policy_decision = intervention[f].policy_decision
      <4>1. ASSUME NEW g, NEW row, g \notin Intervened,
                   intervention' = [intervention EXCEPT ![g] = row]
            PROVE  intervention'[f] = intervention[f]
        BY <2>5, <4>1 DEF Intervened, TypeOK
      <4> QED
        BY <2>2, <2>3, <4>1, DecisionSteps
    <3>4. /\ Len(events'[f]) = Len(events[f]) + 1 /\ Len(events[f]) \in Nat
          /\ events'[f][Len(events[f]) + 1] = e
          /\ \A i \in 1..Len(events[f]) : events'[f][i] = events[f][i]
      BY <2>1 DEF TypeOK
    <3>5. \A i \in 1..Len(events'[f]) :
              events'[f][i].type = "policy_evaluated" =>
                  events'[f][i].detail = intervention'[f].policy_decision
      BY <3>2, <3>3, <3>4 DEF DecisionInTrail
    <3> QED
      BY <2>1, <3>5 DEF DecisionInTrail
  <2> QED
    BY <2>4, <2>5
<1> QED
  BY <1>1, <1>2, <1>3, StepExplained

LEMMA CurrentApproved ==
    ASSUME TypeOK, TrailInv, DecisionInTrail, DecisionFollowsEvidence
    PROVE  CurrentAreApproved
<1> SUFFICES ASSUME NEW f \in Intervened, Occurs(f, "bounded_action_executed"),
                    intervention[f].basis = run, PatternOf[f] \notin clusters
             PROVE  \E i \in 1..Len(events[f]) :
                 events[f][i] = [type |-> "merchant_approval_recorded", detail |-> "approve"]
  BY DEF CurrentAreApproved
<1>1. f \in Finding /\ events[f] \in Seq(Event)
  BY DEF Intervened, TypeOK
<1>2. intervention[f].policy_decision = "needs_approval"
  BY DEF DecisionFollowsEvidence
<1>3. PICK j \in 1..Len(events[f]) : events[f][j].type = "bounded_action_executed"
  BY DEF Occurs
<1>4. PICK i \in 1..(j - 1) : Clears(events[f][i])
  BY <1>1, <1>3, ExecutionInTrail DEF TrailInv
<1>5. i \in 1..Len(events[f])
  BY <1>1
<1> QED
  BY <1>1, <1>2, <1>4, <1>5 DEF Clears, DecisionInTrail

LEMMA DecisionInTrailAlways == Spec => []DecisionInTrail
<1>1. Init => DecisionInTrail
  BY DEF Init, DecisionInTrail
<1>2. TypeOK /\ TrailInv /\ DecisionInTrail /\ [Next]_vars => DecisionInTrail'
  BY DecisionInTrailStep
<1> QED
  BY <1>1, <1>2, TypeCorrect, TrailCorrect, PTL DEF Spec

\* Customer-facing and payment-flow actions require the merchant's approval:
\* what is executed on a decision about the current run has it, unless the
\* pattern is network-wide, whatever requests and runs cross.
THEOREM MerchantApprovesCurrent == Spec => []CurrentAreApproved
<1>1. TypeOK /\ TrailInv /\ DecisionInTrail /\ DecisionFollowsEvidence => CurrentAreApproved
  BY CurrentApproved
<1> QED
  BY <1>1, TypeCorrect, TrailCorrect, DecisionInTrailAlways, DecisionsFollowEvidence, PTL

\* So the README's promise, which a new run between reading and writing can
\* break, holds until the first one, for any findings and threads.
THEOREM MerchantApprovesInFirstRun == Spec => [](run = 0 => MerchantApprovedWhenRequired)
<1> DEFINE Inv == /\ EvidenceConsistent /\ CallsFollow
                  /\ InvestigationsFollow /\ InterventionsFollow
<1>1. Init => Inv
  BY EvidenceConsistentInit
     DEF Init, EvidenceInit, InvestigationInit, Idle, CallsFollow, CallFollows,
         InvestigationsFollow, Investigated, InterventionsFollow, Intervened
<1>2. TypeOK /\ Inv /\ [Next]_vars => Inv'
  BY EvidenceConsistentStep, CallsFollowStep, InvestigationsFollowStep, InterventionsFollowStep
<1>3. TypeOK /\ Inv /\ CurrentAreApproved /\ run = 0 => MerchantApprovedWhenRequired
  <2> SUFFICES ASSUME TypeOK, Inv, CurrentAreApproved, run = 0
               PROVE  MerchantApprovedWhenRequired
    OBVIOUS
  <2>1. \A f \in Intervened : intervention[f].basis \in Nat /\ intervention[f].basis <= run
    BY DEF Intervened, TypeOK, InterventionRow, InterventionsFollow, Follows
  <2>2. \A f \in Intervened : intervention[f].basis = run
    BY <2>1
  <2> QED
    BY <2>2 DEF CurrentAreApproved, MerchantApprovedWhenRequired
<1> QED
  BY <1>1, <1>2, <1>3, TypeCorrect, MerchantApprovesCurrent, PTL DEF Spec

\* A new run waits for the requests that have read the old one's evidence.
RunsWaitForReaders == [][run' # run => \A h \in Handler : call[h].op \notin Reader]_vars

\* Everything read, investigated and decided is about the current run.
AllCurrent ==
    /\ \A h \in Handler : call[h].op \in Reader => call[h].basis = run
    /\ \A f \in Investigated : investigation[f].basis = run
    /\ \A f \in Intervened : intervention[f].basis = run

\* Only creating a run changes which run is current, and it reads nothing.
LEMMA NewRunReadsNothing ==
    ASSUME TypeOK, [Next]_vars, run' # run,
           \A h \in Handler : call[h].op \notin Reader
    PROVE  \A h \in Handler : call'[h].op \notin Reader
<1>1. PICK h \in Handler : CreateRun(h)
  <2>1. ~(UNCHANGED evidenceVars)
    BY DEF evidenceVars
  <2>2. \A h \in Handler : ~EvidenceStep(h)
    BY DEF EvidenceStep, StartDetection, CountFindings, Detect, WriteFindings, evidenceVars
  <2>3. ~Crash /\ \A f \in Finding : ~LivePayment(f)
    BY DEF Crash, Restart, WriteFindings, LivePayment, RecordLivePayment, evidenceVars
  <2> QED
    BY <2>1, <2>2, <2>3
       DEF Next, vars, InvestigationStep, ReadFinding, ReadCluster, RecordInvestigation,
           ReadInvestigation, RequestIntervention, CheckOwnership, ApproveIntervention,
           ExecuteIntervention, VerifyIntervention, RollbackIntervention, Finish
<1>2. [op |-> "count"].op \notin Reader
  BY DEF Reader
<1> QED
  BY <1>1, <1>2 DEF CreateRun, SeedRun, Begin, TypeOK

\* Within a run a thread that reads names the run, or what names it already.
LEMMA CallBasis ==
    ASSUME TypeOK, AllCurrent, [Next]_vars, run' = run
    PROVE  \A h \in Handler : call'[h].op \in Reader => call'[h].basis = run
<1> DEFINE Same == \A h \in Handler : call'[h].op \in Reader => call'[h].basis = run
<1>1. ASSUME NEW h \in Handler, NEW c, call' = [call EXCEPT ![h] = c],
             c.op \in Reader => c.basis = run
      PROVE  Same
  BY <1>1 DEF AllCurrent, TypeOK
<1>2. /\ Idle.op \notin Reader /\ [op |-> "count"].op \notin Reader
      /\ [op |-> "detect"].op \notin Reader
  BY DEF Idle, Reader
<1>3. CASE UNCHANGED vars
  BY <1>3 DEF vars, AllCurrent
<1>4. CASE Crash \/ \E f \in Finding : LivePayment(f)
  BY <1>2, <1>4 DEF Crash, Restart, LivePayment, RecordLivePayment, AllCurrent
<1>5. ASSUME NEW h \in Handler, Return(h) PROVE Same
  BY <1>1, <1>2, <1>5 DEF Return
<1>6. ASSUME NEW h \in Handler, CreateRun(h) \/ StartDetection(h) PROVE Same
  BY <1>1, <1>2, <1>6 DEF CreateRun, SeedRun, StartDetection, Begin
<1>7. ASSUME NEW h \in Handler, CountFindings(h) PROVE Same
  BY <1>1, <1>2, <1>7 DEF CountFindings, Continue
<1>8. ASSUME NEW h \in Handler, NEW f \in Finding, ReadFinding(h, f) PROVE Same
  <2> DEFINE c == [op |-> "correlate", finding |-> f, basis |-> run]
  <2>1. call' = [call EXCEPT ![h] = c] /\ c.basis = run
    BY <1>8 DEF ReadFinding, Begin
  <2> HIDE DEF c
  <2> QED
    BY <1>1, <2>1
<1>9. ASSUME NEW h \in Handler, ReadCluster(h) PROVE Same
  <2> DEFINE c == [op |-> "record", finding |-> call[h].finding, basis |-> call[h].basis,
                   scope |-> ScopeOf(call[h].finding, PatternOf[call[h].finding] \in clusters)]
  <2>1. call' = [call EXCEPT ![h] = c] /\ c.basis = call[h].basis
    BY <1>9 DEF ReadCluster, Continue
  <2>2. call[h].basis = run
    BY <1>9 DEF ReadCluster, AllCurrent, Reader
  <2> HIDE DEF c
  <2> QED
    BY <1>1, <2>1, <2>2
<1>10. ASSUME NEW h \in Handler, NEW f \in Finding, ReadInvestigation(h, f) PROVE Same
  <2> DEFINE c == [op |-> "request", finding |-> f, scope |-> investigation[f].scope,
                   approval_required |-> investigation[f].approval_required,
                   basis |-> investigation[f].basis]
  <2>1. call' = [call EXCEPT ![h] = c] /\ c.basis = investigation[f].basis
    BY <1>10 DEF ReadInvestigation, Begin
  <2>2. investigation[f].basis = run
    BY <1>10 DEF ReadInvestigation, AllCurrent
  <2> HIDE DEF c
  <2> QED
    BY <1>1, <2>1, <2>2
<1>11. ASSUME NEW h \in Handler, NEW f \in Finding, NEW op \in InterventionOp,
              CheckOwnership(h, op, f)
       PROVE  Same
  <2>1. [op |-> op, finding |-> f].op \notin Reader
    BY DEF InterventionOp, Reader
  <2> QED
    BY <1>1, <1>11, <2>1 DEF CheckOwnership, Begin
<1> QED
  BY <1>3, <1>4, <1>5, <1>6, <1>7, <1>8, <1>9, <1>10, <1>11
     DEF Next, EvidenceStep, Detect, InvestigationStep, RecordInvestigation, RequestIntervention,
         ApproveIntervention, ExecuteIntervention, VerifyIntervention, RollbackIntervention,
         Finish

\* What is written within a run has the basis of the thread that writes it.
LEMMA StoredBasis ==
    ASSUME TypeOK, AllCurrent, [Next]_vars, run' = run
    PROVE  /\ \A f \in Investigated' : investigation'[f].basis = run
           /\ \A f \in Intervened' : intervention'[f].basis = run
<1>1. ~Forgotten
  BY EvidenceAssumption DEF Forgotten, TypeOK
<1>2. \A f \in Investigated' : investigation'[f].basis = run
  <2>1. CASE UNCHANGED investigation
    BY <2>1 DEF AllCurrent, Investigated
  <2>2. ASSUME NEW h \in Handler, call[h].op = "record",
               investigation' = [investigation EXCEPT ![call[h].finding] =
                   [scope |-> call[h].scope, basis |-> call[h].basis,
                    approval_required |-> ApprovalRequired(call[h].scope)]],
               NEW f \in Investigated'
        PROVE  investigation'[f].basis = run
    <3>1. call[h].basis = run
      BY <2>2 DEF AllCurrent, Reader
    <3>2. f \in Finding /\ investigation'[f] # NoInvestigation
      BY <2>2 DEF Investigated
    <3>3. CASE f = call[h].finding
      BY <2>2, <3>1, <3>2, <3>3 DEF TypeOK
    <3>4. CASE f # call[h].finding
      <4>1. investigation'[f] = investigation[f]
        BY <2>2, <3>2, <3>4 DEF TypeOK
      <4> QED
        BY <3>2, <4>1 DEF AllCurrent, Investigated
    <3> QED
      BY <3>3, <3>4
  <2> QED
    BY <1>1, <2>1, <2>2, InvestigationSteps
<1>3. \A f \in Intervened' : intervention'[f].basis = run
  <2>1. ASSUME NEW h \in Handler, NEW status, NEW decision, call[h].op = "request",
               intervention' = [intervention EXCEPT ![call[h].finding] =
                   [status |-> status, basis |-> call[h].basis, outcome |-> "none",
                    policy_decision |-> decision]],
               NEW f \in Intervened'
        PROVE  intervention'[f].basis = run
    <3>1. call[h].basis = run
      BY <2>1 DEF AllCurrent, Reader
    <3>2. f \in Finding /\ intervention'[f] # NoIntervention
      BY <2>1 DEF Intervened
    <3>3. CASE f = call[h].finding
      BY <2>1, <3>1, <3>2, <3>3 DEF TypeOK
    <3>4. CASE f # call[h].finding
      <4>1. intervention'[f] = intervention[f]
        BY <2>1, <3>2, <3>4 DEF TypeOK
      <4> QED
        BY <3>2, <4>1 DEF AllCurrent, Intervened
    <3> QED
      BY <3>3, <3>4
  <2> QED
    BY <1>1, <2>1, DecisionSteps DEF AllCurrent
<1> QED
  BY <1>2, <1>3

LEMMA AllCurrentStep ==
    ASSUME TypeOK, AllCurrent, [Next]_vars,
           run' # run => \A h \in Handler : call[h].op \notin Reader
    PROVE  AllCurrent'
<1>1. CASE NewEvidence /\ Forgotten /\ investigation' = [f \in Finding |-> NoInvestigation]
  <2>1. run' # run
    BY <1>1, EvidenceAssumption DEF NewEvidence, TypeOK
  <2>2. Investigated' = {} /\ Intervened' = {}
    BY <1>1 DEF Forgotten, Investigated, Intervened
  <2>3. \A h \in Handler : call'[h].op \notin Reader
    BY <1>1, <2>1, NewRunReadsNothing
  <2> QED
    BY <2>2, <2>3 DEF AllCurrent
<1>2. CASE run' = run
  BY <1>2, CallBasis, StoredBasis DEF AllCurrent
<1> QED
  BY <1>1, <1>2, EvidenceSteps DEF evidenceVars, Detected, PaidLive

\* Nothing that requires approval is executed without the merchant, in any run,
\* as long as a new run is created only when no request is between reading the
\* evidence and storing what it made of it.
THEOREM MerchantApprovesWhenRunsWait ==
    Spec /\ RunsWaitForReaders => []MerchantApprovedWhenRequired
<1>1. Init => AllCurrent
  <2> SUFFICES ASSUME Init PROVE AllCurrent
    OBVIOUS
  <2>1. \A h \in Handler : call[h].op = "idle"
    BY DEF Init, EvidenceInit, Idle
  <2>2. Investigated = {} /\ Intervened = {}
    BY DEF Init, InvestigationInit, Investigated, Intervened
  <2> QED
    BY <2>1, <2>2 DEF AllCurrent, Reader
<1>2. TypeOK /\ AllCurrent /\ [Next]_vars /\
          [run' # run => \A h \in Handler : call[h].op \notin Reader]_vars => AllCurrent'
  <2> SUFFICES ASSUME TypeOK, AllCurrent, [Next]_vars,
                      [run' # run => \A h \in Handler : call[h].op \notin Reader]_vars
               PROVE  AllCurrent'
    OBVIOUS
  <2>1. run' # run => \A h \in Handler : call[h].op \notin Reader
    BY DEF vars, evidenceVars
  <2> QED
    BY <2>1, AllCurrentStep
<1>3. AllCurrent /\ CurrentAreApproved => MerchantApprovedWhenRequired
  BY DEF AllCurrent, CurrentAreApproved, MerchantApprovedWhenRequired
<1> QED
  BY <1>1, <1>2, <1>3, TypeCorrect, MerchantApprovesCurrent, PTL DEF Spec, RunsWaitForReaders

-----------------------------------------------------------------------------
(***************************************************************************)
(* That the intervention workflow implements ControlledChange, and that    *)
(* its trails only grow, for any findings, merchants, patterns, threads    *)
(* and number of demo runs.                                                *)
(***************************************************************************)
\* The findings with one of some events in their trail.
Having(S) == {f \in Finding : \E i \in 1..Len(events[f]) : events[f][i] \in S}

Clearing == {e \in Event : Clears(e)}
Refusing == {[type |-> "policy_evaluated", detail |-> "blocked"],
             [type |-> "merchant_approval_recorded", detail |-> "deny"]}
Applying == {e \in Event : e.type = "bounded_action_executed"}
Settling == {[type |-> "treated_vs_holdout_verified", detail |-> "improved"],
             [type |-> "treated_vs_holdout_verified", detail |-> "no_improvement"]}
Blaming == {[type |-> "treated_vs_holdout_verified", detail |-> "negative_side_effect"]}
Reverting == {e \in Event : e.type = "rollback_completed"}

\* What the refinement mapping reads off the trails.
Reads ==
    /\ {f \in Finding : \E i \in 1..Len(events[f]) : Clears(events[f][i])} = Having(Clearing)
    /\ HasEvent([type |-> "policy_evaluated", detail |-> "blocked"]) \cup
           HasEvent([type |-> "merchant_approval_recorded", detail |-> "deny"])
       = Having(Refusing)
    /\ HasEventType("bounded_action_executed") = Having(Applying)
    /\ HasEvent([type |-> "treated_vs_holdout_verified", detail |-> "improved"]) \cup
           HasEvent([type |-> "treated_vs_holdout_verified", detail |-> "no_improvement"])
       = Having(Settling)
    /\ HasEvent([type |-> "treated_vs_holdout_verified", detail |-> "negative_side_effect"])
       = Having(Blaming)
    /\ HasEventType("rollback_completed") = Having(Reverting)

LEMMA Mapped == TypeOK => Reads
<1> SUFFICES ASSUME TypeOK PROVE Reads
  OBVIOUS
<1>1. \A f \in Finding : \A i \in 1..Len(events[f]) : events[f][i] \in Event
  BY DEF TypeOK
<1>2. {f \in Finding : \E i \in 1..Len(events[f]) : Clears(events[f][i])} = Having(Clearing)
  BY <1>1 DEF Having, Clearing
<1>3. HasEvent([type |-> "policy_evaluated", detail |-> "blocked"]) \cup
          HasEvent([type |-> "merchant_approval_recorded", detail |-> "deny"])
      = Having(Refusing)
  BY DEF Having, HasEvent, Refusing
<1>4. HasEventType("bounded_action_executed") = Having(Applying)
  BY <1>1 DEF Having, HasEventType, Occurs, Applying
<1>5. HasEvent([type |-> "treated_vs_holdout_verified", detail |-> "improved"]) \cup
          HasEvent([type |-> "treated_vs_holdout_verified", detail |-> "no_improvement"])
      = Having(Settling)
  BY DEF Having, HasEvent, Settling
<1>6. HasEvent([type |-> "treated_vs_holdout_verified", detail |-> "negative_side_effect"])
      = Having(Blaming)
  BY DEF Having, HasEvent, Blaming
<1>7. HasEventType("rollback_completed") = Having(Reverting)
  BY <1>1 DEF Having, HasEventType, Occurs, Reverting
<1> QED
  BY <1>2, <1>3, <1>4, <1>5, <1>6, <1>7 DEF Reads

LEMMA MappedNext == TypeOK' => Reads'
BY Mapped, PTL

\* An event appended to one trail adds its finding to the sets it stands for.
LEMMA Adds ==
    ASSUME TypeOK, NEW f \in Finding, NEW e, events'[f] = Append(events[f], e),
           \A g \in Finding \ {f} : events'[g] = events[g], NEW S
    PROVE  Having(S)' = IF e \in S THEN Having(S) \cup {f} ELSE Having(S)
<1>1. /\ Len(events[f]) \in Nat /\ Len(events'[f]) = Len(events[f]) + 1
      /\ \A i \in 1..Len(events[f]) : events'[f][i] = events[f][i]
      /\ events'[f][Len(events[f]) + 1] = e
  BY DEF TypeOK
<1>2. (\E i \in 1..Len(events'[f]) : events'[f][i] \in S)
      <=> e \in S \/ \E i \in 1..Len(events[f]) : events[f][i] \in S
  BY <1>1
<1> QED
  BY <1>2 DEF Having

-----------------------------------------------------------------------------
(***************************************************************************)
(* Where a status stands in the promise: which sets its finding is in, and *)
(* which it is not in yet.                                                 *)
(***************************************************************************)
Untouched(f) == \A S \in {Applying, Settling, Blaming, Reverting} : f \notin Having(S)

Standing(f) ==
    LET status == intervention[f].status
    IN  /\ status \in {"absent", "awaiting_approval"} =>
               f \notin Having(Clearing) \cup Having(Refusing) /\ Untouched(f)
        /\ status = "approved" => f \in Having(Clearing) /\ Untouched(f)
        /\ status = "executed" =>
               /\ f \in Having(Applying)
               /\ f \notin Having(Settling) \cup Having(Blaming) \cup Having(Reverting)
        /\ status = "rollback_required" =>
               f \in Having(Blaming) /\ f \notin Having(Reverting)

AllStand == \A f \in Finding : Standing(f)

\* Which sets the kinds of events belong to, by the statuses around them.
LEMMA EventKinds ==
    ASSUME NEW e \in Event
    PROVE  \/ /\ StatusBefore(e) = "absent" /\ StatusAfter(e) = "awaiting_approval"
              /\ e \notin Clearing \cup Refusing \cup Applying
              /\ e \notin Settling \cup Blaming \cup Reverting
           \/ /\ StatusBefore(e) \in {"absent", "awaiting_approval"}
              /\ StatusAfter(e) = "approved"
              /\ e \in Clearing
              /\ e \notin Refusing \cup Applying \cup Settling \cup Blaming \cup Reverting
           \/ /\ StatusBefore(e) \in {"absent", "awaiting_approval"}
              /\ StatusAfter(e) = "rejected"
              /\ e \in Refusing
              /\ e \notin Clearing \cup Applying \cup Settling \cup Blaming \cup Reverting
           \/ /\ StatusBefore(e) = "approved" /\ StatusAfter(e) = "executed"
              /\ e \in Applying
              /\ e \notin Clearing \cup Refusing \cup Settling \cup Blaming \cup Reverting
           \/ /\ StatusBefore(e) = "executed"
              /\ StatusAfter(e) \in {"verified", "replan_required"}
              /\ e \in Settling
              /\ e \notin Clearing \cup Refusing \cup Applying \cup Blaming \cup Reverting
           \/ /\ StatusBefore(e) = "executed" /\ StatusAfter(e) = "rollback_required"
              /\ e \in Blaming
              /\ e \notin Clearing \cup Refusing \cup Applying \cup Settling \cup Reverting
           \/ /\ StatusBefore(e) = "rollback_required" /\ StatusAfter(e) = "rolled_back"
              /\ e \in Reverting
              /\ e \notin Clearing \cup Refusing \cup Applying \cup Settling \cup Blaming
<1> USE DEF StatusBefore, StatusAfter, Clears, Clearing, Refusing, Applying, Settling, Blaming,
            Reverting
<1>1. CASE e.type = "policy_evaluated"
  <2>1. PICK d \in Decision : e = [type |-> "policy_evaluated", detail |-> d]
    BY <1>1 DEF Event
  <2> QED
    BY <2>1 DEF Decision, PolicyStatus
<1>2. CASE e.type = "merchant_approval_recorded"
  <2>1. PICK d \in {"approve", "deny"} : e = [type |-> "merchant_approval_recorded", detail |-> d]
    BY <1>2 DEF Event
  <2> QED
    BY <2>1
<1>3. CASE e.type \in {"bounded_action_executed", "rollback_completed"}
  BY <1>3 DEF Event
<1>4. CASE e.type = "treated_vs_holdout_verified"
  <2>1. PICK d \in Outcome : e = [type |-> "treated_vs_holdout_verified", detail |-> d]
    BY <1>4 DEF Event
  <2> QED
    BY <2>1 DEF Outcome, StatusOfOutcome
<1> QED
  BY <1>1, <1>2, <1>3, <1>4 DEF Event

\* What an explained step does to all six sets.
Moved(f, e) ==
    \A S \in {Clearing, Refusing, Applying, Settling, Blaming, Reverting} :
        Having(S)' = IF e \in S THEN Having(S) \cup {f} ELSE Having(S)

LEMMA Moves ==
    ASSUME TypeOK, NEW f \in Finding, Explained(f)
    PROVE  \E e \in Event :
               /\ StatusBefore(e) = intervention[f].status
               /\ StatusAfter(e) = intervention'[f].status
               /\ Moved(f, e)
               /\ \A g \in Finding \ {f} : intervention'[g] = intervention[g]
<1>1. PICK e \in Event :
          /\ StatusBefore(e) = intervention[f].status
          /\ StatusAfter(e) = intervention'[f].status
          /\ events'[f] = Append(events[f], e)
          /\ \A g \in Finding \ {f} : intervention'[g] = intervention[g] /\ events'[g] = events[g]
  BY DEF Explained
<1>2. ASSUME NEW S PROVE Having(S)' = IF e \in S THEN Having(S) \cup {f} ELSE Having(S)
  BY <1>1, Adds
<1>3. Moved(f, e)
  BY <1>2 DEF Moved, Clearing, Refusing, Applying, Settling, Blaming, Reverting
<1> QED
  BY <1>1, <1>3

LEMMA NothingHad ==
    ASSUME NEW S, \A f \in Finding : events[f] = <<>>
    PROVE  Having(S) = {}
BY DEF Having

LEMMA StandInit == Init => AllStand
<1> SUFFICES ASSUME Init PROVE AllStand
  OBVIOUS
<1>1. \A f \in Finding : events[f] = <<>> /\ intervention[f].status = "absent"
  BY DEF Init, NoIntervention
<1> QED
  BY <1>1, NothingHad DEF AllStand, Standing, Untouched

LEMMA StandStep ==
    ASSUME TypeOK, AllStand, [Next]_vars
    PROVE  AllStand'
<1>1. CASE Unstored
  BY <1>1 DEF Unstored, AllStand, Standing, Untouched, Having
<1>2. CASE Forgotten
  <2>1. \A f \in Finding : events'[f] = <<>> /\ intervention'[f].status = "absent"
    BY <1>2 DEF Forgotten, NoIntervention
  <2>2. ASSUME NEW S PROVE Having(S)' = {}
    BY <2>1 DEF Having
  <2> QED
    BY <2>1, <2>2 DEF AllStand, Standing, Untouched
<1>3. ASSUME NEW f \in Finding, Explained(f) PROVE AllStand'
  <2>1. PICK e \in Event :
            /\ StatusBefore(e) = intervention[f].status
            /\ StatusAfter(e) = intervention'[f].status
            /\ Moved(f, e)
            /\ \A g \in Finding \ {f} : intervention'[g] = intervention[g]
    BY <1>3, Moves
  <2>2. ASSUME NEW g \in Finding \ {f} PROVE Standing(g)'
    <3>1. Standing(g)
      BY DEF AllStand
    <3> QED
      BY <2>1, <3>1 DEF Standing, Untouched, Moved
  <2>3. Standing(f)'
    <3>1. Standing(f)
      BY DEF AllStand
    <3> QED
      BY <2>1, <3>1, EventKinds DEF Standing, Untouched, Moved
  <2> QED
    BY <2>2, <2>3 DEF AllStand
<1> QED
  BY <1>1, <1>2, <1>3, StepExplained

LEMMA StandCorrect == Spec => []AllStand
<1>1. TypeOK /\ AllStand /\ [Next]_vars => AllStand'
  BY StandStep
<1> QED
  BY <1>1, StandInit, TypeCorrect, PTL DEF Spec

-----------------------------------------------------------------------------
\* The promise starts with nothing done.
LEMMA PromiseInit == Init /\ TypeOK => Promise!Init
<1> SUFFICES ASSUME Init, TypeOK PROVE Promise!Init
  OBVIOUS
<1>1. \A f \in Finding : events[f] = <<>>
  BY DEF Init
<1>2. ASSUME NEW S PROVE Having(S) = {}
  BY <1>1, NothingHad
<1> QED
  BY <1>2, Mapped DEF Reads, Promise!Init

\* Every step is one of the promise or leaves it alone.
LEMMA PromiseStep ==
    ASSUME TypeOK, TypeOK', AllStand, [Next]_vars
    PROVE  [Promise!Next]_(Promise!vars)
<1>1. Reads /\ Reads'
  BY Mapped, MappedNext
<1>2. CASE Unstored
  <2>1. ASSUME NEW S PROVE Having(S)' = Having(S)
    BY <1>2 DEF Unstored, Having
  <2> QED
    BY <1>1, <2>1 DEF Reads, Promise!vars
<1>3. CASE Forgotten
  <2>1. ASSUME NEW S PROVE Having(S)' = {}
    BY <1>3 DEF Forgotten, Having
  <2>2. Promise!Renew
    BY <1>1, <2>1 DEF Reads, Promise!Renew
  <2> QED
    BY <2>2 DEF Promise!Next
<1>4. ASSUME NEW f \in Finding, Explained(f) PROVE [Promise!Next]_(Promise!vars)
  <2>1. PICK e \in Event :
            /\ StatusBefore(e) = intervention[f].status
            /\ StatusAfter(e) = intervention'[f].status
            /\ Moved(f, e)
            /\ \A g \in Finding \ {f} : intervention'[g] = intervention[g]
    BY <1>4, Moves
  <2>2. Standing(f)
    BY DEF AllStand
  <2>3. CASE e \notin Clearing \cup Refusing \cup Applying \cup Settling \cup Blaming \cup Reverting
    BY <1>1, <2>1, <2>3 DEF Moved, Reads, Promise!vars
  <2>4. CASE e \in Clearing
    <3>1. Promise!Clear(f)
      BY <1>1, <2>1, <2>2, <2>4, EventKinds DEF Moved, Reads, Standing, Promise!Clear
    <3> QED
      BY <3>1 DEF Promise!Next
  <2>5. CASE e \in Refusing
    <3>1. Promise!Refuse(f)
      BY <1>1, <2>1, <2>2, <2>5, EventKinds DEF Moved, Reads, Standing, Promise!Refuse
    <3> QED
      BY <3>1 DEF Promise!Next
  <2>6. CASE e \in Applying
    <3>1. Promise!Apply(f)
      BY <1>1, <2>1, <2>2, <2>6, EventKinds DEF Moved, Reads, Standing, Untouched, Promise!Apply
    <3> QED
      BY <3>1 DEF Promise!Next
  <2>7. CASE e \in Settling
    <3>1. Promise!Settle(f)
      BY <1>1, <2>1, <2>2, <2>7, EventKinds DEF Moved, Reads, Standing, Promise!Settle
    <3> QED
      BY <3>1 DEF Promise!Next
  <2>8. CASE e \in Blaming
    <3>1. Promise!Blame(f)
      BY <1>1, <2>1, <2>2, <2>8, EventKinds DEF Moved, Reads, Standing, Promise!Blame
    <3> QED
      BY <3>1 DEF Promise!Next
  <2>9. CASE e \in Reverting
    <3>1. Promise!Revert(f)
      BY <1>1, <2>1, <2>2, <2>9, EventKinds DEF Moved, Reads, Standing, Promise!Revert
    <3> QED
      BY <3>1 DEF Promise!Next
  <2> QED
    BY <2>3, <2>4, <2>5, <2>6, <2>7, <2>8, <2>9
<1> QED
  BY <1>2, <1>3, <1>4, StepExplained

\* The workflow implements ControlledChange: whatever requests cross and
\* whatever runs and crashes come in between, a change is applied once, when
\* cleared, judged once, and reverted only when harmful; a refused one never is.
THEOREM Implements == Spec => KeepsPromise
<1>1. TypeOK /\ TypeOK' /\ AllStand /\ [Next]_vars => [Promise!Next]_(Promise!vars)
  BY PromiseStep
<1> QED
  BY <1>1, PromiseInit, InitType, StandCorrect, TypeCorrect, PTL
     DEF Spec, KeepsPromise, Promise!Spec

-----------------------------------------------------------------------------
\* Within a run no event is lost and a row in a final status is left alone:
\* no event may follow a final status.
LEMMA GrowsStep ==
    ASSUME TypeOK, [Next]_vars, run' = run
    PROVE  \A f \in Finding :
               /\ Len(events'[f]) >= Len(events[f])
               /\ SubSeq(events'[f], 1, Len(events[f])) = events[f]
               /\ intervention[f].status \in Final => intervention'[f] = intervention[f]
<1>1. ASSUME NEW g \in Finding
      PROVE  /\ Len(events[g]) \in Nat
             /\ SubSeq(events[g], 1, Len(events[g])) = events[g]
  BY DEF TypeOK
<1>2. CASE Unstored
  BY <1>1, <1>2 DEF Unstored
<1>3. CASE Forgotten
  BY <1>3 DEF Forgotten, TypeOK
<1>4. ASSUME NEW f \in Finding, Explained(f), NEW g \in Finding
      PROVE  /\ Len(events'[g]) >= Len(events[g])
             /\ SubSeq(events'[g], 1, Len(events[g])) = events[g]
             /\ intervention[g].status \in Final => intervention'[g] = intervention[g]
  <2>1. PICK e \in Event :
            /\ StatusBefore(e) = intervention[f].status
            /\ events'[f] = Append(events[f], e)
            /\ \A o \in Finding \ {f} : intervention'[o] = intervention[o] /\ events'[o] = events[o]
    BY <1>4 DEF Explained
  <2>2. CASE g # f
    BY <1>1, <2>1, <2>2
  <2>3. CASE g = f
    <3>1. intervention[f].status \notin Final
      BY <2>1, EventKinds DEF Final
    <3>2. /\ Len(Append(events[f], e)) = Len(events[f]) + 1
          /\ SubSeq(Append(events[f], e), 1, Len(events[f])) = events[f]
      BY DEF TypeOK
    <3> QED
      BY <1>1, <2>1, <2>3, <3>1, <3>2
  <2> QED
    BY <2>2, <2>3
<1> QED
  BY <1>2, <1>3, <1>4, StepExplained

\* Within a run trails only grow, and a refused, kept, replanned or
\* rolled-back intervention stays so, whatever requests are in flight.
THEOREM TrailsOnlyGrow == Spec => TrailOnlyGrows
<1> DEFINE Grow == run' = run =>
        \A f \in Finding :
            /\ Len(events'[f]) >= Len(events[f])
            /\ SubSeq(events'[f], 1, Len(events[f])) = events[f]
            /\ intervention[f].status \in Final => intervention'[f] = intervention[f]
<1>1. TypeOK /\ [Next]_vars => [Grow]_vars
  BY GrowsStep
<1> QED
  BY <1>1, TypeCorrect, PTL DEF Spec, TrailOnlyGrows
=============================================================================
