--------------------------- MODULE Investigation ----------------------------
(***************************************************************************)
(* run_investigation: it reads the finding, then the network cluster, each *)
(* in a snapshot of its own, and upserts the investigation row in a later  *)
(* transaction.  A row is identified by its finding.                       *)
(***************************************************************************)
EXTENDS Evidence

VARIABLE investigation  \* sre_investigations, one row or none per finding

Scope == {"network", "customer", "merchant"}

NoInvestigation == [scope |-> "absent", approval_required |-> FALSE, basis |-> 0]

\* `basis` is a ghost: the run in which the finding behind the row was read.
InvestigationRow ==
    [scope : Scope, approval_required : BOOLEAN, basis : Nat]

InvestigationCall ==
    [op : {"correlate"}, finding : Finding, basis : Nat] \cup
    [op : {"record"}, finding : Finding, basis : Nat, scope : Scope]

Investigated == {f \in Finding : investigation[f] # NoInvestigation}

\* _scope_and_cause
ScopeOf(f, network_found) ==
    IF network_found THEN "network"
    ELSE IF PatternOf[f] \in CustomerPattern THEN "customer" ELSE "merchant"

\* _plan: only the network plan runs without the merchant.
ApprovalRequired(scope) == scope # "network"

-----------------------------------------------------------------------------
InvestigationInit == investigation = [f \in Finding |-> NoInvestigation]

\* Mutant of ReadFinding: the caller's finding id is taken without reading it.
ReadFindingUnchecked(h, f) ==
    /\ Begin(h, [op |-> "correlate", finding |-> f, basis |-> run])
    /\ UNCHANGED <<evidenceVars, investigation>>

\* _finding (and the API's ownership check): the finding must be stored.
ReadFinding(h, f) ==
    /\ f \in findings
    /\ Begin(h, [op |-> "correlate", finding |-> f, basis |-> run])
    /\ UNCHANGED <<evidenceVars, investigation>>

\* _network_evidence, _scope_and_cause, _plan
ReadCluster(h) ==
    /\ call[h].op = "correlate"
    /\ LET f == call[h].finding
       IN  Continue(h, [op |-> "record", finding |-> f, basis |-> call[h].basis,
                        scope |-> ScopeOf(f, PatternOf[f] \in clusters)])
    /\ UNCHANGED <<evidenceVars, investigation>>

\* Mutant of RecordInvestigation: no foreign key on finding_id.
RecordInvestigationUnchecked(h) ==
    /\ call[h].op = "record"
    /\ Return(h)
    /\ UNCHANGED evidenceVars
    /\ LET c == call[h]
       IN  investigation' = [investigation EXCEPT ![c.finding] =
               [scope |-> c.scope, basis |-> c.basis,
                approval_required |-> ApprovalRequired(c.scope)]]

\* The upsert.  finding_id is a foreign key: when the finding is gone, the
\* transaction rolls back and the request fails.
RecordInvestigation(h) ==
    /\ call[h].op = "record"
    /\ Return(h)
    /\ UNCHANGED evidenceVars
    /\ LET c == call[h]
       IN  IF c.finding \in findings
           THEN investigation' = [investigation EXCEPT ![c.finding] =
                    [scope |-> c.scope, basis |-> c.basis,
                     approval_required |-> ApprovalRequired(c.scope)]]
           ELSE UNCHANGED investigation

-----------------------------------------------------------------------------
\* An investigation that read its finding in the current run has the scope
\* the current evidence gives, though finding, cluster and row are read and
\* written in three transactions that a new run may separate.  Only about live
\* payments may a detection that counted before the finding was stored come
\* in between, and only to make a network incident of it.
ScopeFollowsEvidence ==
    \A f \in Investigated :
        investigation[f].basis = run =>
            \/ investigation[f].scope = ScopeOf(f, PatternOf[f] \in clusters)
            \/ f \notin Seeded /\ investigation[f].scope = ScopeOf(f, FALSE)
=============================================================================
