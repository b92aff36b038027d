------------------------------ MODULE Evidence ------------------------------
(***************************************************************************)
(* The evidence a demo run rests on: the synthetic payment events, the     *)
(* anomaly findings the detector derives from them and the anonymised      *)
(* cross-merchant clusters.  Seeding and detection are separate SQLite     *)
(* transactions, run by FastAPI worker threads (Handler); `call` is what   *)
(* each thread is in the middle of, with the values it has read so far.    *)
(* Merchants add payments of their own within a run; their failures have   *)
(* an error family no seeded event has.                                    *)
(*                                                                         *)
(* A finding id is uuid5(merchant, method, provider, error): it carries no *)
(* run id, so the same Finding can come back in a later demo run, with     *)
(* other evidence around it.                                               *)
(***************************************************************************)
EXTENDS Naturals, FiniteSets

CONSTANTS
    Finding,          \* possible sre_anomaly_findings primary keys
    Handler,          \* worker threads of the server
    MerchantOf,       \* the merchant of a finding
    PatternOf,        \* its (payment_method, provider, error_family)
    CustomerPattern,  \* patterns whose error family is a payer-side one
    PrivacyThreshold, \* NETWORK_PRIVACY_THRESHOLD
    MaxRuns           \* bound on the demo runs created in one behaviour

ASSUME EvidenceAssumption ==
    /\ IsFiniteSet(Finding)
    /\ PrivacyThreshold \in Nat \ {0}
    /\ MaxRuns \in Nat

VARIABLES
    live,      \* patterns of live payments, chosen at the start (ghost)
    run,       \* how many demo runs have replaced the first one (ghost)
    flagged,   \* findings the detector's statistics give on the stored events
    findings,  \* rows of sre_anomaly_findings
    clusters,  \* patterns with a row in sre_detected_clusters
    call       \* what each worker thread is doing

evidenceVars == <<live, run, flagged, findings, clusters>>

Idle == [op |-> "idle"]

EvidenceCall == [op : {"idle", "count", "detect"}]

Begin(h, c) == call[h] = Idle /\ call' = [call EXCEPT ![h] = c]
Continue(h, c) == call' = [call EXCEPT ![h] = c]
Return(h) == call' = [call EXCEPT ![h] = Idle]

-----------------------------------------------------------------------------
\* _persist_anonymized_clusters: a pattern is a cluster when enough distinct
\* merchants have a finding with it.
AffectedMerchants(p, S) == {MerchantOf[f] : f \in {g \in S : PatternOf[g] = p}}

ClusterPatterns(S) ==
    {p \in {PatternOf[f] : f \in S} :
        Cardinality(AffectedMerchants(p, S)) >= PrivacyThreshold}

\* Findings about seeded events.  Those about live payments are the others: all
\* live failures are of the family live_demo_payment_failure.
Seeded == {f \in Finding : PatternOf[f] \notin live}

\* create_app has seeded the first run and detected on it before serving.  It
\* keeps a database it finds: as any restart does, after any behaviour.
EvidenceInit ==
    /\ live \in SUBSET {PatternOf[f] : f \in Finding}
    /\ run = 0
    /\ flagged \in SUBSET Seeded
    /\ findings = flagged
    /\ clusters = ClusterPatterns(flagged)
    /\ call = [h \in Handler |-> Idle]

\* Mutants of SeedRun: the cluster table is not cleared; detection is forgotten.
SeedRunKeepsClusters(h) ==
    /\ run < MaxRuns
    /\ Begin(h, [op |-> "count"])
    /\ run' = run + 1
    /\ flagged' \in SUBSET Seeded
    /\ findings' = {}
    /\ UNCHANGED <<live, clusters>>

SeedRunOnly(h) ==
    /\ run < MaxRuns
    /\ Begin(h, Idle)
    /\ run' = run + 1
    /\ flagged' \in SUBSET Seeded
    /\ findings' = {}
    /\ clusters' = {}
    /\ UNCHANGED live

\* seed_synthetic_data's one transaction, as far as the evidence tables go.
\* POST /demo-runs/create goes on to run_detection in the same handler.
SeedRun(h) ==
    /\ run < MaxRuns
    /\ Begin(h, [op |-> "count"])
    /\ run' = run + 1
    /\ flagged' \in SUBSET Seeded
    /\ findings' = {}
    /\ clusters' = {}
    /\ UNCHANGED live

\* POST /merchant/live-payment-events: the failure that brings a merchant's live
\* ones to MIN_RECENT_ATTEMPTS.  Others change nothing the detector sees; a
\* paid event has no error family.  Nobody is asked to detect again.
RecordLivePayment(f) ==
    /\ f \in Finding \ Seeded
    /\ flagged' = flagged \cup {f}
    /\ UNCHANGED <<live, run, findings, clusters, call>>

\* POST /ops/detection/run
StartDetection(h) ==
    /\ Begin(h, [op |-> "count"])
    /\ UNCHANGED evidenceVars

\* The count of existing findings is read before the transaction.
CountFindings(h) ==
    /\ call[h] = [op |-> "count"]
    /\ Continue(h, IF findings = {} THEN [op |-> "detect"] ELSE Idle)
    /\ UNCHANGED evidenceVars

WriteFindings ==
    /\ findings' = flagged
    /\ clusters' = ClusterPatterns(flagged)
    /\ UNCHANGED <<live, run, flagged>>

\* The transaction deletes and rewrites clusters and findings.  Deleting a
\* finding some investigation references violates a foreign key: the whole
\* transaction rolls back and the request fails.
Detect(h, referenced) ==
    /\ call[h] = [op |-> "detect"]
    /\ Return(h)
    /\ IF findings \cap referenced = {} THEN WriteFindings
                                        ELSE UNCHANGED evidenceVars

\* The process dies, losing every thread, and create_app starts again:
\* stored evidence is kept, and detection runs when no finding is stored.
Restart ==
    /\ call' = [h \in Handler |-> Idle]
    /\ IF findings = {} THEN WriteFindings ELSE UNCHANGED evidenceVars

-----------------------------------------------------------------------------
\* What is stored, unless it is nothing, is all the seeded events give and
\* nothing the stored events do not give; live payments may have it lag behind.
\* Detection, its stale count and a new run's deletion are separate
\* transactions; a cluster row must never outlive the findings behind it.
EvidenceConsistent ==
    /\ findings \subseteq flagged
    /\ findings = {} \/ flagged \cap Seeded \subseteq findings
    /\ clusters = ClusterPatterns(findings)
=============================================================================
