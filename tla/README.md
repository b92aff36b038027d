# A TLA+ model of the Revenue SRE agentic copilot

This directory holds TLA+ specifications of the program under `src/`, TLC
configurations that check them on small instances, and proofs for TLAPS. Paths
below are relative to `src/src/recovery_orchestrator/` unless they start with
`src/`.

1. [The system](#1-the-system)
2. [What is modelled, and by which module](#2-modules-and-the-code-they-model)
3. [The runs](#3-the-runs-and-what-they-show)
4. [Fairness](#4-fairness)
5. [What is proved](#5-what-is-proved)
6. [Where code and documentation disagree](#6-where-the-code-and-its-documentation-disagree)
7. [Behaviour of the code that no property forbids](#7-behaviour-of-the-code-that-no-property-forbids)
8. [Abstractions](#8-abstractions)
9. [What is not modelled](#9-what-is-not-modelled)
10. [Plan](#10-plan)

To check: `tlc -config MCIntervention.cfg MCIntervention`, and likewise for the
other runs; `tlapm Intervention_proofs.tla`, and likewise `Decision_proofs`,
`CustomerRecovery_proofs`, `PolicyGate_proofs`, `RecoveryCase_proofs`,
`Delivery_proofs`, `Copilot_proofs` and the lemmas of `Sums`, for the proofs.

## 1. The system

A FastAPI server (`api.py`) over one SQLite file. Handlers are synchronous
functions that FastAPI runs on worker threads, each with a connection of its
own: **two requests interleave at every transaction, and at every call to
Gemini, Twilio or an email provider between two transactions**. There is no
lock above SQLite's, no job queue and no background worker; a Streamlit
dashboard polls the API and keeps a state of its own, which the server does not
see. The process may die between any two transactions.

The program has two halves which share the database and little else: the
*Revenue SRE* workflow (detect a payment incident, investigate, intervene,
recover the affected customers) and the older *recovery demo* (one overdue case
at a time, agents, policy gate, executor).

| Component | State | Operations | Who calls it |
| --- | --- | --- | --- |
| Payment evidence and detection: `revenue_sre/synthetic_data.py`, `detection.py` | payment events, `sre_anomaly_findings`, `sre_detected_clusters`, scenario state | seed a run (empties everything), detect (rewrites findings and clusters) | demo-run creation, `POST /ops/detection/run`, start-up |
| Live payment monitor: `revenue_sre/live_monitor.py` | none of its own: it adds payment events to the evidence | record a live payment, summarise the last hour | merchant endpoints |
| Investigation: `revenue_sre/investigation.py` | `sre_investigations`, agent steps | `run_investigation` | merchant endpoint |
| Intervention: `revenue_sre/intervention.py` | `sre_interventions`, its measurement, `sre_intervention_events` | request, approve/deny, execute, verify, roll back | merchant endpoints, each after an ownership check |
| Customer recovery: `revenue_sre/customer_recovery.py`, `live_whatsapp.py` | batch and recipient rows, plus what Twilio has accepted | prepare drafts, approve and send, link open, test payment, follow-up monitor, retry, delivery status | merchant endpoints, the customer's link, the dashboard's poll |
| Policy gate: `policy/engine.py`, `clock.py` | none (reads the case, its policy, the clock, the budget snapshot) | `evaluate` | case graph |
| Recovery case: `graph.py`, `demo_runtime.py`, `executors/simulator.py`, `db/repositories.py` | case row, append-only audit trail, action ledger, simulation clock | run a case, interpret a reply, apply a payment, human review, advance time, reset | demo endpoints |
| Delivery: `revenue_sre/notifications.py`, `live_email.py`, `live_whatsapp.py` | contacts, rules, outbox, live attempts, inbound replies | dispatch, send live, receive a reply | merchant endpoints, Twilio webhook |
| Budget ledger: `db/repositories.py` | reserved paise per day | reserve, snapshot | `reserve` has no caller |
| External inbox: `integrations/razorpay_webhooks.py` | received events | receive | webhook |
| Accounts and sessions: `revenue_sre/auth.py`, dashboard | session rows; the token each browser tab holds | sign in, sign out, expire | merchant endpoints, dashboard |
| Copilot: `revenue_sre/copilot.py`, dashboard | a stored conversation per merchant, wiped by a new run; the panel of each browser tab | ask Gemini, store question and answer, show | merchant endpoint, dashboard |
| Catalog, portfolio, settings | none | read | merchant endpoints |

**Interactions.** Evidence, investigation, intervention and customer recovery
are chained by primary keys, `uuid5` of the key before, with no run in them: *the
same ids come back in the next demo run*. A row is read in one transaction and
referred to in a later one, with only foreign keys to notice that a new run came
in between. The recovery case hangs together by values: a handler reads the
whole row, works on the object, and saves the whole row again.

**What is hard about it.**

- *Interleaving.* Detection reads a count before its transaction; the follow-up
  monitor reads the due rows, then calls Gemini and Twilio, then marks them;
  concurrent runs of a case number their actions alike.
- *Stale values.* Ownership, scope, approval requirement, delivery state and
  the case row are all read in a transaction other than the one that uses them,
  and a new run may replace the tables under any of them. Payments go on while
  the findings stay what they were at the last detection.
- *Crashes.* Seeding and detection, saving a row and appending its audit event,
  accepting a message and recording it: each pair can be cut.
- *Lost answers.* Twilio may have accepted a message the program never learns of.
- *Order and repetition.* Every endpoint may be called in any order and again.
- *Edges of numbers.* Quiet hours on either side of midnight in the customer's
  timezone, shares and installments in whole paise.

**What makes each part correct.**

- Evidence: clusters are those of the findings; findings are ones the stored
  events give, and all that the seeded ones give; a new run is detected on in
  the end.
- Investigation: its scope is what the evidence it read calls for.
- Intervention: the audit trail replays to the row (`src/README.md:97`), an
  approved action runs once (`src/README.md:105`), nothing runs that the policy
  or the merchant has not cleared, a rollback follows only a harmful measurement.
- Customer recovery: nothing is sent before the merchant's approval
  (`src/README.md:123`, `:252`); a customer who has not paid is followed up,
  once (`src/README.md:135`); a retry follows a failure; the tracked message
  exists.
- Delivery: a message shown or recorded as sent was accepted by the provider, and
  stays so; an accepted email is not sent again (`revenue_sre/live_email.py:54`);
  alerts of one kind keep the rule's distance; a reply belongs to its alert.
- Policy gate: a deferral ends as early as it may and not before; asking for
  more is never easier.
- Budget ledger: what the gate lets pass, the ledger would grant.
- Recovery case: an executed action was cleared, ran once, and is what the ledger
  holds; money in the trail is money in the case; an objection stops automation.
- Copilot and sessions: a dashboard shows messages of the merchant signed in on
  it and of no other; an answer shown as one is remembered; a question is never
  left without an answer or an apology.

## 2. Modules and the code they model

`PROJECT.json` gives, under `map`, the source lines of every definition.

### Evidence, Investigation, Intervention, ControlledChange

One specification in three layers: `Intervention` EXTENDS `Investigation`, which
EXTENDS `Evidence`; one `call` variable says what every worker thread is in the
middle of, with what it has read so far.

| Variable | Code |
| --- | --- |
| `findings`, `clusters` | rows of `sre_anomaly_findings` and `sre_detected_clusters` |
| `flagged` | the findings the detector's statistics give on the stored events: any set of seeded ones, and those live payments have added |
| `live` | ghost, constant: the patterns of live payments; the findings of the others are `Seeded` |
| `investigation` | `sre_investigations`: scope and `approval_required` |
| `intervention`, `events` | `sre_interventions` with its measurement, and its events in order |
| `run`, `basis` | ghosts: the current demo run, and the run whose evidence a row stands on |

Every transaction is an action (`SeedRun`/`CreateRun`, `Detect`,
`RecordInvestigation`, `RequestIntervention`, `ApproveIntervention`,
`ExecuteIntervention`, `VerifyIntervention`, `RollbackIntervention`) and so is
every read in a snapshot of its own (`CountFindings`, `ReadFinding`,
`ReadCluster`, `ReadInvestigation`, `CheckOwnership`). A foreign key that fails
rolls the transaction back and ends the request. `Crash` loses all threads and
runs `create_app`, which detects when nothing is stored.

`RecordLivePayment` is `record_live_payment`, as far as the detector sees it. All
live failures are of the family `live_demo_payment_failure`, which no seeded event
has, and of one issuer, device and, per method, provider: a merchant's live failures
of one method are a group of their own, none of it paid, and the twentieth
(`MIN_RECENT_ATTEMPTS`) makes a finding of it. More only keep it one; a paid live
payment has no error family and is in no group. So live payments add findings and
take none away, if they are recorded after `INCIDENT_START` (15 August 2026): the
server's clock is assumed to be past it, since earlier ones would enter the
baselines. Nothing asks for a detection then, and while any finding is stored none
happens (`detection.py:47`), so a live incident is not found (the next run deletes
its events), though the monitor says that it "has flagged a sharp decline" and sends the merchant
to Payment health (`live_monitor.py:39-40`). The exception is a detection on
a run without findings, or one that had counted none before another detection
finished: `ScopeFollowsEvidence` and `DecisionFollowsEvidence` say what an
investigation and a decision may then have missed.

`ControlledChange` is what the workflow promises with no tables or threads: a
change is applied only when cleared, at most once, judged once, reverted only if
harmful; a refused one never is. `Intervention` implements it under a mapping
that reads cleared, refused, applied, ... off the audit trail alone
(`KeepsPromise`).

### CustomerRecovery

One finding's batch. `recipient` is the row per test phone number, `accepted` is
what Twilio has accepted for that number (it survives runs and crashes),
`refused` is whom an approval reported as send errors. A link token is random
per run, so a link is named by the run that issued it; ids are the same in every
run, so an UPDATE that began in an earlier run hits the row of the current one.
Each of `prepare_batch`, `approve_and_send_batch`, `run_follow_up_monitor` and
`retry_undelivered_customer_message` is split at each transaction and each
provider call. A send is accepted, refused, or its answer is lost
(`AnswerLost`: a read timeout is not a `URLError`, so nothing catches it). A message
is `failed` once Twilio reports it failed or undelivered (`ReportFailed`), which the
program asks for when it retries (`CheckDelivery`); the statuses before that are one.

### Delivery

One merchant's alerts. An alert is named by what makes its id: an intervention
(or the critical finding), and the event (or the engineering contact).

| Variable | Code |
| --- | --- |
| `intervention` | `sre_interventions` with the scope and severity joined in `dispatch_for_intervention` |
| `critical` | a critical finding of the merchant is stored |
| `optedIn`, `configured` | contacts that take email; provider settings |
| `outbox`, `attempts`, `replies` | `notification_outbox`, `notification_live_attempts`, `whatsapp_inbound_events` |
| `latest` | the alert of the newest `live_sent` WhatsApp attempt |
| `steps` | replies in `sre_agent_steps` |
| `emails`, `whatsapps` | ghosts: what the providers have accepted |

`StartDispatch`, `ReadContact` and `DispatchOne` are the three transactions of a
dispatch; `StartUrgent`, `PrepareUrgent` and `DraftUrgent` those of the urgent
email, which the urgent button and the investigation endpoint go on to send.
`StartEmail`, `CheckAccepted`, the answer (`EmailAccepted`, `CallRefused`,
`AnswerLost`, `GiveUp`), `RecordEmail` and `ShowText` are the steps of
`deliver_controlled_email`. WhatsApp has no check, so `StartWhatsApp` goes straight
to the provider. `ReceiveReply` is the webhook's one transaction.
`RequestIntervention`, `DecideIntervention` and `InvestigateAgain` are what
alerting sees of the Revenue SRE chain.

### PolicyGate

Pure operators: `Evaluate` runs the five groups of checks of
`PolicyEngine.evaluate` in the code's order; `QuietHoursRetryAt` is the
arithmetic of the quiet-hours deferral; `SeededPlan` is the plan the seeded
agent proposes. An instant is a half hour, the unit in which India's offset, the
policy's hours and the demo's clock are all whole. `MCPolicyGate` puts an action,
a case, a policy and the time in variables and lets the clock run. The budget the
gate looks at is the snapshot of `BudgetLedger`: `cap` and `reservation` are
`budget_state.cap_paise` and the rows of `budget_reservations`; `Initialize`,
`Reserve` and `Clear` are the repository's operations. The ledger is over any finite
set of actions; `Reserved` is the sum of what they hold.

### RecoveryCase

EXTENDS `PolicyGate`: the gate is called by the `Gate` action. `case` is the row,
`trail` the audit events, `ledger` the action executions, `clocks` the `SimClock`
objects (a reset replaces the object; requests in flight keep the old one). A
thread's `call` holds the row it has read. Each node is a `Save`, a blind upsert
of that row, followed by `AppendEvent` as a step of its own. `Register` and
`MarkResult` are the executor's two ledger transactions. `Crash` restarts the
process at the demo's first instant and seeds an empty database.

### Accounts, Copilot

`Accounts` has the two sides of a sign-in: `session`, the rows of
`auth_sessions`, and `signedIn`, the user and token in each Streamlit session.
`Copilot` EXTENDS it with the stored conversations (`history`), the dashboards'
copies (`panel`), the question a dashboard waits for (`waiting`), the server's
threads (`call`) and a ghost, the demo run. `Admit` looks the token up again,
`StoreQuestion` and `StoreAnswer` are the two transactions of `ask_copilot`,
each of which may fail, and `Reply` is the answer, shown if the dashboard still
waits. `TimeOut` is the dashboard's thirty seconds; the thread goes on.

## 3. The runs and what they show

| Run | Question | Bounds |
| --- | --- | --- |
| `intervention` | Do evidence, investigations and interventions stay consistent, does the audit trail explain every row, is an action executed once and only when cleared, has the merchant approved what requires it and is of the current run, does the workflow implement `ControlledChange`, and is all that a run was seeded with found in the end, with live payments added at any time? | 2 threads, 2 findings of 2 merchants with one pattern, of seeded events or of live payments, threshold 2, 1 new run |
| `intervention_stale` | (violation) Is approval required whenever the stored investigation says so? | as `intervention` |
| `recovery` | Is a tracked message real, does a retry follow a failure, is the first contact always an approved one, is an unfinished customer followed up? | 2 threads, 1 recipient, 2 runs, 2 messages and each run's first follow-up |
| `recovery_batch` | Within one run, is nothing sent before approval, and is everyone in a sent batch attempted? | 2 threads, 2 recipients, 1 run, 1 message each |
| `recovery_follow_ups` | (violation) Is there one follow-up? | 2 threads, 1 run, 3 messages |
| `delivery` | Does nothing refer to what a new run deleted, is what is shown and recorded as sent accepted, does it stay recorded, do cooldowns hold, do replies stay with their alert? | 2 threads, 2 interventions of either scope, 1 critical finding, 1 new run, 2 hours, 2 requests |
| `delivery_repeated` | (violation) Is one email sent for an alert? | 2 threads, 1 intervention, 3 requests |
| `policy_gate` | Are deferrals tight, are discounts monotone, is the seeded plan acceptable, does the gate agree with the budget ledger under reservations, restarts and resets? | a day of half hours; 2 zones, 4 quiet-hour settings, 2 cooldowns, small amounts; a ledger of 2 actions and 2 caps |
| `recovery_case` | With two requests at a time: is every execution cleared, and is it what the ledger holds? | 2 threads, 3 requests, 1 reset |
| `recovery_case_alone` | With one request at a time: does an action run once, is money conserved, does an objection stop automation? | 1 thread, 4 requests, no reset |
| `recovery_case_paid` | (violation) Is a paid case left alone? | 1 thread, 3 requests |
| `copilot` | Does a dashboard show its merchant's messages only, is a shown answer remembered, is every question answered or apologised for? | 2 merchants, 2 dashboards, 2 tokens, 2 threads, 2 questions, 1 new run, 2 messages shown |

**Why the bounds are enough.**

- *Two threads.* No transaction of the program reads what more than one other
  request is in the middle of; the races are between two requests, and crashes
  let a third begin. Threads are interchangeable, and runs of safety properties
  alone use that as symmetry where state space needs it; a run with a liveness
  property never does.
- *Two findings, one pattern, threshold 2.* A cluster exists with both findings
  and with neither alone, so a run can turn a network-wide incident into a
  merchant's own and back; findings of unrelated patterns do not interact. The
  pattern is one of seeded events or, in other behaviours, one of live payments, which
  then bring the two findings up one by one. 832,370 states.
- *One new run* (`MaxRuns`) puts a request of the old run against tables of the
  new one.
- *Messages.* `MaxMessages` bounds approved and retried messages per number;
  a run's first follow-up is never held back by it. Two leave room for an approved
  send whose answer is lost and the second click's, or for a send and a retry, and
  the follow-up comes on top, so `UnfinishedIsFollowedUp` is never fulfilled by
  having reached the bound. Two follow-ups, for `recovery_follow_ups`, need three.
  946,510 states in `recovery`, most of its time for the liveness property.
- *Two recipients* give the loop a first and a last; the three the program
  allows add no control.
- *Delivery.* A request is one that alerts, sends or changes a contact; new runs,
  crashes, replies and decisions are not counted. Two requests are two dispatches
  of the same event, an urgent email that is prepared and sent while another
  sender works on it, or a dispatch and a WhatsApp send a reply then answers. An
  hour is the unit of the cooldowns (one, two and none), and two hours are enough
  to be inside and outside each.
- *Recovery case.* A case of 2 or 3 paise can be partially paid in every way,
  and 3 is the smallest balance with a valid three-part plan.  Three requests
  are a run that proposes, a second concurrent run, and a reset or review; four
  are a run, a payment or a reply, a review, and one more run. The clock starts
  at 07:00 UTC (half hour 14) and can be advanced into the quiet hours, past a
  promise and out again. `recovery_case_alone` has no reset, since a reset with
  one thread empties everything; restarts it has.
- *Policy gate.* 48 half hours are every local time of day; 26 and 100 are above
  the hard maximum, 9, 10, 11 and 25 around the two limits. The ledger moves at
  the last half hour only: the gate reads nothing of it but what remains. Caps of
  5 and 30 paise and other reservations of 3 and 20 make a budget that is
  enough, spent, or overdrawn after the cap was lowered.
- *Copilot.* Two tokens let one merchant follow the other on a dashboard, or
  be on both; two questions are two of one dashboard, or one of each, and two
  messages returned by the server are fewer than two questions store. 1,309,256
  states.

`CHECK_DEADLOCK FALSE` is said of `MCPolicyGate`, whose clock stops at its bound,
and of `MCCopilot`, where tokens and questions run out and everybody may have
signed out. The other models have no state without a successor: requests arrive
and processes restart for ever.

## 4. Fairness

`DetectionFairness` (`intervention`): weak fairness of a begun detection's
next step. A request's thread runs to its end unless the process dies, and then
start-up detects. Requests themselves need not arrive.

`FollowUpFairness` (`recovery`):

- weak fairness of a working thread (`Working`), as above;
- strong fairness of `ReadDue`: the merchant's dashboard page, while open, polls
  every five seconds (`src/dashboard/streamlit_app.py:627-650`), and every poll
  runs the monitor (`api.py:529`). Strong, because a thread may be busy or the
  process restarting whenever one looks. Nothing but such a poll runs the
  monitor: with every page closed nobody is followed up, and the property does
  not hold without this assumption;
- strong fairness of an accepted follow-up, of anyone's: Gemini and Twilio do not
  fail for ever. Nothing is assumed of any one request, recipient or message: an
  answer may be lost every time, and the process may crash for ever;
- weak fairness of time passing.

`UnfinishedIsFollowedUp` says that Twilio accepts a follow-up, or the row shows one or
the payment, or a new run has deleted the row. It does not say that the follow-up is of
the row's own run: one that was under way when a new run began is recorded in the
new run's row, which then gets no other (section 7).

`FairSpec` of `Copilot` (`copilot`): weak fairness of `TimeOut`. The dashboard's
HTTP client gives up after thirty seconds (`src/dashboard/streamlit_app.py:41`),
whatever the server does; nothing is assumed of the server.

## 5. What is proved

`Intervention_proofs` proves, for any finite set of findings, any threads, any
number of runs and any privacy threshold (the named assumption
`EvidenceAssumption` is all that is used):

- `TypeCorrect`: `Spec => []TypeOK`.
- `AuditTrail`: `Spec => []AuditTrailReplays`. Replaying the stored events from
  nothing is a legal path that ends in the row's status.
- `ExecutesOnce`: `Spec => []ExecutesOnceWhenCleared`. In the trail an execution
  follows an approval by the policy or the merchant, there is one, and none after
  a refusal.

`TypeOK` is inductive. `AuditTrailReplays` needs, beyond it, only that a request
changes the row of an intervention and appends the event that explains the
change in one transaction (`StepExplained`): `AppendReplays` shows that appending
an event whose *before* status is the row's and whose *after* status is the new
one keeps a trail replaying, and `Advance` does exactly that. That executing is
done once is not inductive as stated: it follows from replaying with a rank on
statuses (`Stage`), which every event raises; so a status cannot be met twice in
a replayed trail, `ClearedBy` shows that before `approved` there is a clearance,
and `ExecutionInTrail` puts the two together.

`Delivery_proofs` proves every property of `Delivery` that holds, for any
interventions, threads, evidence, drafts and bounds (`DeliveryAssumption`; and
`DraftAssumption`: the key of a WhatsApp attempt is not one of an email's):

- `TypeCorrect`: `TypeOK` is inductive.
- `RecordedIsAccepted`, `ShownIsSent`: `SentIsAccepted` and `ShownTextWasSent` are
  inductive only together with `AcceptedInFlight`: what a thread is about to record
  as accepted, or to show, is something the provider did accept. `Honest` is the
  three of them; it needs that the providers forget nothing (`ProvidersRemember`).
- `AcceptedStays`: the attempts change within a run only by the storing of an
  answer (`AttemptsStep`), which keeps an accepted one.
- `Integrity`: `NothingDangles` needs `Linked`: the alert last sent by WhatsApp is
  one that was, and an urgent email is prepared about a finding, whose row no
  foreign key guards. The replies in the traces (`StepsAreReplies`) keep themselves.
- `Cooldown`: an alert is stored only when it is at least a cooldown younger than
  each stored one, so a dispatch whose instant is overtaken stores nothing. It
  leans on `ShownTextWasSent`: an alert not in `Unedited` is one whose edited
  email was accepted.

`Decision_proofs` proves the remaining invariants of the intervention workflow
from the same assumption:

- `EvidenceStaysConsistent` is inductive with `TypeOK`: only one transaction
  rewrites findings and clusters, and it writes both from the same events; live
  payments only add to what the events give, and to none of the seeded findings.
- `ReferencesStayIntact`, `ScopesFollowEvidence` and `DecisionsFollowEvidence` are
  inductive together with what the threads in flight have read: `CallsFollow` says
  that a finding, cluster or investigation read in the current run is the stored
  one's, `InvestigationsFollow` and `InterventionsFollow` that a row whose `basis`
  is the current run follows from what that run's tables hold (`Follows`). A second
  detection of a run may only add clusters, of live patterns (`DetectedAgain`,
  from `ClustersGrow`). A row that was
  read in an earlier run is exempt, and that exemption is where
  `intervention_stale` finds its violation.
- `MeasurementsMatchTrails`: the measurement is written in the transaction that
  appends the verification, and a rollback is open only after a harmful one.
- `MerchantApprovesCurrent`: what requires approval is not executed without the
  merchant, for interventions and investigations of the current run.
  `DecisionInTrail` carries the decision from the row to the trail: what a trail's
  `policy_evaluated` event says is the row's own decision, and `DecisionsFollowEvidence`
  says when that may be to execute without the merchant.
- `MerchantApprovesInFirstRun` and `MerchantApprovesWhenRunsWait` are about
  `MerchantApprovedWhenRequired`, the property that `intervention_stale` shows false,
  and say how much of it is true: it holds until a new run is created, and in every
  run if a new one is created only when no thread is between reading evidence
  and storing what it made of it (`RunsWaitForReaders`). Then everything read,
  investigated and decided is of the current run (`AllCurrent`). The code has no such
  lock; the theorem is what one would buy.
- `Implements`: `Spec => KeepsPromise`, the refinement of `ControlledChange`. The
  mapping reads cleared, refused, applied, ... off the trails; an event appended to a
  trail adds its finding to the one set it stands for (`EventKinds`, `Adds`). That
  the guard of the abstract step holds is the invariant `AllStand`: the status of
  a row says which of the sets its finding is in and which not yet. A new run
  is `Renew`, every other step that appends nothing a stutter.
- `TrailsOnlyGrow`: no event may follow a final status, and only a new run forgets.

`CustomerRecovery_proofs`, for any threads, runs and messages and up to the three
recipients the program allows (`RecoveryAssumption`):

- `TypeCorrect`, `FirstContactIsAlwaysApproved`, `RetryAlwaysFollowsFailure` and
  `TrackedMessagesAreReal` follow from one invariant, `Kept`: `TypeOK`, and
  everything a row or a thread holds about a message (that it was accepted, that
  it failed) is backed by what Twilio has said. Because what Twilio has said only
  grows, a value that was read and is used much later is still backed.
  `TrackedMessagesAreReal` adds `Real`, for every run: a message id that a row holds,
  or a thread is about to record, is that of one that is no follow-up, and a row
  shown as sent or opened holds one. That a message carries the row's own link, and that one shown as
  followed up has a tracked message, is for the first run (`FirstRun`): in a later
  one a request of an earlier run may write to a row it never read.
- `FirstRunSendsAfterApproval` and `FirstRunBatchIsAttempted`: in the first run
  (`FirstRun`) a thread that sends has stored the approval, and what it has gone
  past was attempted. In later runs that is false, see section 7.
- `NothingSentWhenRunsWait`: it is true in every run if a new one is created only
  when no approval and no retry is under way (`RunsWaitForSenders`). Drafts and
  follow-ups may outlive their run: what they write is a link of the run they
  began in. `Waited` bounds the run of every link that is stored, carried or sent,
  and says that a link of the current run was sent or recorded for an approved
  batch only. Waiting for approvals alone is not enough; TLC finds the retry.
- `SentIsAttemptedWhenRunsWait`: the other property of a batch needs approvals alone to
  be waited for, but to their very last step (`RunsWaitForApprovals`): the one that
  marks the batch as sent does not look at the recipients (`AllAttempted`).

`PolicyGate_proofs` is about operators: each theorem takes any case, action,
policy, budget and instant of the right shape, not the instance's.

- `RetryIsTheEndOfQuiet`: a retry is the first instant that is not quiet, on either
  side of midnight and in any timezone. `QuietWalk` is the arithmetic: walking
  from the start of the quiet hours to their end meets a local time exactly when
  the code's comparison says it is quiet.
- `DeferralIsAlwaysTight`, `DiscountsAreMonotone`, `SeededPlanIsAlwaysAccepted` (from
  the plan terms `policy.yaml` gives, or easier ones); `QuietHoursAlwaysEndRight`
  applies the first two to every state of `MCPolicyGate`.
- `GateAlwaysAgreesWithLedger` and `GateAndLedgerAgree`: whatever the ledger holds, and
  so in every state of `MCPolicyGate`, an offer the gate finds covered by the budget
  is one the ledger would reserve. `Agreeing` is the invariant: the
  ledger is typed, and the action's own reservation, if it has one, is of its own
  case and of the amount the gate asks for.
- `ReservationsAlwaysFit`, an action property that no run repeats: no reservation takes the sum of all
  above the cap, even after a restart has lowered the cap below what is reserved. The
  sum after a reservation is the sum before it and the amount (`SumFunctionChange`).

`Sums` holds what these, and the payments below, need about sums. Neither an induction
over data nor a recursive operator is within the prover's reach. So the sum of what a
function holds (`SumFunction`, over a finite set) and the sum of a sequence's terms
(the last of its running totals, `IsTotal`) are each unfolded as a recursive
function, and a fact about all of them is proved by contradiction from the least
subset or index at which it fails.

`RecoveryCase_proofs`, from `CaseAssumption` (finitely many threads; a policy,
a profile and proposals of the right shape):

- `TypeCorrect`: a paid row has recovered what was due and a partly paid one less.
  A thread saves whole rows it read long ago, so this needs `Sound`: the row every
  thread holds is itself sound, and it holds an action that was proposed.
- `LedgerNamesWhatRanAlways`: `LedgerOK` adds what a thread that is about to append
  *executed* knows of the ledger (`Knows`).
- `ExecutionsAreAlwaysCleared`: two requests may share an action's name and both
  run it, so no thread owns a clearance. The invariant counts (`ClearedOK`): for each
  name, executions in the trail and threads about to add one are no more than
  the clearances in the trail.
- `ActionRunsOnceAlone` and `ObjectionNeedsHumanAlone` assume one thread, as section 7
  explains, and the latter a policy that escalates disputes and opt-outs, as
  `policy.yaml` does. `ObjectionOK` follows an objection from the trail to the row
  the thread holds and the row that is stored, through crashes that cut the two apart.
- `MoneyIsInTheCaseAlone`, with one thread, any amounts, crashes and resets:
  `MoneyOK` says that the thread works with the row that is stored (`Carries`), and
  that what the trail shows and what is on its way to it the row holds already.
  `Total` is `PaidInTrail` of any sequence of events.
- `PaidIsNotContactedAlone` says how much is true of `PaidIsNotContacted`, which
  `recovery_case_paid` shows false: with one thread, and when no reply to a paid
  case is begun (`PaidIsNotAnswered`), nothing is executed after the payment that
  settles the case. `PaidOK` is that a settled trail has a paid row, and that a thread
  does nothing with a paid row but note that it has been paid.

The many actions of a case differ in little that these invariants see; the proofs
first map each to one of a few kinds (`Proceeds`, `SavesIdly`, `Clears`, ...) and
then argue once per kind.

`Copilot_proofs`, from `CopilotAssumption`:

- `PanelIsAlwaysTheirs`: questions are numbered, so an answer finds the dashboard that
  asked; and a dashboard that waits has not changed hands. `Theirs` says so of
  sessions, stored messages, requests in flight and panels together.
- `ShownIsAlwaysRemembered`: `Backing` is that stored questions precede their answers,
  that a request which has stored its answer in this run finds it there, and
  that a panel shows only such answers.

**Model-checked only**: the liveness properties `EveryRunIsDetected`,
`UnfinishedIsFollowedUp` and `AskedIsAnswered`, which need fairness and `ENABLED`, beyond
this prover. Every other property of a run that passes is stated by a theorem.

## 6. Where the code and its documentation disagree

Each is a run that expects a violation, and a finding in `PROJECT.json`.

- `intervention_stale`. "Customer-facing recovery and payment-flow actions
  require explicit merchant approval" (`src/README.md:252`).
  `request_intervention` decides on an investigation it read earlier
  (`revenue_sre/intervention.py:92`); across a new run, the row is inserted as
  approved for an investigation that requires approval.
- `recovery_follow_ups`. "one five-minute Gemini follow-up" (`src/README.md:135`):
  two polls both read the row as due before either marks it.
- `delivery_repeated`. "Once the provider accepted an email for this alert, never
  send another one merely because the dashboard was refreshed or a user clicked
  again" (`revenue_sre/live_email.py:54`): the accepted attempt is looked for
  before the provider is called and recorded after, and the key the provider
  deduplicates by contains the text, which Gemini writes anew at every click.
- `recovery_case_paid`. "Already paid; keep visible only for audit and history"
  (`portfolio.py:50`): any reply gives a paid case another status,
  and the next run contacts the customer.

What it takes: `intervention_stale` needs a new run in the middle of a request;
with one thread TLC finds no violation, and `MerchantApprovesWhenRunsWait` is the
condition that excludes it. `recovery_case_paid` needs a reply to a paid
case (`PaidIsNotContactedAlone`). The other two do not even need requests that overlap:
with one thread, an accepted message whose answer is lost leaves no record, and the
next click, or the next poll, sends another; and a retry makes the row due again after
its follow-up.

## 7. Behaviour of the code that no property forbids

The models have these behaviours. A property that excluded them would simply be
false, so there is none.

- A second click on *approve* that read the batch before it became sent sends all
  drafts again (`customer_recovery.py:165`).
- A payment that arrives while a follow-up or retry for the same row is under way
  is overwritten by the later UPDATE (`customer_recovery.py:264`, `:333`).
- An approval or a retry that began in the previous run marks an undrafted row of
  the new batch as sent, since recipient ids are the same in every run, and the
  monitor then follows it up before anybody approved (`customer_recovery.py:184`,
  `:333`, against the sentence of `src/README.md:252`). That nothing is sent before
  the approval is checked within one run (`recovery_batch`), and proved for every run
  that waits for such requests (`NothingSentWhenRunsWait`). The last step of an old
  approval likewise marks the new batch as sent with nobody tried
  (`SentIsAttemptedWhenRunsWait`).
- A follow-up that a poll of the previous run began, with the previous run's link,
  is recorded in the new run's row, whose customer then gets none with the new link
  (`customer_recovery.py:264`).
- A batch may be inserted for a merchant's own incident, when a new run and its
  investigation come between the scope check and the insert
  (`customer_recovery.py:96`).
- Two concurrent requests that hold the same action id both do the action: the
  ledger answers *replay* only once the row is `succeeded`
  (`executors/simulator.py:76`). That an action runs once is checked, and proved,
  for one request at a time.
- The strategy attempt is counted before the gate compares it with the limit
  (`policy/engine.py:191`): with a limit of 2, the second attempt escalates, also
  when the first was merely deferred by quiet hours.
- A save and its audit event are two transactions, so after a crash the row may
  be ahead of the trail; the properties on money and objections allow for that
  direction and exclude the other.

- Every click on *send WhatsApp* sends the alert again: Twilio is called before
  the transaction that looks for an earlier attempt (`live_whatsapp.py:336`).
- The investigation endpoint drafts and sends the urgent email of a critical
  checkout finding by itself (`api.py:391-425`), though
  `prepare_critical_engineering_email` says that a merchant owner must still
  review and confirm the draft (`notifications.py:169-170`).
- Investigating again deletes the replies from the agent trace
  (`investigation.py:227`); the inbound events stay.
- A reply is attached to the alert last sent, whatever it answers
  (`live_whatsapp.py:144`).
- An alert is announced as waiting for approval when the approval comes between
  the read and the insert (`notifications.py:139`). With a cooldown of zero an alert
  whose instant precedes a stored one is suppressed (`notifications.py:298`).
- An edited subject takes an alert out of the cooldown, which compares subjects
  (`notifications.py:293`); `CooldownHolds` leaves such alerts out, for good: a
  second email with the old subject brings the alert back into the comparison, next
  to alerts dispatched meanwhile.

- The answer to a question begun before a new run is stored in the new run's
  conversation, though it speaks of the old run's evidence (`revenue_sre/copilot.py:384`).
- When an answer of Gemini's could not be stored, the dashboard shows it without
  the note that says so: it drops the server's warning when the model was used.
- A dashboard whose session has expired shows an error and no *Sign out* button
  (`src/dashboard/streamlit_app.py:1308`); only a reload helps. `sign_out` leaves the
  result of the last urgent email in the session state for the next merchant.
- `create_new_synthetic_run` reads the scenario before the transaction that seeds,
  and writes the next one after it: two such requests may draw the same scenario.
- Every start writes the constant baselines over those the current run has drawn
  (`revenue_sre/repository.py:45`).
- `reserve` has no caller, so the discounts approved for several cases are never
  summed (`db/repositories.py:476`). The model has it as an operation of the ledger
  beside the gate, not as a step of a case. Had it a caller, an action evaluated again
  after its reservation would find its own discount missing from the budget.

## 8. Abstractions

- Wording, amounts of affected revenue, confidence, agent steps, provider
  payloads and the hash chain of the audit trail are left out.
- The detector's statistics are any set of flagged findings; what Gemini or the
  seeded agent proposes is any member of `Proposals`; a measurement's outcome is
  any of the three the hidden script may hold.
- A discount that is no percentage (`invalid_discount`) is a negative one in
  `PolicyGate`; no agent of the program proposes such a discount.
- Daylight saving is left out (a timezone is an offset), and all malformed
  payment plans are one value, `NoPlan`.
- `SimClock.advance` reads and sets in two steps within one thread; two
  concurrent advances are taken as one after the other.
- `last_contact` is never set and no budget is ever reserved by the program; the
  case model therefore has constants there, and `MCPolicyGate` varies them.
- Delivery: email and WhatsApp settings come and go together; an attempt made with
  no recipient configured shares its row with later ones of the same text; replies
  come from the test recipient; minimum severities of contacts, which dispatch does
  not read, SMS, for which there is no rule, and contacts of the other teams are left out.
  Updating a seeded contact commits, though the answer then fails
  (`notifications.py:119` looks for an id the row does not have).
- Payment ids are left out: two payments are two payments.
- Copilot: what an answer says, and from what; a message is the question's number,
  the merchant whose facts it was made from and who speaks. Passwords, and the
  operator's role, are left out; users are fixed when the server has started.
- Budget: `spent_paise` and a reservation's status never change after the insert.
- The loop over due follow-ups takes rows in any order (the query has no
  ORDER BY); the loops over drafts are in order of `customer_label`.

## 9. What is not modelled

- The external inbox (`integrations/razorpay_webhooks.py`): a webhook is one atomic
  `INSERT OR IGNORE` keyed by the delivery's id or the hash of its body, nothing
  processes the row and `mark_processed` has no caller. A second delivery
  cannot do anything: there is no second step a failure could come before.
- The Razorpay gateway (`integrations/razorpay_gateway.py`) is one HTTP call nothing
  in the program makes.
- The portfolio classification, and the summaries of the live payment monitor,
  compute what they show from rows others write; the catalog, settings and scripts
  are constants or read-only.
- The scenario state of a demo run and the baselines, which are data of the
  detector's statistics; these are any set of flagged findings.
- The dashboard's panels that only draw what the server answers. Its session
  state, errors and copilot are in `Accounts` and `Copilot`, its poll is a
  fairness assumption.
- The schema and the connection: SQLite is the atomicity of the models' steps,
  its keys and cascades are in the actions that meet them.

## 10. Plan

Done, in this order: the Revenue SRE chain and its refinement, customer recovery,
the policy gate, the recovery case, alert delivery, the budget ledger, accounts
and copilot; the proofs of section 5.

Left: the portfolio's labels against the statuses the case model reaches, and
what the email checks promise when no answer is lost.
