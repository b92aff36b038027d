---------------------------- MODULE RecoveryCase ----------------------------
(***************************************************************************)
(* One case of the recovery demo: its row, its audit events, its actions   *)
(* in the ledger, and the simulation clock.  A worker thread carries the   *)
(* row it has read from node to node; every save is a blind upsert of that *)
(* row and the audit event of a step is appended in a transaction of its   *)
(* own.  Other cases matter only in that the portfolio is seeded when it   *)
(* is empty.                                                               *)
(***************************************************************************)
EXTENDS PolicyGate, Sequences, FiniteSets

CONSTANTS
    Handler,       \* worker threads of the server
    Policy,        \* config/policy.yaml
    Profile,       \* what never changes of the case: amount due, contacts, zone
    Proposals,     \* what the agents may propose: action type and discount
    Budget,        \* batch discount budget; nothing reserves any of it
    DemoStart,     \* the clock's first instant
    Hours,         \* by how much the clock is advanced
    PromiseAt,     \* the instant a customer promises to pay at
    MaxClock,      \* bound on the clock
    MaxRequests,   \* bound on the requests of one behaviour
    MaxResets      \* bound on the resets among them

ASSUME CaseAssumption ==
    /\ IsFiniteSet(Handler)
    /\ DemoStart \in Nat /\ PromiseAt \in Nat /\ Hours \subseteq Nat \ {0}
    /\ Proposals \subseteq [type : ActionType, discount : 0..100]
    /\ Profile.due \in Nat \ {0} /\ Profile.zone \in Int
    /\ Policy.quietHours \in [start : 0..DayLength - 1, end : 0..DayLength - 1]
    /\ MaxRequests \in Nat

VARIABLES
    clocks,    \* SimClock objects of this process, the current one last
    case,      \* the row of cases, or NoCase
    others,    \* some other case is stored
    trail,     \* the case's audit events
    ledger,    \* action_executions of the case
    epoch,     \* how often the tables have been emptied
    requests,  \* how many requests have begun
    call       \* what each worker thread is doing

vars == <<clocks, case, others, trail, ledger, epoch, requests, call>>

Status == {"detected", "diagnosed", "action_proposed", "action_gated", "awaiting_payment",
           "awaiting_response", "ptp_recorded", "partially_paid", "awaiting_human", "paid",
           "stopped"}

NoCase == [status |-> "absent"]

SeedRow == [status |-> "detected", recovered |-> 0, attempts |-> 0, llmCalls |-> 0,
            transitions |-> 0, dispute |-> FALSE, optOut |-> FALSE, wake |-> Never]

ActionId == 1..MaxRequests
NoEntry == [type |-> "none", status |-> "absent"]
NoAction == [id |-> 0, type |-> "none", discount |-> 0, plan |-> NoPlan]

\* An audit event; epoch is that of the request that appends it.
Event(type) == [type |-> type, from |-> "absent", to |-> "absent", action |-> NoAction,
                outcome |-> "none", amount |-> 0, epoch |-> 0]

Idle == [op |-> "idle"]
Clock == clocks[Len(clocks)]
SetClock(now) == [clocks EXCEPT ![Len(clocks)] = now]

\* at: for a run, the SimClock it works with; for an advance, the instant it
\* came to.
Begin(h, op, at) ==
    /\ call[h] = Idle
    /\ requests < MaxRequests
    /\ requests' = requests + 1
    /\ call' = [call EXCEPT ![h] = [op |-> op, row |-> case, action |-> NoAction,
                                    at |-> at, epoch |-> epoch]]

Continue(h, op) == call' = [call EXCEPT ![h].op = op]
Return(h) == call' = [call EXCEPT ![h] = Idle]

\* The row is saved; the next step appends the event and goes on.
Save(h, row, action, event, next) ==
    /\ case' = row
    /\ call' = [call EXCEPT ![h] =
           [op |-> "append", row |-> row, action |-> action, at |-> call[h].at,
            epoch |-> call[h].epoch, next |-> next,
            event |-> [event EXCEPT !.from = call[h].row.status, !.to = row.status,
                                    !.action = action, !.epoch = call[h].epoch]]]

Step(row) == [row EXCEPT !.transitions = @ + 1]
Rest == <<clocks, others, trail, ledger, epoch, requests>>

AppendEvent(h) ==
    /\ call[h].op = "append"
    /\ trail' = Append(trail, call[h].event)
    /\ call' = [call EXCEPT ![h] =
           IF call[h].next = "done" THEN Idle
           ELSE [op |-> call[h].next, row |-> call[h].row, action |-> call[h].action,
                 at |-> call[h].at, epoch |-> call[h].epoch]]
    /\ UNCHANGED <<clocks, case, others, ledger, epoch, requests>>

-----------------------------------------------------------------------------
Init ==
    /\ clocks = <<DemoStart>>
    /\ case = SeedRow
    /\ others = TRUE
    /\ trail = <<[Event("case_detected") EXCEPT !.to = SeedRow.status]>>
    /\ ledger = [id \in ActionId |-> NoEntry]
    /\ epoch = 0
    /\ requests = 0
    /\ call = [h \in Handler |-> Idle]

\* run_case: the row that is read is handed to the graph.
StartRun(h) ==
    /\ case # NoCase
    /\ case.status # "paid"
    /\ Begin(h, "diagnose", Len(clocks))
    /\ UNCHANGED <<clocks, case, others, trail, ledger, epoch>>

\* Gemini fails, or its answer does not validate; the seeded agent finds no
\* plan for the balance.
AgentFails(h) ==
    /\ call[h].op \in {"diagnose", "strategize", "interpret"}
    /\ Return(h)
    /\ UNCHANGED <<clocks, case, others, trail, ledger, epoch, requests>>

Diagnose(h) ==
    /\ call[h].op = "diagnose"
    /\ LET row == Step(call[h].row)
       IN  Save(h, [row EXCEPT !.status = "diagnosed", !.llmCalls = @ + 1], NoAction,
                Event("diagnosis_completed"), "strategize")
    /\ UNCHANGED Rest

\* Only the seeded agent's proposals carry a plan, for fixed dates; Gemini's
\* payment plans come without one.
Plans(row, type) ==
    IF type # "offer_payment_plan" THEN {NoPlan}
    ELSE {NoPlan, SeededPlan(Profile.due - row.recovered, DemoStart + 28 * DayLength)}

\* The agents name an action after the number of the attempt.
Strategize(h, proposal) ==
    /\ call[h].op = "strategize"
    /\ LET row == Step(call[h].row)
       IN  \E plan \in Plans(row, proposal.type) :
               Save(h, [row EXCEPT !.status = "action_proposed", !.attempts = @ + 1,
                                   !.llmCalls = @ + 1],
                    [id |-> row.attempts + 1, type |-> proposal.type,
                     discount |-> proposal.discount, plan |-> plan],
                    Event("action_proposed"), "gate")
    /\ UNCHANGED Rest

GateInput(row) ==
    [status |-> row.status, dispute |-> row.dispute, optOut |-> row.optOut,
     attempts |-> row.attempts, llmCalls |-> row.llmCalls, transitions |-> row.transitions,
     contacts |-> Profile.contacts, lastContact |-> Never, zone |-> Profile.zone,
     due |-> Profile.due, recovered |-> row.recovered]

GatedStatus == [approved |-> "action_gated", escalate |-> "awaiting_human",
                deferred |-> "awaiting_response", rejected |-> "stopped"]

\* Mutant of RouteAfterGate: an action that needs a person is executed, too.
RouteUnlessRejected(decision) ==
    IF decision \in {"approved", "escalate"} THEN "execute" ELSE "done"

RouteAfterGate(decision) == IF decision = "approved" THEN "execute" ELSE "done"

\* The run keeps the SimClock it began with; a reset replaces the object.
Gate(h) ==
    /\ call[h].op = "gate"
    /\ LET result == Evaluate(call[h].action, GateInput(call[h].row), Budget,
                              clocks[call[h].at], Policy)
           row == Step(call[h].row)
       IN  Save(h, [row EXCEPT !.status = GatedStatus[result.decision],
                               !.wake = IF result.decision = "deferred" THEN result.retryAt
                                        ELSE @],
                call[h].action,
                [Event("policy_evaluated") EXCEPT !.outcome = result.decision],
                RouteAfterGate(result.decision))
    /\ UNCHANGED Rest

-----------------------------------------------------------------------------
\* The executor: register in the ledger, do it, mark it, save the case.

\* Mutants of Register: an id is taken for whatever is proposed under it; what
\* has succeeded is done again.
RegisterAnyType(h) ==
    /\ call[h].op = "execute"
    /\ LET action == call[h].action
           entry == ledger[action.id]
       IN  /\ ledger' = IF entry # NoEntry THEN ledger
                        ELSE [ledger EXCEPT ![action.id] =
                                 [type |-> action.type, status |-> "pending"]]
           /\ Continue(h, IF entry.status = "succeeded" THEN "replay" ELSE "mark")
    /\ UNCHANGED <<clocks, case, others, trail, epoch, requests>>

RegisterAgain(h) ==
    /\ call[h].op = "execute"
    /\ LET action == call[h].action
           entry == ledger[action.id]
       IN  /\ ledger' = IF entry # NoEntry THEN ledger
                        ELSE [ledger EXCEPT ![action.id] =
                                 [type |-> action.type, status |-> "pending"]]
           /\ IF entry # NoEntry /\ entry.type # action.type THEN Return(h)
              ELSE Continue(h, "mark")
    /\ UNCHANGED <<clocks, case, others, trail, epoch, requests>>

Register(h) ==
    /\ call[h].op = "execute"
    /\ LET action == call[h].action
           entry == ledger[action.id]
       IN  /\ ledger' = IF entry # NoEntry THEN ledger
                        ELSE [ledger EXCEPT ![action.id] =
                                 [type |-> action.type, status |-> "pending"]]
           /\ IF entry # NoEntry /\ entry.type # action.type THEN Return(h)
              ELSE Continue(h, IF entry.status = "succeeded" THEN "replay" ELSE "mark")
    /\ UNCHANGED <<clocks, case, others, trail, epoch, requests>>

\* The ledger's row may be gone after a reset: a KeyError ends the request.
MarkResult(h) ==
    /\ call[h].op = "mark"
    /\ IF ledger[call[h].action.id] = NoEntry
       THEN Return(h) /\ UNCHANGED ledger
       ELSE /\ ledger' = [ledger EXCEPT ![call[h].action.id].status = "succeeded"]
            /\ Continue(h, "executed")
    /\ UNCHANGED <<clocks, case, others, trail, epoch, requests>>

ExecutedStatus(type) ==
    CASE type = "stop" -> "stopped"
      [] type = "escalate" -> "awaiting_human"
      [] type \in {"send_payment_link", "offer_discount_link"} -> "awaiting_payment"
      [] OTHER -> "awaiting_response"

SaveExecuted(h) ==
    /\ call[h].op \in {"executed", "replay"}
    /\ LET row == Step(call[h].row)
       IN  Save(h, IF call[h].op = "replay" THEN row
                   ELSE [row EXCEPT !.status = ExecutedStatus(call[h].action.type)],
                call[h].action,
                [Event("action_executed") EXCEPT !.outcome = call[h].op], "done")
    /\ UNCHANGED Rest

-----------------------------------------------------------------------------
\* interpret_reply

StartReply(h) ==
    /\ case # NoCase
    /\ Begin(h, "interpret", 0)
    /\ UNCHANGED <<clocks, case, others, trail, ledger, epoch>>

Intent == {"opt_out", "dispute", "wrong_person", "already_paid", "needs_callback", "replan",
           "promise", "unclear"}

\* replan: cannot_pay, needs_plan and technical_issue; promise: any other
\* intent with a date.  A callback may name a date, too.
Reply(row, intent, callback) ==
    CASE intent = "opt_out" -> [row EXCEPT !.status = "stopped", !.optOut = TRUE]
      [] intent = "dispute" -> [row EXCEPT !.status = "awaiting_human", !.dispute = TRUE]
      [] intent = "wrong_person" -> [row EXCEPT !.status = "stopped"]
      [] intent = "already_paid" -> [row EXCEPT !.status = "awaiting_human"]
      [] intent = "needs_callback" ->
             [row EXCEPT !.status = "awaiting_response", !.wake = callback]
      [] intent = "replan" -> [row EXCEPT !.status = "detected", !.wake = Never]
      [] intent = "promise" -> [row EXCEPT !.status = "ptp_recorded", !.wake = PromiseAt]
      [] OTHER -> [row EXCEPT !.status = "awaiting_response"]

InterpretReply(h, intent, callback) ==
    /\ call[h].op = "interpret"
    /\ LET row == Step(call[h].row)
       IN  Save(h, Reply([row EXCEPT !.llmCalls = @ + 1], intent, callback), NoAction,
                [Event("reply_interpreted") EXCEPT !.outcome = intent], "done")
    /\ UNCHANGED Rest

-----------------------------------------------------------------------------
\* apply_payment

StartPayment(h) ==
    /\ case # NoCase
    /\ case.recovered < Profile.due
    /\ Begin(h, "pay", 0)
    /\ UNCHANGED <<clocks, case, others, trail, ledger, epoch>>

\* Mutants of ApplyPayment: paid is told from this payment alone; the trail is
\* given the total.
ApplyPaymentAlone(h, amount) ==
    /\ call[h].op = "pay"
    /\ amount \in 1..Profile.due - call[h].row.recovered
    /\ LET row == Step(call[h].row)
       IN  Save(h, [row EXCEPT !.recovered = @ + amount,
                               !.status = IF amount = Profile.due THEN "paid"
                                          ELSE "partially_paid"],
                NoAction, [Event("payment_captured") EXCEPT !.amount = amount], "done")
    /\ UNCHANGED Rest

ApplyPaymentTotal(h, amount) ==
    /\ call[h].op = "pay"
    /\ amount \in 1..Profile.due - call[h].row.recovered
    /\ LET row == Step(call[h].row)
           recovered == row.recovered + amount
       IN  Save(h, [row EXCEPT !.recovered = recovered,
                               !.status = IF recovered = Profile.due THEN "paid"
                                          ELSE "partially_paid"],
                NoAction, [Event("payment_captured") EXCEPT !.amount = recovered], "done")
    /\ UNCHANGED Rest

ApplyPayment(h, amount) ==
    /\ call[h].op = "pay"
    /\ amount \in 1..Profile.due - call[h].row.recovered
    /\ LET row == Step(call[h].row)
           recovered == row.recovered + amount
       IN  Save(h, [row EXCEPT !.recovered = recovered,
                               !.status = IF recovered = Profile.due THEN "paid"
                                          ELSE "partially_paid"],
                NoAction, [Event("payment_captured") EXCEPT !.amount = amount], "done")
    /\ UNCHANGED Rest

-----------------------------------------------------------------------------
\* human_review: the row, then the last proposal in the trail.

StartReview(h) ==
    /\ case # NoCase
    /\ case.status = "awaiting_human"
    /\ Begin(h, "review", 0)
    /\ UNCHANGED <<clocks, case, others, trail, ledger, epoch>>

Proposed == {i \in 1..Len(trail) : trail[i].type = "action_proposed"}
LastProposal == CHOOSE i \in Proposed : \A j \in Proposed : j <= i

ReadProposal(h) ==
    /\ call[h].op = "review"
    /\ call' = [call EXCEPT ![h] =
           IF Proposed = {} THEN Idle
           ELSE [call[h] EXCEPT !.op = "decide", !.action = trail[LastProposal].action]]
    /\ UNCHANGED <<clocks, case, others, trail, ledger, epoch, requests>>

Decide(h, approve) ==
    /\ call[h].op = "decide"
    /\ LET row == Step(call[h].row)
       IN  Save(h, [row EXCEPT !.status = IF approve THEN "action_gated" ELSE "stopped"],
                call[h].action,
                [Event("human_review_decided") EXCEPT
                    !.outcome = IF approve THEN "approved" ELSE "denied"],
                IF approve THEN "execute" ELSE "done")
    /\ UNCHANGED Rest

-----------------------------------------------------------------------------
\* advance_time: the clock moves, then the cases that are due are replanned.

AdvanceTime(h, hours) ==
    /\ Clock + hours <= MaxClock
    /\ Begin(h, "list", Clock + hours)
    /\ clocks' = SetClock(Clock + hours)
    /\ UNCHANGED <<case, others, trail, ledger, epoch>>

IsDue(row, now) ==
    /\ row # NoCase
    /\ row.wake # Never /\ row.wake <= now
    /\ \/ row.status = "awaiting_response"
       \/ row.status = "ptp_recorded" /\ row.recovered < Profile.due

ListCases(h) ==
    /\ call[h].op = "list"
    /\ call' = [call EXCEPT ![h] = IF IsDue(case, call[h].at) THEN [@ EXCEPT !.op = "wake", !.row = case]
                                   ELSE Idle]
    /\ UNCHANGED <<clocks, case, others, trail, ledger, epoch, requests>>

WakeCase(h) ==
    /\ call[h].op = "wake"
    /\ LET row == Step(call[h].row)
       IN  Save(h, [row EXCEPT !.status = "detected", !.wake = Never], NoAction,
                [Event("woken") EXCEPT !.outcome =
                    IF row.status = "ptp_recorded" THEN "promise_missed"
                    ELSE "scheduled_followup_due"], "done")
    /\ UNCHANGED Rest

-----------------------------------------------------------------------------
\* reset and seed_portfolio

StartReset(h) ==
    /\ epoch < MaxResets
    /\ Begin(h, "delete", 0)
    /\ clocks' = Append(clocks, DemoStart)
    /\ UNCHANGED <<case, others, trail, ledger, epoch>>

DeleteAll(h) ==
    /\ call[h].op = "delete"
    /\ epoch' = epoch + 1
    /\ case' = NoCase
    /\ others' = FALSE
    /\ trail' = <<>>
    /\ ledger' = [id \in ActionId |-> NoEntry]
    /\ call' = [call EXCEPT ![h] = [@ EXCEPT !.op = "seed", !.row = NoCase,
                                             !.epoch = epoch + 1]]
    /\ UNCHANGED <<clocks, requests>>

\* What a request has saved since is an existing portfolio: nothing is seeded.
SeedPortfolio(h) ==
    /\ call[h].op = "seed"
    /\ IF case # NoCase \/ others THEN Return(h) ELSE Continue(h, "seed_case")
    /\ UNCHANGED <<clocks, case, others, trail, ledger, epoch, requests>>

SeedCase(h) ==
    /\ call[h].op = "seed_case"
    /\ Save(h, SeedRow, NoAction, Event("case_detected"), "done")
    /\ UNCHANGED Rest

\* Another case is saved, by the same reset or by a request of its own.
SaveOther ==
    /\ ~others
    /\ others' = TRUE
    /\ UNCHANGED <<clocks, case, trail, ledger, epoch, requests, call>>

\* The process dies and starts again, at the demo's first instant; an empty
\* database is seeded (a start cut short between save and append included).
Crash(logged) ==
    /\ call' = [h \in Handler |-> Idle]
    /\ clocks' = <<DemoStart>>
    /\ IF case = NoCase /\ ~others
       THEN /\ case' = SeedRow
            /\ trail' = IF logged
                        THEN Append(trail, [Event("case_detected") EXCEPT
                                               !.to = SeedRow.status, !.epoch = epoch])
                        ELSE trail
       ELSE UNCHANGED <<case, trail>>
    /\ others' = TRUE
    /\ UNCHANGED <<ledger, epoch, requests>>

-----------------------------------------------------------------------------
Run(h) ==
    \/ StartRun(h) \/ AgentFails(h) \/ Diagnose(h) \/ Gate(h)
    \/ \E proposal \in Proposals : Strategize(h, proposal)
    \/ Register(h) \/ MarkResult(h) \/ SaveExecuted(h)

Customer(h) ==
    \/ StartReply(h)
    \/ \E intent \in Intent, callback \in {Clock + DayLength, PromiseAt} :
           InterpretReply(h, intent, callback)
    \/ StartPayment(h)
    \/ \E amount \in 1..Profile.due : ApplyPayment(h, amount)

Operator(h) ==
    \/ StartReview(h) \/ ReadProposal(h)
    \/ \E approve \in BOOLEAN : Decide(h, approve)
    \/ \E hours \in Hours : AdvanceTime(h, hours)
    \/ ListCases(h) \/ WakeCase(h)
    \/ StartReset(h) \/ DeleteAll(h) \/ SeedPortfolio(h) \/ SeedCase(h)

Next ==
    \/ \E h \in Handler : Run(h) \/ Customer(h) \/ Operator(h) \/ AppendEvent(h)
    \/ SaveOther
    \/ \E logged \in BOOLEAN : Crash(logged)

Spec == Init /\ [][Next]_vars

-----------------------------------------------------------------------------
Row == [status : Status, recovered : 0..Profile.due, attempts : Nat, llmCalls : Nat,
        transitions : Nat, dispute : BOOLEAN, optOut : BOOLEAN, wake : Nat \cup {Never}]

\* A row's status and money agree, whoever saved it last: a paid case has its
\* whole amount, a partially paid one some of it.  The ledger holds only the
\* actions of the attempts there can have been.
TypeOK ==
    /\ clocks # <<>> /\ \A i \in 1..Len(clocks) : clocks[i] \in Nat
    /\ case \in Row \cup {NoCase}
    /\ case.status = "paid" => case.recovered = Profile.due
    /\ case.status = "partially_paid" => case.recovered \in 1..Profile.due - 1
    /\ others \in BOOLEAN
    /\ \A id \in ActionId : ledger[id] = NoEntry
           \/ ledger[id] \in [type : ActionType, status : {"pending", "succeeded"}]
    /\ \A i \in 1..Len(trail) : trail[i].to \in Status

Of(type) == {i \in 1..Len(trail) : trail[i].type = type}

\* Executions by requests that began after the tables were last emptied.
Executed == {i \in Of("action_executed") : trail[i].epoch = epoch}
Effects == {i \in Executed : trail[i].outcome = "executed"}

Clearances ==
    {i \in Of("policy_evaluated") \cup Of("human_review_decided") :
        trail[i].outcome = "approved"}

\* Every execution has a clearance of its own in the trail, by the gate or by
\* a person, however many requests interleave.
ExecutionsAreCleared ==
    \A i \in Executed :
        Cardinality({j \in Executed : j <= i /\ trail[j].action.id = trail[i].action.id}) <=
        Cardinality({j \in Clearances : j < i /\ trail[j].action.id = trail[i].action.id})

\* Concurrent runs name their actions alike; what the trail says was executed
\* is what the ledger holds under that name, and it is held as done.
LedgerNamesWhatRan ==
    \A i \in Executed : ledger[trail[i].action.id] =
        [type |-> trail[i].action.type, status |-> "succeeded"]

\* With one request at a time: an action has its effect once, however often a
\* person approves it again and wherever the process dies.
ActionRunsOnce ==
    \A i, j \in Effects : trail[i].action.id = trail[j].action.id => i = j

\* With one request at a time: the trail never shows money the case has not.
PaidInTrail[n \in 0..Len(trail)] ==
    IF n = 0 THEN 0 ELSE PaidInTrail[n - 1] + trail[n].amount

MoneyIsInTheCase ==
    case # NoCase => PaidInTrail[Len(trail)] <= case.recovered

\* With one request at a time: after an opt-out or a dispute, nothing happens
\* to the customer unless a person has approved it since.
ObjectionNeedsHuman ==
    \A i \in Effects, j \in Of("reply_interpreted") :
        (j < i /\ trail[j].outcome \in {"opt_out", "dispute"}) =>
            \E k \in Of("human_review_decided") :
                /\ j < k /\ k < i
                /\ trail[k].outcome = "approved"
                /\ trail[k].action.id = trail[i].action.id

\* portfolio.py: "Already paid; keep visible only for audit and history."
PaidIsNotContacted ==
    \A i \in Effects, j \in Of("payment_captured") :
        j < i /\ trail[j].to = "paid" => trail[i].action.type \notin ContactActions
=============================================================================
