-------------------------- MODULE CustomerRecovery --------------------------
(***************************************************************************)
(* Customer recovery for one merchant's finding: Gemini drafts, the one    *)
(* approval, the WhatsApp sends, link tracking, the five-minute follow-up  *)
(* and the retry of an undelivered message.  Every database transaction is *)
(* one step; between two of them a worker thread calls Gemini or Twilio    *)
(* with the rows it has read, while other requests, the customer's link    *)
(* and a new demo run go on.                                               *)
(*                                                                         *)
(* Batch and recipient ids are uuid5 of finding and phone number: a new    *)
(* run brings the same ids back.  Link tokens are random: a link is        *)
(* identified by the run it was issued in.                                 *)
(***************************************************************************)
EXTENDS Naturals, Sequences

CONSTANTS
    Recipients,   \* configured test phone numbers, at most MAX_TEST_RECIPIENTS
    Handler,      \* worker threads of the server
    MaxRuns,      \* bound on the demo runs of one behaviour
    MaxMessages   \* bound on the messages Twilio accepts for one recipient,
                  \* each run's first follow-up not counted

ASSUME RecoveryAssumption ==
    /\ Recipients \in 1..3
    /\ MaxRuns \in Nat \ {0}
    /\ MaxMessages \in Nat

VARIABLES
    run,            \* the number of the current demo run
    investigation,  \* the finding's stored investigation: absent or its scope
    batch,          \* status of the batch, or "absent"
    recipient,      \* rows of customer_recovery_recipients
    accepted,       \* messages Twilio has accepted, per phone number
    refused,        \* recipients an approval of this run reported as send errors
    call            \* what each worker thread is doing

vars == <<run, investigation, batch, recipient, accepted, refused, call>>

Recipient == 1..Recipients  \* by customer_label

Absent == "absent"
NoLink == 0
Link == 1..MaxRuns
Draft == Link \cup {NoLink}
Sid == Nat \ {0}

NoRow == [status |-> "absent", body |-> NoLink, link |-> NoLink, sid |-> 0, due |-> "none"]

\* `body` is the link the stored draft carries; `due` is follow_up_due_at
\* against the clock; `sid` is provider_message_id, 0 for NULL.
Row == [status : {"draft", "sent", "opened", "completed", "follow_up_sent"},
        body : Draft, link : Link, sid : Sid \cup {0},
        due : {"none", "pending", "due"}]

\* `failed`: Twilio reports the message failed or undelivered.
Message == [by : {"approval", "follow_up", "retry"}, link : Draft,
            failed : BOOLEAN]

Idle == [op |-> "idle"]

Call ==
    [op : {"idle", "prepare", "read_drafts", "finish"}] \cup
    [op : {"draft"}, todo : SUBSET Recipient, link : Link] \cup
    [op : {"approve", "send"}, todo : SUBSET Recipient,
     bodies : [Recipient -> Draft]] \cup
    [op : {"record_sent"}, todo : SUBSET Recipient,
     bodies : [Recipient -> Draft], to : Recipient, sid : Sid] \cup
    [op : {"follow_up"}, todo : SUBSET Recipient, link : Link] \cup
    [op : {"record_follow_up"}, todo : SUBSET Recipient, link : Link, to : Recipient] \cup
    [op : {"check"}, to : Recipient, body : Draft, sid : Sid] \cup
    [op : {"resend"}, to : Recipient, body : Draft] \cup
    [op : {"record_retry"}, to : Recipient, sid : Sid]

Begin(h, c) == call[h] = Idle /\ call' = [call EXCEPT ![h] = c]
Continue(h, c) == call' = [call EXCEPT ![h] = c]
Return(h) == call' = [call EXCEPT ![h] = Idle]

\* The rows of a batch are read, and worked through, ORDER BY customer_label.
First(todo) == CHOOSE r \in todo : \A q \in todo : r <= q

Provider == <<accepted, refused>>
Tables == <<investigation, batch, recipient>>

-----------------------------------------------------------------------------
Init ==
    /\ run = 1
    /\ investigation = Absent
    /\ batch = Absent
    /\ recipient = [r \in Recipient |-> NoRow]
    /\ accepted = [r \in Recipient |-> <<>>]
    /\ refused = {}
    /\ call = [h \in Handler |-> Idle]

\* seed_synthetic_data; what Twilio has sent and what is in flight stay.
NewRun ==
    /\ run < MaxRuns
    /\ run' = run + 1
    /\ investigation' = Absent
    /\ batch' = Absent
    /\ recipient' = [r \in Recipient |-> NoRow]
    /\ refused' = {}
    /\ UNCHANGED <<accepted, call>>

\* run_investigation (module Investigation): its scope is the evidence's.
Investigate(scope) ==
    /\ investigation = Absent
    /\ investigation' = scope
    /\ UNCHANGED <<run, batch, recipient, Provider, call>>

-----------------------------------------------------------------------------
\* prepare_batch

StartPrepare(h) ==
    /\ investigation = "network"
    /\ Begin(h, [op |-> "prepare"])
    /\ UNCHANGED <<run, Tables, Provider>>

\* The foreign keys of a new batch: finding and investigation are stored.
InsertBatch(h) ==
    /\ call[h] = [op |-> "prepare"]
    /\ IF batch # Absent
       THEN Continue(h, [op |-> "read_drafts"]) /\ UNCHANGED <<batch, recipient>>
       ELSE IF investigation = Absent
       THEN Return(h) /\ UNCHANGED <<batch, recipient>>
       ELSE /\ Continue(h, [op |-> "read_drafts"])
            /\ batch' = "draft"
            /\ recipient' = [r \in Recipient |->
                   [NoRow EXCEPT !.status = "draft", !.link = run]]
    /\ UNCHANGED <<run, investigation, Provider>>

ReadDrafts(h) ==
    /\ call[h] = [op |-> "read_drafts"]
    /\ LET todo == {r \in Recipient :
                       recipient[r] # NoRow /\ recipient[r].body = NoLink}
       IN  IF todo = {} THEN Return(h)
           ELSE Continue(h, [op |-> "draft", todo |-> todo, link |-> run])
    /\ UNCHANGED <<run, Tables, Provider>>

\* Mutant of UpdateRow: the row is written whether or not it is there.
UpdateOrInsertRow(r, row) == recipient' = [recipient EXCEPT ![r] = row]

\* An UPDATE by recipient_id touches nothing when the row is gone.
UpdateRow(r, row) ==
    recipient' = IF recipient[r] = NoRow THEN recipient
                 ELSE [recipient EXCEPT ![r] = row]

\* Gemini writes one draft and it is stored.
DraftMessage(h) ==
    /\ call[h].op = "draft"
    /\ LET r == First(call[h].todo)
       IN  /\ UpdateRow(r, [recipient[r] EXCEPT !.body = call[h].link])
           /\ IF call[h].todo = {r} THEN Return(h)
              ELSE Continue(h, [call[h] EXCEPT !.todo = @ \ {r}])
    /\ UNCHANGED <<run, investigation, batch, Provider>>

-----------------------------------------------------------------------------
\* Twilio.  A message is accepted with a sid or refused; an answer lost on the
\* way is not a URLError, so it ends the request, the message accepted or not.

Sent(r, by, link) ==
    {i \in 1..Len(accepted[r]) : accepted[r][i].by = by /\ accepted[r][i].link = link}

\* The bound never holds a run's first follow-up back.
Accept(r, by, link) ==
    /\ Len(accepted[r]) < MaxMessages \/ (by = "follow_up" /\ Sent(r, by, link) = {})
    /\ accepted' = [accepted EXCEPT ![r] =
           Append(@, [by |-> by, link |-> link, failed |-> FALSE])]

NextSid(r) == Len(accepted[r]) + 1

\* A message turns out undelivered.  A follow-up's delivery is never asked for:
\* no row tracks one (TrackedMessageIsReal).
ReportFailed(r, i) ==
    /\ accepted[r][i].by # "follow_up"
    /\ ~accepted[r][i].failed
    /\ accepted' = [accepted EXCEPT ![r][i].failed = TRUE]
    /\ UNCHANGED <<run, Tables, refused, call>>

\* _gemini_message or _public_link raises, or Twilio's answer is lost after
\* the message was refused: the request ends there.
RequestFails(h) ==
    /\ call[h].op \in {"draft", "send", "follow_up", "resend"}
    /\ Return(h)
    /\ UNCHANGED <<run, Tables, Provider>>

AnswerLost(h) ==
    /\ \/ call[h].op = "send" /\ LET r == First(call[h].todo)
                                 IN  Accept(r, "approval", call[h].bodies[r])
       \/ call[h].op = "follow_up" /\ \E r \in call[h].todo :
              Accept(r, "follow_up", call[h].link)
       \/ call[h].op = "resend" /\ Accept(call[h].to, "retry", call[h].body)
    /\ Return(h)
    /\ UNCHANGED <<run, Tables, refused>>

-----------------------------------------------------------------------------
\* approve_and_send_batch

\* batch_for_merchant; an approval of a sent batch is answered as a replay.
StartApproval(h) ==
    /\ batch \in {"draft", "approved"}
    /\ \A r \in Recipient : recipient[r].body # NoLink
    /\ Begin(h, [op |-> "approve", todo |-> Recipient,
                 bodies |-> [r \in Recipient |-> recipient[r].body]])
    /\ UNCHANGED <<run, Tables, Provider>>

\* Mutant of MarkApproved: the approval is recorded only with the last send.
MarkApprovedAtTheEnd(h) ==
    /\ call[h].op = "approve"
    /\ Continue(h, [call[h] EXCEPT !.op = "send"])
    /\ UNCHANGED <<run, Tables, Provider>>

MarkApproved(h) ==
    /\ call[h].op = "approve"
    /\ batch' = IF batch = Absent THEN Absent ELSE "approved"
    /\ Continue(h, [call[h] EXCEPT !.op = "send"])
    /\ UNCHANGED <<run, investigation, recipient, Provider>>

Remaining(h, r) ==
    IF call[h].todo = {r} THEN [op |-> "finish"]
    ELSE [op |-> "send", todo |-> call[h].todo \ {r}, bodies |-> call[h].bodies]

SendAccepted(h) ==
    /\ call[h].op = "send"
    /\ LET r == First(call[h].todo)
       IN  /\ Accept(r, "approval", call[h].bodies[r])
           /\ Continue(h, [op |-> "record_sent", todo |-> call[h].todo,
                           bodies |-> call[h].bodies, to |-> r, sid |-> NextSid(r)])
    /\ UNCHANGED <<run, Tables, refused>>

\* Mutant of SendRefused: the first refusal ends the loop.
SendRefusedStops(h) ==
    /\ call[h].op = "send"
    /\ refused' = refused \cup {First(call[h].todo)}
    /\ Continue(h, [op |-> "finish"])
    /\ UNCHANGED <<run, Tables, accepted>>

SendRefused(h) ==
    /\ call[h].op = "send"
    /\ LET r == First(call[h].todo)
       IN  /\ refused' = refused \cup {r}
           /\ Continue(h, Remaining(h, r))
    /\ UNCHANGED <<run, Tables, accepted>>

RecordSent(h) ==
    /\ call[h].op = "record_sent"
    /\ LET r == call[h].to
       IN  /\ UpdateRow(r, [recipient[r] EXCEPT !.status = "sent", !.sid = call[h].sid,
                                                !.due = "pending"])
           /\ Continue(h, Remaining(h, r))
    /\ UNCHANGED <<run, investigation, batch, Provider>>

FinishApproval(h) ==
    /\ call[h] = [op |-> "finish"]
    /\ batch' = IF batch = Absent THEN Absent ELSE "sent"
    /\ Return(h)
    /\ UNCHANGED <<run, investigation, recipient, Provider>>

-----------------------------------------------------------------------------
\* The customer's test page.  Its link is in the messages and in the draft the
\* merchant sees; a link of an earlier run finds no row.
KnownLink(r) ==
    /\ recipient[r] # NoRow
    /\ \/ recipient[r].body = recipient[r].link
       \/ \E i \in 1..Len(accepted[r]) : accepted[r][i].link = recipient[r].link

RecordLinkOpen(r) ==
    /\ KnownLink(r)
    /\ recipient[r].status = "sent"
    /\ recipient' = [recipient EXCEPT ![r].status = "opened"]
    /\ UNCHANGED <<run, investigation, batch, Provider, call>>

RecordPaymentComplete(r) ==
    /\ KnownLink(r)
    /\ recipient' = [recipient EXCEPT ![r].status = "completed"]
    /\ UNCHANGED <<run, investigation, batch, Provider, call>>

\* Five minutes pass.
FollowUpFallsDue(r) ==
    /\ recipient[r].due = "pending"
    /\ recipient' = [recipient EXCEPT ![r].due = "due"]
    /\ UNCHANGED <<run, investigation, batch, Provider, call>>

-----------------------------------------------------------------------------
\* run_follow_up_monitor, run by every poll of the merchant's dashboard

\* Mutants of Due: drafts are followed up as well; opened links are not.
DueWithDrafts(r) ==
    recipient[r].status \in {"draft", "sent", "opened"} /\ recipient[r].body # NoLink

DueUnopened(r) == recipient[r].status = "sent" /\ recipient[r].due = "due"

Due(r) == recipient[r].status \in {"sent", "opened"} /\ recipient[r].due = "due"

ReadDue(h) ==
    /\ \E r \in Recipient : Due(r)
    /\ Begin(h, [op |-> "follow_up", todo |-> {r \in Recipient : Due(r)}, link |-> run])
    /\ UNCHANGED <<run, Tables, Provider>>

NextFollowUp(h, r) ==
    IF call[h].todo = {r} THEN Idle
    ELSE [op |-> "follow_up", todo |-> call[h].todo \ {r}, link |-> call[h].link]

FollowUpAccepted(h, r) ==
    /\ call[h].op = "follow_up"
    /\ r \in call[h].todo
    /\ Accept(r, "follow_up", call[h].link)
    /\ Continue(h, [op |-> "record_follow_up", todo |-> call[h].todo,
                    link |-> call[h].link, to |-> r])
    /\ UNCHANGED <<run, Tables, refused>>

FollowUpRefused(h, r) ==
    /\ call[h].op = "follow_up"
    /\ r \in call[h].todo
    /\ Continue(h, NextFollowUp(h, r))
    /\ UNCHANGED <<run, Tables, Provider>>

\* Mutant of RecordFollowUp: the follow-up becomes the tracked message.
RecordFollowUpTracked(h) ==
    /\ call[h].op = "record_follow_up"
    /\ LET r == call[h].to
       IN  /\ UpdateRow(r, [recipient[r] EXCEPT !.status = "follow_up_sent",
                                                !.sid = Len(accepted[r])])
           /\ Continue(h, NextFollowUp(h, r))
    /\ UNCHANGED <<run, investigation, batch, Provider>>

RecordFollowUp(h) ==
    /\ call[h].op = "record_follow_up"
    /\ LET r == call[h].to
       IN  /\ UpdateRow(r, [recipient[r] EXCEPT !.status = "follow_up_sent"])
           /\ Continue(h, NextFollowUp(h, r))
    /\ UNCHANGED <<run, investigation, batch, Provider>>

-----------------------------------------------------------------------------
\* retry_undelivered_customer_message

StartRetry(h, r) ==
    /\ recipient[r].status # "completed"
    /\ recipient[r].sid # 0
    /\ Begin(h, [op |-> "check", to |-> r, body |-> recipient[r].body,
                 sid |-> recipient[r].sid])
    /\ UNCHANGED <<run, Tables, Provider>>

\* Mutant of CheckDelivery: a message still on its way is retried as well.
CheckUndelivered(h) ==
    /\ call[h].op = "check"
    /\ Continue(h, [op |-> "resend", to |-> call[h].to, body |-> call[h].body])
    /\ UNCHANGED <<run, Tables, Provider>>

\* Twilio is asked for the delivery state of the message that was read.
CheckDelivery(h) ==
    /\ call[h].op = "check"
    /\ LET c == call[h]
       IN  Continue(h, IF accepted[c.to][c.sid].failed
                       THEN [op |-> "resend", to |-> c.to, body |-> c.body]
                       ELSE Idle)
    /\ UNCHANGED <<run, Tables, Provider>>

RetryAccepted(h) ==
    /\ call[h].op = "resend"
    /\ LET r == call[h].to
       IN  /\ Accept(r, "retry", call[h].body)
           /\ Continue(h, [op |-> "record_retry", to |-> r, sid |-> NextSid(r)])
    /\ UNCHANGED <<run, Tables, refused>>

RecordRetry(h) ==
    /\ call[h].op = "record_retry"
    /\ LET r == call[h].to
       IN  UpdateRow(r, [recipient[r] EXCEPT !.status = "sent", !.sid = call[h].sid,
                                             !.due = "pending"])
    /\ Return(h)
    /\ UNCHANGED <<run, investigation, batch, Provider>>

-----------------------------------------------------------------------------
\* The process dies and is started again; the tables and Twilio's messages stay.
Crash ==
    /\ call' = [h \in Handler |-> Idle]
    /\ UNCHANGED <<run, Tables, Provider>>

Prepare(h) ==
    StartPrepare(h) \/ InsertBatch(h) \/ ReadDrafts(h) \/ DraftMessage(h)

Approve(h) ==
    \/ StartApproval(h) \/ MarkApproved(h) \/ SendAccepted(h) \/ SendRefused(h)
    \/ RecordSent(h) \/ FinishApproval(h)

FollowUp(h) ==
    \/ ReadDue(h) \/ RecordFollowUp(h)
    \/ \E r \in Recipient : FollowUpAccepted(h, r) \/ FollowUpRefused(h, r)

Retry(h) ==
    \/ \E r \in Recipient : StartRetry(h, r)
    \/ CheckDelivery(h) \/ RetryAccepted(h) \/ RecordRetry(h)

Customer(r) == RecordLinkOpen(r) \/ RecordPaymentComplete(r) \/ FollowUpFallsDue(r)

Next ==
    \/ NewRun
    \/ Crash
    \/ \E scope \in {"network", "merchant"} : Investigate(scope)
    \/ \E h \in Handler : Prepare(h) \/ Approve(h) \/ FollowUp(h) \/ Retry(h)
                           \/ RequestFails(h) \/ AnswerLost(h)
    \/ \E r \in Recipient : Customer(r)
    \/ \E r \in Recipient : \E i \in 1..Len(accepted[r]) : ReportFailed(r, i)

Spec == Init /\ [][Next]_vars

\* A thread works until its request ends.  The dashboard polls every five
\* seconds, and Twilio does not refuse every follow-up for ever.
Working(h) ==
    /\ call[h] # Idle
    /\ Prepare(h) \/ Approve(h) \/ FollowUp(h) \/ Retry(h) \/ RequestFails(h)

FollowUpFairness ==
    /\ \A h \in Handler : WF_vars(Working(h))
    /\ SF_vars(\E h \in Handler : ReadDue(h))
    /\ SF_vars(\E h \in Handler, r \in Recipient : FollowUpAccepted(h, r))
    /\ \A r \in Recipient : WF_vars(FollowUpFallsDue(r))

FairSpec == Spec /\ FollowUpFairness

-----------------------------------------------------------------------------
TypeOK ==
    /\ run \in 1..MaxRuns
    /\ investigation \in {Absent, "network", "merchant"}
    /\ batch \in {Absent, "draft", "approved", "sent"}
    /\ recipient \in [Recipient -> Row \cup {NoRow}]
    /\ accepted \in [Recipient -> Seq(Message)]
    /\ refused \subseteq Recipient
    /\ call \in [Handler -> Call]
    /\ \A r \in Recipient : (recipient[r] = NoRow) <=> (batch = Absent)

\* Nobody is ever contacted first by the monitor or a retry: whatever runs
\* and crashes in between, the first message to a phone number is one the
\* merchant's approval sent.
FirstContactIsApproved ==
    \A r \in Recipient : accepted[r] # <<>> => accepted[r][1].by = "approval"

\* Every retry has a message to the same number before it that Twilio had
\* reported failed, though the row is read before Twilio is asked.
RetryFollowsFailure ==
    \A r \in Recipient : \A i \in 1..Len(accepted[r]) :
        accepted[r][i].by = "retry" =>
            \E j \in 1..(i - 1) : accepted[r][j].failed

\* In every run, a recipient shown as sent or opened has a message of Twilio's
\* on record, and it is an approved or retried one, whichever requests sent and
\* recorded last.  Until a new run brings the ids back, so has one shown as
\* followed up, and the message carries the recipient's own link.
HasMessage(r) ==
    /\ recipient[r].sid \in 1..Len(accepted[r])
    /\ accepted[r][recipient[r].sid].by # "follow_up"

TrackedMessageIsReal ==
    \A r \in Recipient :
        /\ recipient[r].status \in {"sent", "opened"} => HasMessage(r)
        /\ run = 1 /\ recipient[r].status \in {"sent", "opened", "follow_up_sent"} =>
               HasMessage(r) /\ accepted[r][recipient[r].sid].link = recipient[r].link

\* Within a run, a batch shown as sent leaves no recipient unattempted: one
\* still a draft was reported to the merchant as a send error.
SentBatchWasAttempted ==
    batch = "sent" => \A r \in Recipient : recipient[r].status = "draft" => r \in refused

\* README: customer-facing recovery requires explicit merchant approval.  No
\* message carries a link of a batch the merchant has not approved.  This holds
\* within a run, whatever crashes; requests that outlive their run break it.
NothingSentBeforeApproval ==
    \A r \in Recipient : \A i \in 1..Len(accepted[r]) :
        accepted[r][i].link = run => batch \in {"approved", "sent"}

\* "Every unfinished test customer receives one Gemini follow-up": Twilio
\* accepts one for a customer who was sent a link, through failing calls, lost
\* answers, crashes and retries that put the time off, unless the customer
\* pays or a new run deletes the row first.  A follow-up that outlives its run
\* counts: it is recorded in the new run's row, which gets no other.
UnfinishedIsFollowedUp ==
    \A r \in Recipient :
        recipient[r].status \in {"sent", "opened"} ~>
            \/ recipient[r].status \in {"follow_up_sent", "completed"}
            \/ Sent(r, "follow_up", run) # {}
            \/ recipient[r] = NoRow

-----------------------------------------------------------------------------
\* What the README claims and the code does not keep.

AtMostOne(S) == \A i, j \in S : i = j

\* README: "one five-minute Gemini follow-up" per recipient.
OneFollowUp == \A r \in Recipient, k \in Link : AtMostOne(Sent(r, "follow_up", k))
=============================================================================
