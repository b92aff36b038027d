------------------------------ MODULE Delivery ------------------------------
(***************************************************************************)
(* One merchant's alerts: the simulated outbox filled by deterministic     *)
(* rules, the live email (Resend) and WhatsApp (Twilio) attempts made for  *)
(* an alert, and the signed WhatsApp replies.  Every transaction and every *)
(* provider call is one step of a worker thread.                           *)
(*                                                                         *)
(* Alert ids are uuid5 of the intervention (or finding), contact, channel  *)
(* and event: a new demo run brings the same ids back.  Resend is given an *)
(* idempotency key of alert and text; Twilio is given none.                *)
(***************************************************************************)
EXTENDS Integers

CONSTANTS
    Intervention,  \* the merchant's possible interventions
    Handler,       \* worker threads of the server
    Evidence,      \* what an intervention may stand on: scope and severity
    Draft,         \* bodies Gemini may write under an alert's own subject
    ReplySid,      \* message sids of inbound replies
    MaxRuns,       \* bound on the demo runs created in one behaviour
    MaxClock,      \* bound on the hours of one behaviour
    MaxRequests    \* bound on the requests that alert, send or set a contact

ASSUME DeliveryAssumption ==
    /\ Evidence \subseteq [scope : {"network", "merchant"}, severity : 1..4]
    /\ MaxRuns \in Nat /\ MaxClock \in Nat /\ MaxRequests \in Nat

VARIABLES
    run,           \* how many demo runs have replaced the first one (ghost)
    clock,         \* hours
    configured,    \* the providers' settings are in the environment
    optedIn,       \* contacts that take email
    intervention,  \* sre_interventions: status, scope, severity of the finding
    critical,      \* a critical finding of this merchant is stored
    outbox,        \* notification_outbox
    attempts,      \* notification_live_attempts, by idempotency key
    latest,        \* the alert last recorded as sent by WhatsApp
    replies,       \* whatsapp_inbound_events: the alert each is attached to
    steps,         \* replies in the agent trace of an intervention
    emails,        \* texts Resend has accepted for an alert
    whatsapps,     \* alerts Twilio has accepted a message for
    requests,      \* how many requests have begun
    call           \* what each worker thread is doing

evidenceVars == <<run, clock, intervention, critical>>
settingVars == <<configured, optedIn>>
replyVars == <<replies, steps>>
providerVars == <<emails, whatsapps>>
vars == <<evidenceVars, settingVars, outbox, attempts, latest, replyVars, providerVars,
          requests, call>>

\* The seeded contacts of the two teams alerts go to, and an engineering
\* contact with a real address, added in the team settings.
Contact == {"owner", "engineering", "added"}

\* seed_notification_defaults; severities ranked from low to critical.
Rule ==
    [merchant_incident |-> [team |-> "engineering", minimum |-> 2, cooldown |-> 1],
     network_incident  |-> [team |-> "owner", minimum |-> 3, cooldown |-> 2],
     approval_required |-> [team |-> "owner", minimum |-> 3, cooldown |-> 0]]

\* What an alert is about and its event; an urgent email is one to a contact.
EventType == DOMAIN Rule
Alert == (Intervention \X EventType) \cup ({"finding"} \X {"engineering", "added"})

\* The template's text, Gemini's under the same subject, or the merchant's own.
Template == "template"
Edited == "edited"
Text == Draft \cup {Template, Edited}
WhatsApp == "whatsapp"

\* The key of a WhatsApp attempt is not one of an email's.
ASSUME DraftAssumption == WhatsApp \notin Draft

Unlinked == <<"none", "none">>

AttemptStatus == {"live_sent", "live_failed", "not_configured"}

Idle == [op |-> "idle"]
Begin(h, c) ==
    /\ call[h] = Idle
    /\ requests < MaxRequests
    /\ requests' = requests + 1
    /\ call' = [call EXCEPT ![h] = c]
Continue(h, c) == call' = [call EXCEPT ![h] = c] /\ UNCHANGED requests
Return(h) == Continue(h, Idle)

-----------------------------------------------------------------------------
\* A table is a function from the keys of its rows.
NoRows == [k \in {} |-> {}]
Put(table, key, row) ==
    [k \in DOMAIN table \cup {key} |-> IF k = key THEN row ELSE table[k]]

Init ==
    /\ run = 0 /\ clock = 0 /\ requests = 0
    /\ configured \in BOOLEAN
    /\ optedIn = {"owner", "engineering"}
    /\ critical \in BOOLEAN
    /\ intervention = NoRows /\ outbox = NoRows /\ attempts = NoRows
    /\ replies = NoRows /\ steps = {} /\ latest = Unlinked
    /\ emails = {} /\ whatsapps = {}
    /\ call = [h \in Handler |-> Idle]

\* Mutant of NewRun: the attempts of the previous run are not deleted.
NewRunKeepsAttempts ==
    /\ run < MaxRuns
    /\ run' = run + 1
    /\ critical' \in BOOLEAN
    /\ intervention' = NoRows /\ outbox' = NoRows
    /\ replies' = NoRows /\ steps' = {} /\ latest' = Unlinked
    /\ UNCHANGED <<clock, attempts, settingVars, providerVars, requests, call>>

\* seed_synthetic_data; contacts are settings and stay.
NewRun ==
    /\ run < MaxRuns
    /\ run' = run + 1
    /\ critical' \in BOOLEAN
    /\ intervention' = NoRows /\ outbox' = NoRows /\ attempts' = NoRows
    /\ replies' = NoRows /\ steps' = {} /\ latest' = Unlinked
    /\ UNCHANGED <<clock, settingVars, providerVars, requests, call>>

Hour == clock < MaxClock /\ clock' = clock + 1
        /\ UNCHANGED <<run, intervention, critical, settingVars, outbox, attempts, latest,
                       replyVars, providerVars, requests, call>>

\* Module Intervention: one is requested, approved at once when network-wide,
\* and decided by the merchant otherwise.
SetIntervention(i, row) ==
    /\ intervention' = Put(intervention, i, row)
    /\ UNCHANGED <<run, clock, critical, settingVars, outbox, attempts, latest, replyVars,
                   providerVars, requests, call>>

RequestIntervention(i, e) ==
    /\ i \notin DOMAIN intervention
    /\ SetIntervention(i, [status |-> IF e.scope = "network" THEN "decided"
                                      ELSE "awaiting_approval",
                           scope |-> e.scope, severity |-> e.severity])

DecideIntervention(i) ==
    /\ i \in DOMAIN intervention
    /\ intervention[i].status = "awaiting_approval"
    /\ SetIntervention(i, [intervention[i] EXCEPT !.status = "decided"])

\* Investigating a finding again may find another scope under an intervention
\* already requested, and rewrites the agent trace, the replies in it too.
InvestigateAgain(i, e) ==
    /\ i \in DOMAIN intervention
    /\ intervention' = [intervention EXCEPT ![i].scope = e.scope, ![i].severity = e.severity]
    /\ steps' = {step \in steps : step[1] # i}
    /\ UNCHANGED <<run, clock, critical, settingVars, outbox, attempts, latest, replies,
                   providerVars, requests, call>>

\* add_contact with a known address updates it; the other one is new.
AddContact(c, email_opt_in) ==
    /\ requests < MaxRequests
    /\ requests' = requests + 1
    /\ optedIn' = IF email_opt_in THEN optedIn \cup {c} ELSE optedIn \ {c}
    /\ optedIn' # optedIn
    /\ UNCHANGED <<evidenceVars, configured, outbox, attempts, latest, replyVars,
                   providerVars, call>>

-----------------------------------------------------------------------------
\* dispatch_for_intervention

EventOf(row) ==
    IF row.status = "awaiting_approval" THEN "approval_required"
    ELSE IF row.scope = "network" THEN "network_incident" ELSE "merchant_incident"

\* The intervention and the rule are read in one snapshot.
StartDispatch(h, i) ==
    /\ i \in DOMAIN intervention
    /\ LET event == EventOf(intervention[i])
       IN  /\ intervention[i].severity >= Rule[event].minimum
           /\ Begin(h, [op |-> "route", alert |-> <<i, event>>])
    /\ UNCHANGED <<evidenceVars, settingVars, outbox, attempts, latest, replyVars,
                   providerVars>>

\* The team's verified contact who takes email, then the clock.
ReadContact(h) ==
    /\ call[h].op = "route"
    /\ LET a == call[h].alert
       IN  IF Rule[a[2]].team \in optedIn
           THEN Continue(h, [op |-> "dispatch", alert |-> a, at |-> clock])
           ELSE Return(h)
    /\ UNCHANGED <<evidenceVars, settingVars, outbox, attempts, latest, replyVars,
                   providerVars>>

\* Mutant of InCooldown: only alerts of the same intervention count.
InCooldownOfIntervention(a, now) ==
    /\ a \in DOMAIN outbox /\ outbox[a].text # Edited
    /\ now - outbox[a].at < Rule[a[2]].cooldown

\* An alert with the same subject to the same contact is too recent.
InCooldown(a, now) ==
    \E other \in DOMAIN outbox :
        /\ other[2] = a[2] /\ outbox[other].text # Edited
        /\ now - outbox[other].at < Rule[a[2]].cooldown

\* _dispatch_one's transaction, at the instant read before it.  The foreign
\* key refuses an alert about an intervention that is gone.
DispatchOne(h) ==
    /\ call[h].op = "dispatch"
    /\ LET a == call[h].alert
       IN  outbox' = IF a \in DOMAIN outbox \/ InCooldown(a, call[h].at)
                        \/ a[1] \notin DOMAIN intervention
                     THEN outbox
                     ELSE Put(outbox, a, [text |-> Template, at |-> call[h].at])
    /\ Return(h)
    /\ UNCHANGED <<evidenceVars, settingVars, attempts, latest, replyVars, providerVars>>

-----------------------------------------------------------------------------
\* prepare_critical_engineering_email, and what is done with it: reviewed
\* later, or drafted by Gemini and sent at once (urgent button, investigation).

\* The newest real address before the seeded one.
UrgentContact == IF "added" \in optedIn THEN "added" ELSE "engineering"

StartUrgent(h, send) ==
    /\ critical
    /\ optedIn \cap {"added", "engineering"} # {}
    /\ Begin(h, [op |-> "prepare", alert |-> <<"finding", UrgentContact>>, send |-> send])
    /\ UNCHANGED <<evidenceVars, settingVars, outbox, attempts, latest, replyVars,
                   providerVars>>

PrepareUrgent(h) ==
    /\ call[h].op = "prepare"
    /\ LET a == call[h].alert
       IN  /\ outbox' = IF a \in DOMAIN outbox THEN outbox
                        ELSE Put(outbox, a, [text |-> Template, at |-> clock])
           /\ IF call[h].send THEN Continue(h, [op |-> "draft", alert |-> a])
                              ELSE Return(h)
    /\ UNCHANGED <<evidenceVars, settingVars, attempts, latest, replyVars, providerVars>>

\* draft_engineering_email, and the read that begins the delivery; the alert
\* may be gone by then.  Its subject is an edited one only when an email was
\* accepted, and then the delivery is a replay.
DraftUrgent(h, text) ==
    /\ call[h].op = "draft"
    /\ LET a == call[h].alert
       IN  IF a \in DOMAIN outbox THEN Continue(h, [op |-> "check", alert |-> a, text |-> text])
           ELSE Return(h)
    /\ UNCHANGED <<evidenceVars, settingVars, outbox, attempts, latest, replyVars,
                   providerVars>>

-----------------------------------------------------------------------------
\* deliver_controlled_email

StartEmail(h, a, text) ==
    /\ a \in DOMAIN outbox
    /\ Begin(h, [op |-> "check", alert |-> a, text |-> text])
    /\ UNCHANGED <<evidenceVars, settingVars, outbox, attempts, latest, replyVars,
                   providerVars>>

IsSent(key) == key \in DOMAIN attempts /\ attempts[key] = "live_sent"
EmailSent(a) == \E t \in Text : IsSent(<<a, t>>)

\* An alert with an accepted email is answered as a replay.
CheckAccepted(h) ==
    /\ call[h].op = "check"
    /\ LET a == call[h].alert
       IN  IF EmailSent(a) THEN Return(h)
           ELSE IF configured THEN Continue(h, [call[h] EXCEPT !.op = "email"])
           ELSE Continue(h, [op |-> "record", alert |-> a, text |-> call[h].text,
                             status |-> "not_configured"])
    /\ UNCHANGED <<evidenceVars, settingVars, outbox, attempts, latest, replyVars,
                   providerVars>>

\* Resend sends one exact email once.
Accept(a, text) == emails' = emails \cup {<<a, text>>}

Answered(h, status) ==
    Continue(h, [op |-> "record", alert |-> call[h].alert, text |-> call[h].text,
                 status |-> status])

EmailAccepted(h) ==
    /\ call[h].op = "email"
    /\ Accept(call[h].alert, call[h].text)
    /\ Answered(h, "live_sent")
    /\ UNCHANGED <<evidenceVars, settingVars, outbox, attempts, latest, replyVars, whatsapps>>

\* Mutant of CallRefused: an error answer is not told from a good one.
CallRefusedUnnoticed(h) ==
    /\ call[h].op \in {"email", "whatsapp"}
    /\ Answered(h, "live_sent")
    /\ UNCHANGED <<evidenceVars, settingVars, outbox, attempts, latest, replyVars,
                   providerVars>>

\* HTTPError or URLError of either provider.
CallRefused(h) ==
    /\ call[h].op \in {"email", "whatsapp"}
    /\ Answered(h, "live_failed")
    /\ UNCHANGED <<evidenceVars, settingVars, outbox, attempts, latest, replyVars,
                   providerVars>>

\* Gemini gives no draft, or the connection times out: nothing is sent and
\* nothing recorded.
GiveUp(h) ==
    /\ call[h].op \in {"draft", "email", "whatsapp"}
    /\ Return(h)
    /\ UNCHANGED <<evidenceVars, settingVars, outbox, attempts, latest, replyVars,
                   providerVars>>

\* Accepted, but reading the answer times out: the request ends unrecorded.
AnswerLost(h) ==
    /\ call[h].op \in {"email", "whatsapp"}
    /\ IF call[h].op = "email"
       THEN Accept(call[h].alert, call[h].text) /\ UNCHANGED whatsapps
       ELSE whatsapps' = whatsapps \cup {call[h].alert} /\ UNCHANGED emails
    /\ Return(h)
    /\ UNCHANGED <<evidenceVars, settingVars, outbox, attempts, latest, replyVars>>

\* Mutants of RecordedStatus: the last answer is the one that is kept; a
\* repetition is told apart by a status of its own, which the schema refuses.
LastStatus(key, status) == status
ReplayedStatus(key, status) ==
    IF IsSent(key) THEN "replayed" ELSE status

\* _record_attempt: an accepted send is never overwritten.
RecordedStatus(key, status) ==
    IF IsSent(key) THEN "live_sent" ELSE status

\* Mutant of RecordEmail: the text is shown whatever became of it.
RecordAnyEmail(h) ==
    /\ call[h].op = "record" /\ call[h].text # WhatsApp
    /\ LET a == call[h].alert
           key == <<a, call[h].text>>
       IN  IF a \notin DOMAIN outbox THEN Return(h) /\ UNCHANGED attempts
           ELSE /\ attempts' = Put(attempts, key, RecordedStatus(key, call[h].status))
                /\ Continue(h, [op |-> "show", alert |-> a, text |-> call[h].text])
    /\ UNCHANGED <<evidenceVars, settingVars, outbox, latest, replyVars, providerVars>>

\* The foreign key refuses an attempt for an alert that is gone.  A first
\* accepted attempt goes on to show the text in the outbox.
RecordEmail(h) ==
    /\ call[h].op = "record" /\ call[h].text # WhatsApp
    /\ LET a == call[h].alert
           key == <<a, call[h].text>>
       IN  IF a \notin DOMAIN outbox THEN Return(h) /\ UNCHANGED attempts
           ELSE /\ attempts' = Put(attempts, key, RecordedStatus(key, call[h].status))
                /\ IF call[h].status = "live_sent" /\ ~IsSent(key)
                   THEN Continue(h, [op |-> "show", alert |-> a, text |-> call[h].text])
                   ELSE Return(h)
    /\ UNCHANGED <<evidenceVars, settingVars, outbox, latest, replyVars, providerVars>>

ShowText(h) ==
    /\ call[h].op = "show"
    /\ LET a == call[h].alert
       IN  outbox' = IF a \notin DOMAIN outbox THEN outbox
                     ELSE [outbox EXCEPT ![a].text = call[h].text]
    /\ Return(h)
    /\ UNCHANGED <<evidenceVars, settingVars, attempts, latest, replyVars, providerVars>>

-----------------------------------------------------------------------------
\* deliver_controlled_whatsapp: no earlier attempt is looked for.

StartWhatsApp(h, a) ==
    /\ a \in DOMAIN outbox
    /\ Begin(h, IF configured THEN [op |-> "whatsapp", alert |-> a, text |-> WhatsApp]
                ELSE [op |-> "record", alert |-> a, text |-> WhatsApp,
                      status |-> "not_configured"])
    /\ UNCHANGED <<evidenceVars, settingVars, outbox, attempts, latest, replyVars,
                   providerVars>>

WhatsAppAccepted(h) ==
    /\ call[h].op = "whatsapp"
    /\ whatsapps' = whatsapps \cup {call[h].alert}
    /\ Answered(h, "live_sent")
    /\ UNCHANGED <<evidenceVars, settingVars, outbox, attempts, latest, replyVars, emails>>

RecordWhatsApp(h) ==
    /\ call[h].op = "record" /\ call[h].text = WhatsApp
    /\ LET a == call[h].alert
           key == <<a, WhatsApp>>
       IN  IF a \notin DOMAIN outbox THEN UNCHANGED <<attempts, latest>>
           ELSE /\ attempts' = Put(attempts, key, RecordedStatus(key, call[h].status))
                /\ latest' = IF call[h].status = "live_sent" /\ ~IsSent(key)
                             THEN a ELSE latest
    /\ Return(h)
    /\ UNCHANGED <<evidenceVars, settingVars, outbox, replyVars, providerVars>>

-----------------------------------------------------------------------------
\* record_inbound_reply: attached to the latest alert sent, and put into the
\* trace of its intervention, in one transaction.  Twilio may deliver it again.

\* Only an alert about an intervention has a trace to put the reply into.
RecordReplyStep(s) ==
    steps' = IF latest[1] \in Intervention THEN steps \cup {<<latest[1], s>>} ELSE steps

ReceiveReply(s) ==
    /\ configured
    /\ s \notin DOMAIN replies
    /\ replies' = Put(replies, s, latest)
    /\ RecordReplyStep(s)
    /\ UNCHANGED <<evidenceVars, settingVars, outbox, attempts, latest, providerVars,
                   requests, call>>

\* The process dies and is started again, its settings perhaps changed.
Restart ==
    /\ call' = [h \in Handler |-> Idle]
    /\ configured' \in BOOLEAN
    /\ UNCHANGED <<evidenceVars, optedIn, outbox, attempts, latest, replyVars, providerVars,
                   requests>>

-----------------------------------------------------------------------------
Alerting(h) ==
    \/ \E i \in Intervention : StartDispatch(h, i)
    \/ ReadContact(h) \/ DispatchOne(h)
    \/ \E send \in BOOLEAN : StartUrgent(h, send)
    \/ PrepareUrgent(h)
    \/ \E text \in Draft : DraftUrgent(h, text)

Sending(h) ==
    \/ \E a \in Alert, text \in Text : StartEmail(h, a, text)
    \/ CheckAccepted(h) \/ EmailAccepted(h) \/ CallRefused(h) \/ AnswerLost(h) \/ GiveUp(h)
    \/ RecordEmail(h) \/ ShowText(h)
    \/ \E a \in Alert : StartWhatsApp(h, a)
    \/ WhatsAppAccepted(h) \/ RecordWhatsApp(h)

Next ==
    \/ NewRun \/ Hour \/ Restart
    \/ \E i \in Intervention : \/ \E e \in Evidence : \/ RequestIntervention(i, e)
                                                   \/ InvestigateAgain(i, e)
                               \/ DecideIntervention(i)
    \/ \E c \in Contact, email_opt_in \in BOOLEAN : AddContact(c, email_opt_in)
    \/ \E h \in Handler : Alerting(h) \/ Sending(h)
    \/ \E s \in ReplySid : ReceiveReply(s)

Spec == Init /\ [][Next]_vars

-----------------------------------------------------------------------------
Call ==
    [op : {"idle"}] \cup
    [op : {"route", "draft"}, alert : Alert] \cup
    [op : {"dispatch"}, alert : Alert, at : Nat] \cup
    [op : {"prepare"}, alert : Alert, send : BOOLEAN] \cup
    [op : {"check", "email", "show"}, alert : Alert, text : Text] \cup
    [op : {"whatsapp"}, alert : Alert, text : {WhatsApp}] \cup
    [op : {"record"}, alert : Alert, text : Text \cup {WhatsApp},
     status : AttemptStatus]

Table(S, Key, Rows) == \A k \in DOMAIN S : k \in Key /\ S[k] \in Rows

TypeOK ==
    /\ run \in 0..MaxRuns /\ clock \in 0..MaxClock /\ requests \in 0..MaxRequests
    /\ configured \in BOOLEAN /\ critical \in BOOLEAN
    /\ optedIn \subseteq Contact
    /\ Table(intervention, Intervention,
             [status : {"awaiting_approval", "decided"}, scope : {"network", "merchant"},
              severity : 1..4])
    /\ Table(outbox, Alert, [text : Text, at : Nat])
    /\ Table(attempts, Alert \X (Text \cup {WhatsApp}), AttemptStatus)
    /\ latest \in Alert \cup {Unlinked}
    /\ Table(replies, ReplySid, Alert \cup {Unlinked})
    /\ steps \subseteq Intervention \X ReplySid
    /\ emails \subseteq Alert \X Text /\ whatsapps \subseteq Alert
    /\ call \in [Handler -> Call]

\* A reply in the agent trace of an intervention is a stored one, attached to
\* an alert of that intervention, however often it is delivered.
StepsAreReplies ==
    \A step \in steps : step[2] \in DOMAIN replies /\ replies[step[2]][1] = step[1]

\* Whatever a new run deletes under requests in flight: an attempt has its
\* alert, an alert its intervention, a reply's alert was sent, and a reply in
\* a trace is stored and about that intervention.
NothingDangles ==
    /\ \A key \in DOMAIN attempts : key[1] \in DOMAIN outbox
    /\ \A a \in DOMAIN outbox : a[1] \in DOMAIN intervention \cup {"finding"}
    /\ \A s \in DOMAIN replies : replies[s] \in Alert => IsSent(<<replies[s], WhatsApp>>)
    /\ StepsAreReplies

\* Alerts about one kind of event reach a contact no closer together than the
\* rule's cooldown, though dispatches read the clock before they write.  An
\* alert once sent with a subject of the merchant's own is not counted.
Unedited == {a \in DOMAIN outbox : a[2] \in EventType /\ <<a, Edited>> \notin emails}
CooldownHolds ==
    \A a, b \in Unedited :
        a # b /\ a[2] = b[2] /\ outbox[a].at <= outbox[b].at =>
            outbox[b].at - outbox[a].at >= Rule[a[2]].cooldown

\* An attempt recorded as sent is one the provider accepted.
SentIsAccepted ==
    \A key \in DOMAIN attempts :
        IsSent(key) => IF key[2] = WhatsApp THEN key[1] \in whatsapps ELSE key \in emails

\* The outbox never shows a text as the alert's that was not sent, whichever
\* of several senders finishes last, and whether or not a run came between.
ShownTextWasSent ==
    \A a \in DOMAIN outbox : outbox[a].text # Template => <<a, outbox[a].text>> \in emails

\* Within a run an accepted attempt stays accepted: the failure of a slower
\* or repeated request for the same alert does not hide it.
AcceptedStaysRecorded ==
    [][run' = run =>
        \A key \in DOMAIN attempts :
            IsSent(key) => key \in DOMAIN attempts' /\ attempts'[key] = "live_sent"]_vars

\* live_email.py: "Once the provider accepted an email for this alert, never
\* send another one merely because the dashboard was refreshed or a user
\* clicked again."
EmailIsSentOnce == \A first, second \in emails : first[1] = second[1] => first = second
=============================================================================
