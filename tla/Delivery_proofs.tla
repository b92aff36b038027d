-------------------------- MODULE Delivery_proofs --------------------------
(***************************************************************************)
(* Proofs about Delivery, for any interventions, threads, evidence, drafts *)
(* and bounds.                                                             *)
(***************************************************************************)
EXTENDS Delivery, TLAPS

InterventionRow ==
    [status : {"awaiting_approval", "decided"}, scope : {"network", "merchant"},
     severity : 1..4]
OutboxRow == [text : Text, at : Nat]

\* All that a request which only goes on to its next step leaves alone.
stored == <<evidenceVars, settingVars, outbox, attempts, latest, replyVars, providerVars>>

-----------------------------------------------------------------------------
\* Tables

\* A table keeps its type when a row of that type is put into it.
LEMMA PutType ==
    ASSUME NEW table, NEW Key, NEW Rows, NEW key \in Key, NEW row \in Rows,
           Table(table, Key, Rows)
    PROVE  Table(Put(table, key, row), Key, Rows)
BY DEF Table, Put

LEMMA EmptyType ==
    ASSUME NEW Key, NEW Rows
    PROVE  Table(NoRows, Key, Rows)
BY DEF Table, NoRows

LEMMA AlertType ==
    /\ \A i \in Intervention, event \in EventType : <<i, event>> \in Alert
    /\ <<"finding", UrgentContact>> \in Alert
BY DEF Alert, UrgentContact

LEMMA EventOfType == \A row : EventOf(row) \in EventType
BY DEF EventOf, EventType, Rule

\* What a thread in the middle of an operation has read, by operation.
LEMMA CallShape ==
    ASSUME TypeOK, NEW h \in Handler
    PROVE  /\ call[h].op # "idle" => call[h].alert \in Alert
           /\ call[h].op = "dispatch" => call[h].at \in Nat
           /\ call[h].op = "prepare" => call[h].send \in BOOLEAN
           /\ call[h].op \in {"check", "email", "show"} => call[h].text \in Text
           /\ call[h].op = "whatsapp" => call[h].text = WhatsApp
           /\ call[h].op = "record" =>
                /\ call[h].text \in Text \cup {WhatsApp}
                /\ call[h].status \in AttemptStatus
<1>1. call[h] \in Call
  BY DEF TypeOK
<1> QED
  BY <1>1 DEF Call

LEMMA CallType ==
    /\ Idle \in Call
    /\ \A a \in Alert :
        /\ [op |-> "route", alert |-> a] \in Call
        /\ [op |-> "draft", alert |-> a] \in Call
        /\ \A at \in Nat : [op |-> "dispatch", alert |-> a, at |-> at] \in Call
        /\ \A send \in BOOLEAN : [op |-> "prepare", alert |-> a, send |-> send] \in Call
        /\ \A op \in {"check", "email", "show"}, text \in Text :
            [op |-> op, alert |-> a, text |-> text] \in Call
        /\ [op |-> "whatsapp", alert |-> a, text |-> WhatsApp] \in Call
        /\ \A text \in Text \cup {WhatsApp}, status \in AttemptStatus :
            [op |-> "record", alert |-> a, text |-> text, status |-> status] \in Call
BY DEF Call, Idle

\* A step of a request keeps the types of the calls.
LEMMA ContinueType ==
    ASSUME TypeOK, NEW h \in Handler, NEW c \in Call, Continue(h, c)
    PROVE  call' \in [Handler -> Call] /\ requests' \in 0..MaxRequests
BY DEF TypeOK, Continue

LEMMA ReturnType ==
    ASSUME TypeOK, NEW h \in Handler, Return(h)
    PROVE  call' \in [Handler -> Call] /\ requests' \in 0..MaxRequests
BY ContinueType, CallType DEF Return

LEMMA BeginType ==
    ASSUME TypeOK, NEW h \in Handler, NEW c \in Call, Begin(h, c)
    PROVE  call' \in [Handler -> Call] /\ requests' \in 0..MaxRequests
BY DeliveryAssumption DEF TypeOK, Begin

LEMMA StoredType ==
    ASSUME TypeOK, call' \in [Handler -> Call], requests' \in 0..MaxRequests,
           UNCHANGED stored
    PROVE  TypeOK'
BY DEF TypeOK, stored, evidenceVars, settingVars, replyVars, providerVars

-----------------------------------------------------------------------------
\* Type correctness

LEMMA TypeInit == Init => TypeOK
<1>1. SUFFICES ASSUME Init PROVE TypeOK
  OBVIOUS
<1>2. /\ Table(intervention, Intervention, InterventionRow)
      /\ Table(outbox, Alert, OutboxRow)
      /\ Table(attempts, Alert \X (Text \cup {WhatsApp}), AttemptStatus)
      /\ Table(replies, ReplySid, Alert \cup {Unlinked})
  BY <1>1, EmptyType DEF Init
<1>3. call \in [Handler -> Call]
  BY <1>1, CallType DEF Init
<1> QED
  BY <1>1, <1>2, <1>3, DeliveryAssumption DEF Init, TypeOK, InterventionRow, OutboxRow, Contact

LEMMA TypeSetIntervention ==
    ASSUME TypeOK, NEW i \in Intervention, NEW row \in InterventionRow, SetIntervention(i, row)
    PROVE  TypeOK'
<1>1. Table(intervention', Intervention, InterventionRow)
  BY PutType DEF TypeOK, SetIntervention, InterventionRow
<1> QED
  BY <1>1 DEF TypeOK, SetIntervention, InterventionRow, settingVars, replyVars, providerVars

\* What the server does outside the requests that alert and send.
LEMMA TypeEvidence ==
    ASSUME TypeOK,
           \/ NewRun \/ Hour \/ Restart
           \/ \E i \in Intervention : \/ \E e \in Evidence : \/ RequestIntervention(i, e)
                                                             \/ InvestigateAgain(i, e)
                                      \/ DecideIntervention(i)
           \/ \E c \in Contact, email_opt_in \in BOOLEAN : AddContact(c, email_opt_in)
           \/ \E s \in ReplySid : ReceiveReply(s)
    PROVE  TypeOK'
<1>1. CASE NewRun
  <2>1. /\ Table(intervention', Intervention, InterventionRow)
        /\ Table(outbox', Alert, OutboxRow)
        /\ Table(attempts', Alert \X (Text \cup {WhatsApp}), AttemptStatus)
        /\ Table(replies', ReplySid, Alert \cup {Unlinked})
    BY <1>1, EmptyType DEF NewRun
  <2> QED
    BY <1>1, <2>1, DeliveryAssumption
    DEF NewRun, TypeOK, InterventionRow, OutboxRow, settingVars, providerVars
<1>2. CASE Hour
  BY <1>2, DeliveryAssumption DEF Hour, TypeOK, settingVars, replyVars, providerVars
<1>3. CASE Restart
  BY <1>3, CallType DEF Restart, TypeOK, evidenceVars, replyVars, providerVars
<1>4. ASSUME NEW i \in Intervention, NEW e \in Evidence, RequestIntervention(i, e)
      PROVE  TypeOK'
  <2>1. [status |-> IF e.scope = "network" THEN "decided" ELSE "awaiting_approval",
         scope |-> e.scope, severity |-> e.severity] \in InterventionRow
    BY DeliveryAssumption DEF InterventionRow
  <2> QED
    BY <1>4, <2>1, TypeSetIntervention DEF RequestIntervention
<1>5. ASSUME NEW i \in Intervention, DecideIntervention(i)
      PROVE  TypeOK'
  <2>1. [intervention[i] EXCEPT !.status = "decided"] \in InterventionRow
    BY <1>5 DEF DecideIntervention, TypeOK, Table, InterventionRow
  <2> QED
    BY <1>5, <2>1, TypeSetIntervention DEF DecideIntervention
<1>6. ASSUME NEW i \in Intervention, NEW e \in Evidence, InvestigateAgain(i, e)
      PROVE  TypeOK'
  <2>1. e.scope \in {"network", "merchant"} /\ e.severity \in 1..4
    BY DeliveryAssumption
  <2>2. Table(intervention', Intervention, InterventionRow)
    BY <1>6, <2>1 DEF InvestigateAgain, TypeOK, Table, InterventionRow
  <2> QED
    BY <1>6, <2>2
    DEF InvestigateAgain, TypeOK, InterventionRow, settingVars, replyVars, providerVars
<1>7. ASSUME NEW c \in Contact, NEW email_opt_in \in BOOLEAN, AddContact(c, email_opt_in)
      PROVE  TypeOK'
  BY <1>7, DeliveryAssumption DEF AddContact, TypeOK, evidenceVars, replyVars, providerVars
<1>8. ASSUME NEW s \in ReplySid, ReceiveReply(s)
      PROVE  TypeOK'
  <2>1. Table(replies', ReplySid, Alert \cup {Unlinked})
    BY <1>8, PutType DEF ReceiveReply, TypeOK
  <2>2. steps' \subseteq Intervention \X ReplySid
    BY <1>8 DEF ReceiveReply, RecordReplyStep, TypeOK
  <2> QED
    BY <1>8, <2>1, <2>2 DEF ReceiveReply, TypeOK, evidenceVars, settingVars, providerVars
<1> QED
  BY <1>1, <1>2, <1>3, <1>4, <1>5, <1>6, <1>7, <1>8

LEMMA TypeAlerting ==
    ASSUME TypeOK, NEW h \in Handler, Alerting(h)
    PROVE  TypeOK'
<1>1. ASSUME NEW i \in Intervention, StartDispatch(h, i)
      PROVE  TypeOK'
  <2>1. [op |-> "route", alert |-> <<i, EventOf(intervention[i])>>] \in Call
    BY AlertType, EventOfType, CallType
  <2> QED
    BY <1>1, <2>1, BeginType, StoredType DEF StartDispatch, stored
<1>2. CASE ReadContact(h)
  <2>1. [op |-> "dispatch", alert |-> call[h].alert, at |-> clock] \in Call
    <3>1. clock \in Nat
      BY DeliveryAssumption DEF TypeOK
    <3>2. call[h].alert \in Alert
      BY <1>2, CallShape DEF ReadContact
    <3> QED
      BY <3>1, <3>2, CallType
  <2>2. call' \in [Handler -> Call] /\ requests' \in 0..MaxRequests
    BY <1>2, <2>1, ContinueType, ReturnType DEF ReadContact
  <2> QED
    BY <1>2, <2>2, StoredType DEF ReadContact, stored
<1>3. CASE DispatchOne(h)
  <2>1. [text |-> Template, at |-> call[h].at] \in OutboxRow
    BY <1>3, CallShape DEF DispatchOne, OutboxRow, Text
  <2>2. Table(outbox', Alert, OutboxRow)
    BY <1>3, <2>1, CallShape, PutType DEF DispatchOne, TypeOK, OutboxRow
  <2> QED
    BY <1>3, <2>2, ReturnType
    DEF DispatchOne, TypeOK, OutboxRow, evidenceVars, settingVars, replyVars, providerVars
<1>4. ASSUME NEW send \in BOOLEAN, StartUrgent(h, send)
      PROVE  TypeOK'
  <2>1. [op |-> "prepare", alert |-> <<"finding", UrgentContact>>, send |-> send] \in Call
    BY AlertType, CallType
  <2> QED
    BY <1>4, <2>1, BeginType, StoredType DEF StartUrgent, stored
<1>5. CASE PrepareUrgent(h)
  <2>1. call[h].alert \in Alert /\ [text |-> Template, at |-> clock] \in OutboxRow
    BY <1>5, CallShape DEF PrepareUrgent, OutboxRow, Text, TypeOK
  <2>2. Table(outbox', Alert, OutboxRow)
    BY <1>5, <2>1, PutType DEF PrepareUrgent, TypeOK, OutboxRow
  <2>3. call' \in [Handler -> Call] /\ requests' \in 0..MaxRequests
    BY <1>5, <2>1, CallType, ContinueType, ReturnType DEF PrepareUrgent
  <2> QED
    BY <1>5, <2>2, <2>3
    DEF PrepareUrgent, TypeOK, OutboxRow, evidenceVars, settingVars, replyVars, providerVars
<1>6. ASSUME NEW text \in Draft, DraftUrgent(h, text)
      PROVE  TypeOK'
  <2>1. [op |-> "check", alert |-> call[h].alert, text |-> text] \in Call
    BY <1>6, CallShape, CallType DEF DraftUrgent, Text
  <2> QED
    BY <1>6, <2>1, ContinueType, ReturnType, StoredType DEF DraftUrgent, stored
<1> QED
  BY <1>1, <1>2, <1>3, <1>4, <1>5, <1>6 DEF Alerting

LEMMA TypeSending ==
    ASSUME TypeOK, NEW h \in Handler, Sending(h)
    PROVE  TypeOK'
<1>1. ASSUME NEW a \in Alert, NEW text \in Text, StartEmail(h, a, text)
      PROVE  TypeOK'
  <2>1. [op |-> "check", alert |-> a, text |-> text] \in Call
    BY CallType
  <2> QED
    BY <1>1, <2>1, BeginType, StoredType DEF StartEmail, stored
<1>2. CASE CheckAccepted(h)
  <2>1. /\ [call[h] EXCEPT !.op = "email"] \in Call
        /\ [op |-> "record", alert |-> call[h].alert, text |-> call[h].text,
            status |-> "not_configured"] \in Call
    <3>1. call[h] \in Call /\ call[h].op = "check"
      BY <1>2 DEF CheckAccepted, TypeOK
    <3> QED
      BY <3>1 DEF Call, AttemptStatus
  <2>2. call' \in [Handler -> Call] /\ requests' \in 0..MaxRequests
    BY <1>2, <2>1, ContinueType, ReturnType DEF CheckAccepted
  <2> QED
    BY <1>2, <2>2, StoredType DEF CheckAccepted, stored
<1>3. ASSUME call[h].op \in {"email", "whatsapp"},
             NEW status \in AttemptStatus, Answered(h, status)
      PROVE  call' \in [Handler -> Call] /\ requests' \in 0..MaxRequests
  <2>1. [op |-> "record", alert |-> call[h].alert, text |-> call[h].text,
         status |-> status] \in Call
    BY <1>3, CallShape, CallType
  <2> QED
    BY <1>3, <2>1, ContinueType DEF Answered
<1>4. CASE EmailAccepted(h)
  <2>1. call' \in [Handler -> Call] /\ requests' \in 0..MaxRequests
    BY <1>3, <1>4 DEF EmailAccepted, AttemptStatus
  <2>2. <<call[h].alert, call[h].text>> \in Alert \X Text
    BY <1>4, CallShape DEF EmailAccepted
  <2> QED
    BY <1>4, <2>1, <2>2 DEF EmailAccepted, Accept, TypeOK, evidenceVars, settingVars, replyVars
<1>5. CASE CallRefused(h)
  BY <1>3, <1>5, StoredType DEF CallRefused, AttemptStatus, stored
<1>6. CASE AnswerLost(h)
  <2>1. /\ call[h].alert \in Alert
        /\ call[h].op = "email" => <<call[h].alert, call[h].text>> \in Alert \X Text
    BY <1>6, CallShape DEF AnswerLost
  <2>2. emails' \subseteq Alert \X Text /\ whatsapps' \subseteq Alert
    BY <1>6, <2>1 DEF AnswerLost, Accept, TypeOK
  <2> QED
    BY <1>6, <2>2, ReturnType DEF AnswerLost, TypeOK, evidenceVars, settingVars, replyVars
<1>7. CASE GiveUp(h)
  BY <1>7, ReturnType, StoredType DEF GiveUp, stored
<1>8. ASSUME call[h].op = "record",
             attempts' = Put(attempts, <<call[h].alert, call[h].text>>,
                             RecordedStatus(<<call[h].alert, call[h].text>>, call[h].status))
      PROVE  Table(attempts', Alert \X (Text \cup {WhatsApp}), AttemptStatus)
  <2>1. /\ <<call[h].alert, call[h].text>> \in Alert \X (Text \cup {WhatsApp})
        /\ RecordedStatus(<<call[h].alert, call[h].text>>, call[h].status) \in AttemptStatus
    BY <1>8, CallShape DEF RecordedStatus, AttemptStatus
  <2> QED
    BY <1>8, <2>1, PutType DEF TypeOK
<1>9. CASE RecordEmail(h)
  <2>1. Table(attempts', Alert \X (Text \cup {WhatsApp}), AttemptStatus)
    BY <1>8, <1>9 DEF RecordEmail, TypeOK
  <2>2. [op |-> "show", alert |-> call[h].alert, text |-> call[h].text] \in Call
    BY <1>9, CallShape, CallType DEF RecordEmail
  <2>3. call' \in [Handler -> Call] /\ requests' \in 0..MaxRequests
    BY <1>9, <2>2, ContinueType, ReturnType DEF RecordEmail
  <2> QED
    BY <1>9, <2>1, <2>3
    DEF RecordEmail, TypeOK, evidenceVars, settingVars, replyVars, providerVars
<1>10. CASE ShowText(h)
  <2>1. Table(outbox', Alert, OutboxRow)
    BY <1>10, CallShape DEF ShowText, TypeOK, Table, OutboxRow
  <2> QED
    BY <1>10, <2>1, ReturnType
    DEF ShowText, TypeOK, OutboxRow, evidenceVars, settingVars, replyVars, providerVars
<1>11. ASSUME NEW a \in Alert, StartWhatsApp(h, a)
       PROVE  TypeOK'
  <2>1. /\ [op |-> "whatsapp", alert |-> a, text |-> WhatsApp] \in Call
        /\ [op |-> "record", alert |-> a, text |-> WhatsApp,
            status |-> "not_configured"] \in Call
    BY CallType DEF AttemptStatus
  <2> QED
    BY <1>11, <2>1, BeginType, StoredType DEF StartWhatsApp, stored
<1>12. CASE WhatsAppAccepted(h)
  <2>1. call' \in [Handler -> Call] /\ requests' \in 0..MaxRequests
    BY <1>3, <1>12 DEF WhatsAppAccepted, AttemptStatus
  <2>2. call[h].alert \in Alert
    BY <1>12, CallShape DEF WhatsAppAccepted
  <2> QED
    BY <1>12, <2>1, <2>2 DEF WhatsAppAccepted, TypeOK, evidenceVars, settingVars, replyVars
<1>13. CASE RecordWhatsApp(h)
  <2>1. Table(attempts', Alert \X (Text \cup {WhatsApp}), AttemptStatus)
    BY <1>8, <1>13 DEF RecordWhatsApp, TypeOK
  <2>2. latest' \in Alert \cup {Unlinked}
    BY <1>13, CallShape DEF RecordWhatsApp, TypeOK
  <2> QED
    BY <1>13, <2>1, <2>2, ReturnType
    DEF RecordWhatsApp, TypeOK, evidenceVars, settingVars, replyVars, providerVars
<1> QED
  BY <1>1, <1>2, <1>4, <1>5, <1>6, <1>7, <1>9, <1>10, <1>11, <1>12, <1>13 DEF Sending

LEMMA TypeStep == TypeOK /\ [Next]_vars => TypeOK'
<1>1. CASE UNCHANGED vars
  BY <1>1 DEF vars, TypeOK, evidenceVars, settingVars, replyVars, providerVars
<1>2. ASSUME TypeOK, Next PROVE TypeOK'
  BY <1>2, TypeEvidence, TypeAlerting, TypeSending DEF Next
<1> QED
  BY <1>1, <1>2

\* Every variable of the alert deliveries keeps its type.
THEOREM TypeCorrect == Spec => []TypeOK
BY TypeInit, TypeStep, PTL DEF Spec

-----------------------------------------------------------------------------
\* What is recorded and shown as sent was accepted

\* A request that is about to record an acceptance, or to show the text of a
\* recorded one, has seen the provider accept it.
AcceptedInFlight ==
    \A h \in Handler :
        /\ call[h].op = "record" /\ call[h].status = "live_sent" =>
            IF call[h].text = WhatsApp THEN call[h].alert \in whatsapps
            ELSE <<call[h].alert, call[h].text>> \in emails
        /\ call[h].op = "show" => <<call[h].alert, call[h].text>> \in emails

Honest == AcceptedInFlight /\ SentIsAccepted /\ ShownTextWasSent

LEMMA HonestInit == Init => Honest
BY DEF Init, NoRows, Idle, Honest, AcceptedInFlight, SentIsAccepted, ShownTextWasSent

\* The providers forget nothing.
LEMMA ProvidersRemember ==
    ASSUME TypeOK, [Next]_vars
    PROVE  emails \subseteq emails' /\ whatsapps \subseteq whatsapps'
BY DEF Next, vars, NewRun, Hour, Restart, RequestIntervention, DecideIntervention,
       SetIntervention, InvestigateAgain, AddContact, ReceiveReply, Alerting, StartDispatch,
       ReadContact, DispatchOne, StartUrgent, PrepareUrgent, DraftUrgent, Sending, StartEmail,
       CheckAccepted, EmailAccepted, Accept, CallRefused, AnswerLost, GiveUp, RecordEmail,
       ShowText, StartWhatsApp, WhatsAppAccepted, RecordWhatsApp, providerVars

\* A step that leaves the attempts and the outbox alone, and whose thread does
\* not claim an acceptance that never was.
LEMMA HonestCall ==
    ASSUME TypeOK, Honest, NEW h \in Handler, NEW c \in Call,
           call' = [call EXCEPT ![h] = c],
           UNCHANGED <<outbox, attempts>>,
           emails \subseteq emails', whatsapps \subseteq whatsapps',
           c.op = "record" /\ c.status = "live_sent" =>
               IF c.text = WhatsApp THEN c.alert \in whatsapps'
               ELSE <<c.alert, c.text>> \in emails',
           c.op = "show" => <<c.alert, c.text>> \in emails'
    PROVE  Honest'
<1>1. AcceptedInFlight'
  BY DEF Honest, AcceptedInFlight, TypeOK
<1>2. SentIsAccepted' /\ ShownTextWasSent'
  BY DEF Honest, SentIsAccepted, ShownTextWasSent, IsSent
<1> QED
  BY <1>1, <1>2 DEF Honest

\* A step of no thread that leaves the attempts, and the texts shown, alone.
LEMMA HonestAside ==
    ASSUME TypeOK, Honest, UNCHANGED <<outbox, attempts, emails, whatsapps>>,
           call' = call \/ call' = [h \in Handler |-> Idle]
    PROVE  Honest'
BY DEF Honest, AcceptedInFlight, SentIsAccepted, ShownTextWasSent, IsSent, Idle

\* A step that at most puts the template of a new alert into the outbox.
LEMMA HonestAlert ==
    ASSUME TypeOK, Honest, NEW h \in Handler, NEW a, NEW at, NEW c \in Call,
           outbox' = outbox \/ outbox' = Put(outbox, a, [text |-> Template, at |-> at]),
           call' = [call EXCEPT ![h] = c], c.op \in {"idle", "draft"},
           UNCHANGED <<attempts, emails, whatsapps>>
    PROVE  Honest'
<1>1. AcceptedInFlight'
  BY DEF Honest, AcceptedInFlight, TypeOK
<1>2. SentIsAccepted'
  BY DEF Honest, SentIsAccepted, IsSent
<1>3. ShownTextWasSent'
  <2> DEFINE row == [text |-> Template, at |-> at]
  <2>1. CASE outbox' = outbox
    BY <2>1 DEF Honest, ShownTextWasSent
  <2>2. CASE outbox' = Put(outbox, a, row)
    <3>1. /\ DOMAIN Put(outbox, a, row) = DOMAIN outbox \cup {a}
          /\ Put(outbox, a, row)[a] = row
          /\ \A k \in DOMAIN outbox : k # a => Put(outbox, a, row)[k] = outbox[k]
      BY DEF Put
    <3> QED
      BY <2>2, <3>1 DEF Honest, ShownTextWasSent
  <2> QED
    BY <2>1, <2>2
<1> QED
  BY <1>1, <1>2, <1>3 DEF Honest

\* A step that stores the answer a thread holds, and may go on to show the text.
LEMMA HonestRecord ==
    ASSUME TypeOK, Honest, NEW h \in Handler, NEW c \in Call,
           call[h].op = "record",
           attempts' = Put(attempts, <<call[h].alert, call[h].text>>,
                           RecordedStatus(<<call[h].alert, call[h].text>>, call[h].status)),
           call' = [call EXCEPT ![h] = c],
           c = Idle \/ /\ c = [op |-> "show", alert |-> call[h].alert, text |-> call[h].text]
                       /\ call[h].text # WhatsApp /\ call[h].status = "live_sent",
           UNCHANGED <<outbox, emails, whatsapps>>
    PROVE  Honest'
<1> DEFINE key == <<call[h].alert, call[h].text>>
           status == RecordedStatus(key, call[h].status)
<1>0. /\ DOMAIN attempts' = DOMAIN attempts \cup {key}
      /\ attempts'[key] = status
      /\ \A k \in DOMAIN attempts : k # key => attempts'[k] = attempts[k]
  <2>1. attempts' = Put(attempts, key, status)
    OBVIOUS
  <2> HIDE DEF key, status
  <2> QED
    BY <2>1 DEF Put
<1>1. call[h].status = "live_sent" =>
        IF call[h].text = WhatsApp THEN call[h].alert \in whatsapps ELSE key \in emails
  BY DEF Honest, AcceptedInFlight
<1>2. AcceptedInFlight'
  <2>1. c.op = "show" => <<c.alert, c.text>> \in emails
    BY <1>1 DEF Idle
  <2>2. c.op # "record"
    BY DEF Idle
  <2> QED
    BY <2>1, <2>2 DEF Honest, AcceptedInFlight, TypeOK
<1>3. SentIsAccepted'
  <2> SUFFICES ASSUME NEW k \in DOMAIN attempts', attempts'[k] = "live_sent"
               PROVE  IF k[2] = WhatsApp THEN k[1] \in whatsapps ELSE k \in emails
    BY DEF SentIsAccepted, IsSent
  <2>1. CASE k = key
    <3>1. RecordedStatus(key, call[h].status) = "live_sent"
      BY <1>0, <2>1
    <3>2. CASE IsSent(key)
      BY <2>1, <3>2 DEF Honest, SentIsAccepted, IsSent
    <3>3. CASE call[h].status = "live_sent"
      BY <1>1, <2>1, <3>3
    <3> QED
      BY <3>1, <3>2, <3>3 DEF RecordedStatus
  <2>2. CASE k # key
    <3>1. k \in DOMAIN attempts /\ attempts[k] = "live_sent"
      BY <1>0, <2>2
    <3> QED
      BY <3>1 DEF Honest, SentIsAccepted, IsSent
  <2> QED
    BY <2>1, <2>2
<1>4. ShownTextWasSent'
  BY DEF Honest, ShownTextWasSent
<1> QED
  BY <1>2, <1>3, <1>4 DEF Honest

LEMMA HonestEvidence ==
    ASSUME TypeOK, Honest,
           \/ NewRun \/ Hour \/ Restart
           \/ \E i \in Intervention : \/ \E e \in Evidence : \/ RequestIntervention(i, e)
                                                             \/ InvestigateAgain(i, e)
                                      \/ DecideIntervention(i)
           \/ \E c \in Contact, email_opt_in \in BOOLEAN : AddContact(c, email_opt_in)
           \/ \E s \in ReplySid : ReceiveReply(s)
    PROVE  Honest'
<1>1. CASE NewRun
  BY <1>1 DEF NewRun, NoRows, providerVars, Honest, AcceptedInFlight, SentIsAccepted,
              ShownTextWasSent
<1>2. CASE ~NewRun
  <2>1. /\ UNCHANGED <<outbox, attempts, emails, whatsapps>>
        /\ call' = call \/ call' = [h \in Handler |-> Idle]
    BY <1>2 DEF Hour, Restart, RequestIntervention, DecideIntervention, SetIntervention,
                InvestigateAgain, AddContact, ReceiveReply, providerVars
  <2> QED
    BY <2>1, HonestAside
<1> QED
  BY <1>1, <1>2

LEMMA HonestAlerting ==
    ASSUME TypeOK, Honest, NEW h \in Handler, Alerting(h)
    PROVE  Honest'
<1>1. Idle \in Call
  BY CallType
<1>2. ASSUME NEW i \in Intervention, StartDispatch(h, i)
      PROVE  Honest'
  <2>1. [op |-> "route", alert |-> <<i, EventOf(intervention[i])>>] \in Call
    BY AlertType, EventOfType, CallType
  <2> QED
    BY <1>2, <2>1, HonestCall DEF StartDispatch, Begin, providerVars
<1>3. CASE ReadContact(h)
  <2>1. PICK c \in {Idle, [op |-> "dispatch", alert |-> call[h].alert, at |-> clock]} :
            call' = [call EXCEPT ![h] = c]
    BY <1>3 DEF ReadContact, Return, Continue
  <2>2. c \in Call
    <3>1. clock \in Nat
      BY DeliveryAssumption DEF TypeOK
    <3>2. call[h].alert \in Alert
      BY <1>3, CallShape DEF ReadContact
    <3> QED
      BY <2>1, <3>1, <3>2, CallType
  <2> QED
    BY <1>3, <2>1, <2>2, HonestCall DEF ReadContact, Idle, providerVars
<1>4. CASE DispatchOne(h)
  BY <1>1, <1>4, HonestAlert DEF DispatchOne, Return, Continue, Idle, providerVars
<1>5. ASSUME NEW send \in BOOLEAN, StartUrgent(h, send)
      PROVE  Honest'
  <2>1. [op |-> "prepare", alert |-> <<"finding", UrgentContact>>, send |-> send] \in Call
    BY AlertType, CallType
  <2> QED
    BY <1>5, <2>1, HonestCall DEF StartUrgent, Begin, providerVars
<1>6. CASE PrepareUrgent(h)
  <2>1. PICK c \in {Idle, [op |-> "draft", alert |-> call[h].alert]} :
            call' = [call EXCEPT ![h] = c]
    BY <1>6 DEF PrepareUrgent, Return, Continue
  <2>2. c \in Call
    BY <1>6, <2>1, CallShape, CallType DEF PrepareUrgent
  <2> QED
    BY <1>6, <2>1, <2>2, HonestAlert DEF PrepareUrgent, Idle, providerVars
<1>7. ASSUME NEW text \in Draft, DraftUrgent(h, text)
      PROVE  Honest'
  <2>1. PICK c \in {Idle, [op |-> "check", alert |-> call[h].alert, text |-> text]} :
            call' = [call EXCEPT ![h] = c]
    BY <1>7 DEF DraftUrgent, Return, Continue
  <2>2. c \in Call
    BY <1>7, <2>1, CallShape, CallType DEF DraftUrgent, Text
  <2> QED
    BY <1>7, <2>1, <2>2, HonestCall DEF DraftUrgent, Idle, providerVars
<1> QED
  BY <1>2, <1>3, <1>4, <1>5, <1>6, <1>7 DEF Alerting

LEMMA HonestSending ==
    ASSUME TypeOK, Honest, NEW h \in Handler, Sending(h)
    PROVE  Honest'
<1>1. Idle \in Call
  BY CallType
<1>2. emails \subseteq emails' /\ whatsapps \subseteq whatsapps'
  BY ProvidersRemember DEF Next
<1>3. ASSUME NEW a \in Alert, NEW text \in Text, StartEmail(h, a, text)
      PROVE  Honest'
  <2>1. [op |-> "check", alert |-> a, text |-> text] \in Call
    BY CallType
  <2> QED
    BY <1>2, <1>3, <2>1, HonestCall DEF StartEmail, Begin
<1>4. CASE CheckAccepted(h)
  <2>1. PICK c \in {Idle, [call[h] EXCEPT !.op = "email"],
                    [op |-> "record", alert |-> call[h].alert, text |-> call[h].text,
                     status |-> "not_configured"]} :
            call' = [call EXCEPT ![h] = c]
    BY <1>4 DEF CheckAccepted, Return, Continue
  <2>2. call[h] \in Call /\ call[h].op = "check"
    BY <1>4 DEF CheckAccepted, TypeOK
  <2>3. c \in Call /\ c.op # "show" /\ (c.op = "record" => c.status # "live_sent")
    BY <2>1, <2>2 DEF Call, Idle, AttemptStatus
  <2> QED
    BY <1>2, <1>4, <2>1, <2>3, HonestCall DEF CheckAccepted
<1>5. ASSUME call[h].op \in {"email", "whatsapp"}, NEW status \in AttemptStatus,
             Answered(h, status), UNCHANGED <<outbox, attempts>>,
             status = "live_sent" =>
                IF call[h].text = WhatsApp THEN call[h].alert \in whatsapps'
                ELSE <<call[h].alert, call[h].text>> \in emails'
      PROVE  Honest'
  <2> DEFINE c == [op |-> "record", alert |-> call[h].alert, text |-> call[h].text,
                   status |-> status]
  <2>1. c \in Call
    BY <1>5, CallShape, CallType
  <2>2. call' = [call EXCEPT ![h] = c]
    BY <1>5 DEF Answered, Continue
  <2> QED
    BY <1>2, <1>5, <2>1, <2>2, HonestCall
<1>6. CASE EmailAccepted(h)
  <2>1. call[h].text # WhatsApp
    BY <1>6, CallShape, DraftAssumption DEF EmailAccepted, Text, WhatsApp, Template, Edited
  <2>2. /\ Answered(h, "live_sent") /\ UNCHANGED <<outbox, attempts>>
        /\ <<call[h].alert, call[h].text>> \in emails'
        /\ call[h].op \in {"email", "whatsapp"}
    BY <1>6 DEF EmailAccepted, Accept
  <2> QED
    BY <1>5, <2>1, <2>2 DEF AttemptStatus
<1>7. CASE CallRefused(h)
  BY <1>5, <1>7 DEF CallRefused, AttemptStatus
<1>8. CASE AnswerLost(h)
  BY <1>1, <1>2, <1>8, HonestCall DEF AnswerLost, Return, Continue, Idle
<1>9. CASE GiveUp(h)
  BY <1>1, <1>2, <1>9, HonestCall DEF GiveUp, Return, Continue, Idle
<1>10. CASE RecordEmail(h)
  <2>1. CASE call[h].alert \notin DOMAIN outbox
    BY <1>1, <1>2, <1>10, <2>1, HonestCall DEF RecordEmail, Return, Continue, Idle
  <2>2. CASE call[h].alert \in DOMAIN outbox
    <3> DEFINE c == IF /\ call[h].status = "live_sent"
                       /\ ~IsSent(<<call[h].alert, call[h].text>>)
                    THEN [op |-> "show", alert |-> call[h].alert, text |-> call[h].text]
                    ELSE Idle
    <3>1. call' = [call EXCEPT ![h] = c]
      BY <1>10, <2>2 DEF RecordEmail, Return, Continue
    <3>2. c \in Call
      BY <1>1, <1>10, CallShape, CallType DEF RecordEmail
    <3>3. /\ call[h].op = "record" /\ call[h].text # WhatsApp
          /\ attempts' = Put(attempts, <<call[h].alert, call[h].text>>,
                             RecordedStatus(<<call[h].alert, call[h].text>>, call[h].status))
          /\ UNCHANGED <<outbox, emails, whatsapps>>
      BY <1>10, <2>2 DEF RecordEmail, providerVars
    <3> QED
      BY <3>1, <3>2, <3>3, HonestRecord
  <2> QED
    BY <2>1, <2>2
<1>11. CASE ShowText(h)
  <2>1. <<call[h].alert, call[h].text>> \in emails
    BY <1>11 DEF ShowText, Honest, AcceptedInFlight
  <2>2. AcceptedInFlight'
    BY <1>11 DEF ShowText, Return, Continue, Idle, providerVars, Honest, AcceptedInFlight, TypeOK
  <2>3. SentIsAccepted'
    BY <1>11 DEF ShowText, providerVars, Honest, SentIsAccepted, IsSent
  <2>4. ShownTextWasSent'
    BY <1>11, <2>1 DEF ShowText, providerVars, Honest, ShownTextWasSent, TypeOK, Table
  <2> QED
    BY <2>2, <2>3, <2>4 DEF Honest
<1>12. ASSUME NEW a \in Alert, StartWhatsApp(h, a)
       PROVE  Honest'
  <2> DEFINE c == IF configured THEN [op |-> "whatsapp", alert |-> a, text |-> WhatsApp]
                  ELSE [op |-> "record", alert |-> a, text |-> WhatsApp,
                        status |-> "not_configured"]
  <2>1. c \in Call
    BY CallType DEF AttemptStatus
  <2>2. call' = [call EXCEPT ![h] = c] /\ UNCHANGED <<outbox, attempts>>
    BY <1>12 DEF StartWhatsApp, Begin
  <2> QED
    BY <1>2, <2>1, <2>2, HonestCall
<1>13. CASE WhatsAppAccepted(h)
  <2>1. call[h].text = WhatsApp /\ call[h].alert \in whatsapps'
    BY <1>13, CallShape DEF WhatsAppAccepted
  <2> QED
    BY <1>5, <1>13, <2>1 DEF WhatsAppAccepted, AttemptStatus
<1>14. CASE RecordWhatsApp(h)
  <2>1. CASE call[h].alert \notin DOMAIN outbox
    BY <1>1, <1>2, <1>14, <2>1, HonestCall DEF RecordWhatsApp, Return, Continue, Idle
  <2>2. CASE call[h].alert \in DOMAIN outbox
    BY <1>1, <1>14, <2>2, HonestRecord DEF RecordWhatsApp, Return, Continue, providerVars
  <2> QED
    BY <2>1, <2>2
<1> QED
  BY <1>3, <1>4, <1>6, <1>7, <1>8, <1>9, <1>10, <1>11, <1>12, <1>13, <1>14 DEF Sending

LEMMA HonestStep == TypeOK /\ Honest /\ [Next]_vars => Honest'
<1>1. ASSUME TypeOK, Honest, UNCHANGED vars PROVE Honest'
  <2>1. UNCHANGED <<outbox, attempts, emails, whatsapps, call>>
    BY <1>1 DEF vars, providerVars
  <2> QED
    BY <1>1, <2>1, HonestAside
<1>2. ASSUME TypeOK, Honest, Next PROVE Honest'
  BY <1>2, HonestEvidence, HonestAlerting, HonestSending DEF Next
<1> QED
  BY <1>1, <1>2

\* An attempt recorded as sent is one its provider accepted, whatever was
\* refused, lost, repeated or cut off by a crash or a new run.
THEOREM RecordedIsAccepted == Spec => []SentIsAccepted
<1>1. TypeOK /\ Honest => SentIsAccepted
  BY DEF Honest
<1> QED
  BY <1>1, TypeInit, HonestInit, TypeStep, HonestStep, PTL DEF Spec

\* A text other than the template is shown in the outbox only if the email
\* with it was accepted for that alert.
THEOREM ShownIsSent == Spec => []ShownTextWasSent
<1>1. TypeOK /\ Honest => ShownTextWasSent
  BY DEF Honest
<1> QED
  BY <1>1, TypeInit, HonestInit, TypeStep, HonestStep, PTL DEF Spec

-----------------------------------------------------------------------------
\* Accepted attempts stay recorded within a run

\* Within a run the attempts change only by the storing of an answer.
LEMMA AttemptsStep ==
    ASSUME TypeOK, Next, ~NewRun
    PROVE  \/ attempts' = attempts
           \/ \E h \in Handler :
                /\ call[h].alert \in DOMAIN outbox
                /\ attempts' = Put(attempts, <<call[h].alert, call[h].text>>,
                        RecordedStatus(<<call[h].alert, call[h].text>>, call[h].status))
<1>1. ASSUME NEW h \in Handler, RecordEmail(h) \/ RecordWhatsApp(h)
      PROVE  \/ attempts' = attempts
             \/ /\ call[h].alert \in DOMAIN outbox
                /\ attempts' = Put(attempts, <<call[h].alert, call[h].text>>,
                        RecordedStatus(<<call[h].alert, call[h].text>>, call[h].status))
  BY <1>1 DEF RecordEmail, RecordWhatsApp
<1>2. ASSUME NEW h \in Handler, Alerting(h) \/ Sending(h),
             ~RecordEmail(h), ~RecordWhatsApp(h)
      PROVE  attempts' = attempts
  BY <1>2 DEF Alerting, StartDispatch, ReadContact, DispatchOne, StartUrgent, PrepareUrgent,
              DraftUrgent, Sending, StartEmail, CheckAccepted, EmailAccepted, CallRefused,
              AnswerLost, GiveUp, ShowText, StartWhatsApp, WhatsAppAccepted
<1>3. ASSUME ~\E h \in Handler : Alerting(h) \/ Sending(h)
      PROVE  attempts' = attempts
  BY <1>3 DEF Next, Hour, Restart, RequestIntervention, DecideIntervention, SetIntervention,
              InvestigateAgain, AddContact, ReceiveReply
<1> QED
  BY <1>1, <1>2, <1>3

\* An attempt that is accepted in a given state of the table.
SentIn(table, key) == key \in DOMAIN table /\ table[key] = "live_sent"

LEMMA SentStays ==
    ASSUME TypeOK, Next, ~NewRun
    PROVE  \A k : SentIn(attempts, k) => SentIn(attempts', k)
<1>1. ASSUME NEW h \in Handler,
             attempts' = Put(attempts, <<call[h].alert, call[h].text>>,
                             RecordedStatus(<<call[h].alert, call[h].text>>, call[h].status))
      PROVE  \A k : SentIn(attempts, k) => SentIn(attempts', k)
  BY <1>1 DEF SentIn, IsSent, Put, RecordedStatus
<1> QED
  BY <1>1, AttemptsStep

\* Within a run no later answer, of whatever request, hides an accepted attempt.
THEOREM AcceptedStays == Spec => AcceptedStaysRecorded
<1>1. ASSUME TypeOK, [Next]_vars
      PROVE  [run' = run =>
                \A key \in DOMAIN attempts :
                    IsSent(key) => key \in DOMAIN attempts' /\ attempts'[key] = "live_sent"]_vars
  <2>1. CASE UNCHANGED vars
    BY <2>1
  <2>2. CASE NewRun
    BY <2>2 DEF NewRun, TypeOK
  <2>3. CASE Next /\ ~NewRun
    BY <1>1, <2>3, SentStays DEF IsSent, SentIn
  <2> QED
    BY <1>1, <2>1, <2>2, <2>3
<1> QED
  BY <1>1, TypeInit, TypeStep, PTL DEF Spec, AcceptedStaysRecorded

-----------------------------------------------------------------------------
\* Nothing refers to a row that is gone

\* The alert a reply would be attached to was sent by WhatsApp, and an urgent
\* email is prepared about a finding, not about an intervention.
UrgentAlert == {"finding"} \X {"engineering", "added"}
Linked ==
    /\ latest \in Alert => IsSent(<<latest, WhatsApp>>)
    /\ \A h \in Handler : call[h].op = "prepare" => call[h].alert \in UrgentAlert

IntegrityInv == NothingDangles /\ Linked

LEMMA UnlinkedIsNoAlert == Unlinked \notin Alert
BY DEF Unlinked, Alert, EventType, Rule

LEMMA IntegrityInit == Init => IntegrityInv
BY UnlinkedIsNoAlert
DEF Init, NoRows, Idle, IntegrityInv, NothingDangles, Linked, StepsAreReplies

\* Within a run alerts are only added, each about something that is stored.
LEMMA OutboxStep ==
    ASSUME TypeOK, IntegrityInv, Next, ~NewRun
    PROVE  /\ DOMAIN outbox \subseteq DOMAIN outbox'
           /\ DOMAIN intervention \subseteq DOMAIN intervention'
           /\ \A a \in DOMAIN outbox' : a[1] \in DOMAIN intervention \cup {"finding"}
<1>1. \A a \in DOMAIN outbox : a[1] \in DOMAIN intervention \cup {"finding"}
  BY DEF IntegrityInv, NothingDangles
<1>2. ASSUME NEW h \in Handler, DispatchOne(h)
      PROVE  /\ DOMAIN outbox \subseteq DOMAIN outbox' /\ UNCHANGED intervention
             /\ \A a \in DOMAIN outbox' : a[1] \in DOMAIN intervention \cup {"finding"}
  BY <1>1, <1>2 DEF DispatchOne, Put, evidenceVars
<1>3. ASSUME NEW h \in Handler, PrepareUrgent(h)
      PROVE  /\ DOMAIN outbox \subseteq DOMAIN outbox' /\ UNCHANGED intervention
             /\ \A a \in DOMAIN outbox' : a[1] \in DOMAIN intervention \cup {"finding"}
  BY <1>1, <1>3 DEF PrepareUrgent, Put, evidenceVars, IntegrityInv, Linked, UrgentAlert
<1>4. ASSUME NEW h \in Handler, ShowText(h)
      PROVE  DOMAIN outbox = DOMAIN outbox' /\ UNCHANGED intervention
  BY <1>4 DEF ShowText, evidenceVars
<1>5. ASSUME NEW h \in Handler, Alerting(h) \/ Sending(h),
             ~DispatchOne(h), ~PrepareUrgent(h), ~ShowText(h)
      PROVE  UNCHANGED <<outbox, intervention>>
  BY <1>5 DEF Alerting, StartDispatch, ReadContact, StartUrgent, DraftUrgent, Sending,
              StartEmail, CheckAccepted, EmailAccepted, CallRefused, AnswerLost, GiveUp,
              RecordEmail, StartWhatsApp, WhatsAppAccepted, RecordWhatsApp, evidenceVars
<1>6. ASSUME ~\E h \in Handler : Alerting(h) \/ Sending(h)
      PROVE  outbox' = outbox /\ DOMAIN intervention \subseteq DOMAIN intervention'
  BY <1>6 DEF Next, Hour, Restart, RequestIntervention, DecideIntervention, SetIntervention,
              InvestigateAgain, AddContact, ReceiveReply, evidenceVars, Put
<1> QED
  BY <1>1, <1>2, <1>3, <1>4, <1>5, <1>6

\* The alert last sent changes with the answer that makes it so.
LEMMA LatestStep ==
    ASSUME TypeOK, IntegrityInv, Next, ~NewRun
    PROVE  latest' \in Alert => SentIn(attempts', <<latest', WhatsApp>>)
<1>1. latest \in Alert => SentIn(attempts', <<latest, WhatsApp>>)
  BY SentStays DEF IntegrityInv, Linked, IsSent, SentIn
<1>2. ASSUME NEW h \in Handler, RecordWhatsApp(h), latest' # latest
      PROVE  SentIn(attempts', <<latest', WhatsApp>>)
  BY <1>2 DEF RecordWhatsApp, IsSent, SentIn, Put, RecordedStatus
<1>3. ASSUME NEW h \in Handler, Alerting(h) \/ Sending(h), ~RecordWhatsApp(h)
      PROVE  latest' = latest
  BY <1>3 DEF Alerting, StartDispatch, ReadContact, DispatchOne, StartUrgent, PrepareUrgent,
              DraftUrgent, Sending, StartEmail, CheckAccepted, EmailAccepted, CallRefused,
              AnswerLost, GiveUp, RecordEmail, ShowText, StartWhatsApp, WhatsAppAccepted
<1>4. ASSUME ~\E h \in Handler : Alerting(h) \/ Sending(h)
      PROVE  latest' = latest
  BY <1>4 DEF Next, Hour, Restart, RequestIntervention, DecideIntervention, SetIntervention,
              InvestigateAgain, AddContact, ReceiveReply
<1> QED
  BY <1>1, <1>2, <1>3, <1>4

\* A reply is stored once, with the alert last sent.
LEMMA RepliesStep ==
    ASSUME TypeOK, IntegrityInv, Next, ~NewRun
    PROVE  \A s \in DOMAIN replies' :
                replies'[s] \in Alert => SentIn(attempts', <<replies'[s], WhatsApp>>)
<1>1. \A s \in DOMAIN replies :
        replies[s] \in Alert => SentIn(attempts', <<replies[s], WhatsApp>>)
  BY SentStays DEF IntegrityInv, NothingDangles, IsSent, SentIn
<1>2. latest \in Alert => SentIn(attempts', <<latest, WhatsApp>>)
  BY SentStays DEF IntegrityInv, Linked, IsSent, SentIn
<1>3. ASSUME NEW s \in ReplySid, ReceiveReply(s)
      PROVE  \A r \in DOMAIN replies' :
                \/ r \in DOMAIN replies /\ replies'[r] = replies[r]
                \/ replies'[r] = latest
  BY <1>3 DEF ReceiveReply, Put
<1>4. ASSUME ~\E s \in ReplySid : ReceiveReply(s)
      PROVE  replies' = replies
  BY <1>4 DEF Next, Hour, Restart, RequestIntervention, DecideIntervention, SetIntervention,
              InvestigateAgain, AddContact, Alerting, StartDispatch, ReadContact, DispatchOne,
              StartUrgent, PrepareUrgent, DraftUrgent, Sending, StartEmail, CheckAccepted,
              EmailAccepted, CallRefused, AnswerLost, GiveUp, RecordEmail, ShowText,
              StartWhatsApp, WhatsAppAccepted, RecordWhatsApp, replyVars
<1> QED
  BY <1>1, <1>2, <1>3, <1>4

\* Replies in the trace are put there as they are stored.
LEMMA StepsStep == StepsAreReplies /\ [Next]_vars => StepsAreReplies'
<1> SUFFICES ASSUME StepsAreReplies, [Next]_vars PROVE StepsAreReplies'
  OBVIOUS
<1>1. ASSUME NEW s \in ReplySid, ReceiveReply(s)
      PROVE  StepsAreReplies'
  BY <1>1 DEF ReceiveReply, RecordReplyStep, Put, StepsAreReplies
<1>2. CASE NewRun
  BY <1>2 DEF NewRun, StepsAreReplies
<1>3. ASSUME NEW i \in Intervention, NEW e \in Evidence, InvestigateAgain(i, e)
      PROVE  StepsAreReplies'
  BY <1>3 DEF InvestigateAgain, StepsAreReplies
<1>4. CASE UNCHANGED replyVars
  BY <1>4 DEF replyVars, StepsAreReplies
<1> QED
  BY <1>1, <1>2, <1>3, <1>4
  DEF Next, vars, Hour, Restart, RequestIntervention, DecideIntervention, SetIntervention,
      AddContact, Alerting, StartDispatch, ReadContact, DispatchOne, StartUrgent,
      PrepareUrgent, DraftUrgent, Sending, StartEmail, CheckAccepted, EmailAccepted,
      CallRefused, AnswerLost, GiveUp, RecordEmail, ShowText, StartWhatsApp,
      WhatsAppAccepted, RecordWhatsApp

LEMMA PreparesStep ==
    ASSUME TypeOK, IntegrityInv, Next
    PROVE  \A h \in Handler : call'[h].op = "prepare" => call'[h].alert \in UrgentAlert
<1>1. \A h \in Handler : call[h].op = "prepare" => call[h].alert \in UrgentAlert
  BY DEF IntegrityInv, Linked
<1>2. ASSUME NEW h \in Handler, Alerting(h) \/ Sending(h)
      PROVE  \E c : /\ call' = [call EXCEPT ![h] = c]
                    /\ c.op = "prepare" => c.alert \in UrgentAlert
  <2>1. CASE Alerting(h)
    BY <2>1 DEF Alerting, StartDispatch, ReadContact, DispatchOne, StartUrgent, PrepareUrgent,
                DraftUrgent, Begin, Return, Continue, Idle, UrgentContact, UrgentAlert
  <2>2. CASE CheckAccepted(h)
    <3>1. call[h] \in Call /\ call[h].op = "check"
      BY <2>2 DEF CheckAccepted, TypeOK
    <3>2. [call[h] EXCEPT !.op = "email"].op = "email"
      BY <3>1 DEF Call
    <3> QED
      BY <2>2, <3>2 DEF CheckAccepted, Return, Continue, Idle
  <2>3. CASE Sending(h) /\ ~CheckAccepted(h)
    BY <2>3 DEF Sending, StartEmail, EmailAccepted, CallRefused, AnswerLost, GiveUp,
                RecordEmail, ShowText, StartWhatsApp, WhatsAppAccepted, RecordWhatsApp,
                Answered, Begin, Return, Continue, Idle
  <2> QED
    BY <1>2, <2>1, <2>2, <2>3
<1>3. ASSUME ~\E h \in Handler : Alerting(h) \/ Sending(h)
      PROVE  call' = call \/ call' = [h \in Handler |-> Idle]
  BY <1>3 DEF Next, NewRun, Hour, Restart, RequestIntervention, DecideIntervention,
              SetIntervention, InvestigateAgain, AddContact, ReceiveReply
<1> QED
  BY <1>1, <1>2, <1>3 DEF TypeOK, Idle

LEMMA IntegrityStep == TypeOK /\ IntegrityInv /\ [Next]_vars => IntegrityInv'
<1>0. IntegrityInv /\ [Next]_vars => StepsAreReplies'
  BY StepsStep DEF IntegrityInv, NothingDangles
<1>1. ASSUME TypeOK, IntegrityInv, UNCHANGED vars
      PROVE  IntegrityInv'
  BY <1>0, <1>1
  DEF vars, evidenceVars, replyVars, IntegrityInv, NothingDangles, Linked, IsSent
<1>2. ASSUME TypeOK, IntegrityInv, Next, NewRun
      PROVE  IntegrityInv'
  BY <1>0, <1>2, PreparesStep, UnlinkedIsNoAlert
  DEF NewRun, NoRows, IntegrityInv, NothingDangles, Linked
<1>3. ASSUME TypeOK, IntegrityInv, Next, ~NewRun
      PROVE  IntegrityInv'
  <2>1. \A key \in DOMAIN attempts' : key[1] \in DOMAIN outbox'
    <3>1. \A key \in DOMAIN attempts' :
            key \in DOMAIN attempts \/ key[1] \in DOMAIN outbox
      <4>1. ASSUME NEW h \in Handler, call[h].alert \in DOMAIN outbox,
                   NEW status, attempts' = Put(attempts, <<call[h].alert, call[h].text>>, status)
            PROVE  \A key \in DOMAIN attempts' :
                        key \in DOMAIN attempts \/ key[1] \in DOMAIN outbox
        BY <4>1 DEF Put
      <4> QED
        BY <1>3, <4>1, AttemptsStep
    <3> QED
      BY <1>3, <3>1, OutboxStep DEF IntegrityInv, NothingDangles
  <2>2. \A a \in DOMAIN outbox' : a[1] \in DOMAIN intervention' \cup {"finding"}
    BY <1>3, OutboxStep
  <2> QED
    BY <1>0, <1>3, <2>1, <2>2, LatestStep, RepliesStep, PreparesStep
    DEF IntegrityInv, NothingDangles, Linked, IsSent, SentIn
<1> QED
  BY <1>1, <1>2, <1>3

\* Whatever a new run deletes under requests in flight, an attempt has its
\* alert, an alert its intervention, a reply an alert that was sent, and a
\* trace replies about its intervention.
THEOREM Integrity == Spec => []NothingDangles
<1>1. TypeOK /\ IntegrityInv => NothingDangles
  BY DEF IntegrityInv
<1> QED
  BY <1>1, TypeInit, IntegrityInit, TypeStep, IntegrityStep, PTL DEF Spec

-----------------------------------------------------------------------------
\* Cooldowns

LEMMA CooldownInit == Init => CooldownHolds
BY DEF Init, NoRows, CooldownHolds, Unedited

\* Alerts stay where they are in time, unless they are new.
LEMMA CooldownKept ==
    ASSUME CooldownHolds, emails \subseteq emails',
           \A a \in DOMAIN outbox' : a[2] \in EventType =>
                a \in DOMAIN outbox /\ outbox'[a].at = outbox[a].at
    PROVE  CooldownHolds'
BY DEF CooldownHolds, Unedited

LEMMA CooldownDispatch ==
    ASSUME TypeOK, ShownTextWasSent, CooldownHolds, NEW h \in Handler, DispatchOne(h)
    PROVE  CooldownHolds'
<1> DEFINE alert == call[h].alert
           now == call[h].at
           row == [text |-> Template, at |-> now]
<1>1. emails' = emails
  BY DEF DispatchOne, providerVars
<1>2. CASE outbox' = outbox
  BY <1>1, <1>2, CooldownKept
<1>3. CASE outbox' # outbox
  <2>1. /\ outbox' = Put(outbox, alert, row)
        /\ alert \notin DOMAIN outbox /\ ~InCooldown(alert, now)
    BY <1>3 DEF DispatchOne
  <2>2. now \in Nat /\ \A a \in DOMAIN outbox : outbox[a].at \in Nat
    BY CallShape DEF DispatchOne, TypeOK, Table
  <2>3. /\ DOMAIN outbox' = DOMAIN outbox \cup {alert}
        /\ outbox'[alert].at = now
        /\ \A a \in DOMAIN outbox : outbox'[a] = outbox[a]
    <3> HIDE DEF alert, now
    <3> QED
      BY <2>1 DEF Put
  <2>4. \A a \in EventType : Rule[a].cooldown \in Nat
    BY DEF EventType, Rule
  <2>5. ASSUME NEW a \in Unedited, a[2] = alert[2]
        PROVE  now - outbox[a].at >= Rule[alert[2]].cooldown
    <3>1. a \in DOMAIN outbox /\ outbox[a].text # Edited
      BY <2>5 DEF Unedited, ShownTextWasSent, Edited, Template
    <3>2. ~(now - outbox[a].at < Rule[alert[2]].cooldown)
      BY <2>1, <2>5, <3>1 DEF InCooldown
    <3>3. alert[2] \in EventType
      BY <2>5 DEF Unedited
    <3> HIDE DEF alert, now
    <3> QED
      BY <2>2, <2>4, <3>1, <3>2, <3>3
  <2>6. Unedited' \subseteq Unedited \cup {alert}
    BY <1>1, <2>3 DEF Unedited
  <2> HIDE DEF alert, now
  <2>7. ASSUME NEW a \in Unedited', NEW b \in Unedited', a # b, a[2] = b[2],
               outbox'[a].at <= outbox'[b].at
        PROVE  outbox'[b].at - outbox'[a].at >= Rule[a[2]].cooldown
    <3>1. a[2] \in EventType
      BY <2>7 DEF Unedited
    <3>2. \A c \in Unedited : c \in DOMAIN outbox
      BY DEF Unedited
    <3>3. CASE a \in Unedited /\ b \in Unedited
      BY <2>3, <2>7, <3>2, <3>3 DEF CooldownHolds
    <3>4. CASE a \in Unedited /\ b = alert
      BY <2>3, <2>5, <2>7, <3>2, <3>4
    <3>5. CASE a = alert /\ b \in Unedited
      <4>1. now - outbox[b].at >= Rule[a[2]].cooldown /\ now <= outbox[b].at
        BY <2>3, <2>5, <2>7, <3>2, <3>5
      <4>2. Rule[a[2]].cooldown \in Nat /\ outbox[b].at \in Nat /\ now \in Nat
        BY <2>2, <2>4, <3>1, <3>2, <3>5
      <4>3. outbox[b].at - now >= Rule[a[2]].cooldown
        BY <4>1, <4>2
      <4> QED
        BY <2>3, <3>2, <3>5, <4>3
    <3> QED
      BY <2>6, <2>7, <3>3, <3>4, <3>5
  <2> QED
    BY <2>7 DEF CooldownHolds
<1> QED
  BY <1>2, <1>3

LEMMA CooldownStep ==
    TypeOK /\ IntegrityInv /\ ShownTextWasSent /\ CooldownHolds /\ [Next]_vars => CooldownHolds'
<1> SUFFICES ASSUME TypeOK, IntegrityInv, ShownTextWasSent, CooldownHolds, [Next]_vars
             PROVE  CooldownHolds'
  OBVIOUS
<1>1. emails \subseteq emails'
  BY ProvidersRemember
<1>2. CASE UNCHANGED vars \/ NewRun
  BY <1>1, <1>2, CooldownKept DEF vars, NewRun, NoRows
<1>3. ASSUME NEW h \in Handler, DispatchOne(h)
      PROVE  CooldownHolds'
  BY <1>3, CooldownDispatch
<1>4. ASSUME NEW h \in Handler, PrepareUrgent(h)
      PROVE  CooldownHolds'
  <2>1. call[h].alert[2] \notin EventType
    BY <1>4 DEF PrepareUrgent, IntegrityInv, Linked, UrgentAlert, EventType, Rule
  <2> QED
    BY <1>1, <1>4, <2>1, CooldownKept DEF PrepareUrgent, Put
<1>5. ASSUME NEW h \in Handler, ShowText(h)
      PROVE  CooldownHolds'
  <2>1. \A a \in DOMAIN outbox' : a \in DOMAIN outbox /\ outbox'[a].at = outbox[a].at
    <3>1. \A a \in DOMAIN outbox : outbox[a] \in OutboxRow
      BY DEF TypeOK, Table, OutboxRow
    <3> QED
      BY <1>5, <3>1 DEF ShowText, OutboxRow
  <2> QED
    BY <1>1, <2>1, CooldownKept
<1>6. CASE Next /\ ~NewRun /\ ~\E h \in Handler : DispatchOne(h) \/ PrepareUrgent(h) \/ ShowText(h)
  <2>1. outbox' = outbox
    BY <1>6 DEF Next, Hour, Restart, RequestIntervention, DecideIntervention, SetIntervention,
              InvestigateAgain, AddContact, ReceiveReply, Alerting, StartDispatch, ReadContact,
              StartUrgent, DraftUrgent, Sending, StartEmail, CheckAccepted, EmailAccepted,
              CallRefused, AnswerLost, GiveUp, RecordEmail, StartWhatsApp, WhatsAppAccepted,
              RecordWhatsApp
  <2> QED
    BY <1>1, <2>1, CooldownKept
<1> QED
  BY <1>2, <1>3, <1>4, <1>5, <1>6

\* Concurrent dispatches keep the cooldown of their rule, although each reads
\* the clock before its transaction.
THEOREM Cooldown == Spec => []CooldownHolds
<1>1. Honest => ShownTextWasSent
  BY DEF Honest
<1> QED
  BY <1>1, TypeInit, HonestInit, IntegrityInit, CooldownInit, TypeStep, HonestStep,
     IntegrityStep, CooldownStep, PTL DEF Spec
=============================================================================
