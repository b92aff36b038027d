------------------------ MODULE CustomerRecovery_proofs ------------------------
(***************************************************************************)
(* Proofs about CustomerRecovery, for up to three recipients, any worker   *)
(* threads, and any number of demo runs and messages.                      *)
(***************************************************************************)
EXTENDS CustomerRecovery, SequenceTheorems, TLAPS

By == {"approval", "follow_up", "retry"}

-----------------------------------------------------------------------------
\* The first of the recipients that are left is one of them.
LEMMA FirstIsLeft ==
    ASSUME NEW todo \in SUBSET Recipient, todo # {}
    PROVE  First(todo) \in todo
<1>1. Recipient \subseteq {1, 2, 3}
  BY RecoveryAssumption DEF Recipient
<1>2. \E r \in todo : \A q \in todo : r <= q
  <2>1. CASE 1 \in todo
    BY <1>1, <2>1
  <2>2. CASE 1 \notin todo /\ 2 \in todo
    BY <1>1, <2>2
  <2>3. CASE 1 \notin todo /\ 2 \notin todo
    <3>1. \A r \in todo : r = 3
      BY <1>1, <2>3
    <3>2. 3 \in todo
      BY <3>1
    <3>3. \A q \in todo : 3 <= q
      BY <3>1
    <3> QED
      BY <3>2, <3>3
  <2> QED
    BY <2>1, <2>2, <2>3
<1> QED
  BY <1>2 DEF First

\* What a thread knows, by what it is doing.
LEMMA CallFields ==
    ASSUME NEW c \in Call
    PROVE  /\ c.op \in {"draft", "approve", "send", "record_sent", "follow_up",
                        "record_follow_up"} => c.todo \in SUBSET Recipient
           /\ c.op \in {"draft", "follow_up", "record_follow_up"} => c.link \in Link
           /\ c.op \in {"approve", "send", "record_sent"} =>
                  c.bodies \in [Recipient -> Draft]
           /\ c.op \in {"record_sent", "record_follow_up", "check", "resend",
                        "record_retry"} => c.to \in Recipient
           /\ c.op \in {"record_sent", "check", "record_retry"} => c.sid \in Sid
           /\ c.op \in {"check", "resend"} => c.body \in Draft
BY DEF Call

-----------------------------------------------------------------------------
\* What Twilio has accepted grows: a message keeps its origin and its link, and
\* one reported failed stays so.

Grows ==
    \A r \in Recipient :
        /\ Len(accepted[r]) <= Len(accepted'[r])
        /\ \A i \in 1..Len(accepted[r]) :
            /\ accepted'[r][i].by = accepted[r][i].by
            /\ accepted'[r][i].link = accepted[r][i].link
            /\ accepted[r][i].failed => accepted'[r][i].failed

AcceptedType == accepted \in [Recipient -> Seq(Message)]

LEMMA Accepting ==
    ASSUME AcceptedType, NEW r \in Recipient, NEW by \in By, NEW link \in Draft,
           Accept(r, by, link)
    PROVE  /\ AcceptedType' /\ Grows
           /\ NextSid(r) \in Sid
           /\ Len(accepted'[r]) = NextSid(r)
           /\ accepted'[r][NextSid(r)].by = by
           /\ accepted'[r][NextSid(r)].link = link
           /\ \A q \in Recipient \ {r} : accepted'[q] = accepted[q]
           /\ \A i \in 1..Len(accepted[r]) : accepted'[r][i] = accepted[r][i]
<1> DEFINE m == [by |-> by, link |-> link, failed |-> FALSE]
<1>1. m \in Message /\ m.by = by /\ m.link = link
  BY DEF Message, By
<1>2. accepted[r] \in Seq(Message) /\ Len(accepted[r]) \in Nat
  BY DEF AcceptedType
<1>3. accepted' = [accepted EXCEPT ![r] = Append(accepted[r], m)]
  BY DEF Accept
<1> HIDE DEF m
<1>4. /\ Append(accepted[r], m) \in Seq(Message)
      /\ Len(Append(accepted[r], m)) = Len(accepted[r]) + 1
      /\ \A i \in 1..Len(accepted[r]) : Append(accepted[r], m)[i] = accepted[r][i]
      /\ Append(accepted[r], m)[Len(accepted[r]) + 1] = m
  BY <1>1, <1>2, AppendProperties
<1>5. /\ accepted' \in [Recipient -> Seq(Message)]
      /\ accepted'[r] = Append(accepted[r], m)
      /\ \A q \in Recipient \ {r} : accepted'[q] = accepted[q]
  BY <1>3, <1>4 DEF AcceptedType
<1>6. /\ Len(accepted'[r]) = NextSid(r)
      /\ accepted'[r][NextSid(r)] = m
      /\ \A i \in 1..Len(accepted[r]) : accepted'[r][i] = accepted[r][i]
  BY <1>4, <1>5 DEF NextSid
<1>7. NextSid(r) = Len(accepted[r]) + 1
  BY DEF NextSid
<1>8. NextSid(r) \in Sid
  BY <1>2, <1>7 DEF Sid
<1>9. AcceptedType'
  BY <1>5 DEF AcceptedType
<1>10. Grows
  <2> SUFFICES ASSUME NEW q \in Recipient
      PROVE  /\ Len(accepted[q]) <= Len(accepted'[q])
             /\ \A i \in 1..Len(accepted[q]) : accepted'[q][i] = accepted[q][i]
    BY DEF Grows
  <2>1. Len(accepted[q]) \in Nat
    BY DEF AcceptedType
  <2>2. CASE q = r
    BY <1>2, <1>6, <1>7, <2>2
  <2>3. CASE q # r
    BY <1>5, <2>1, <2>3
  <2> QED
    BY <2>2, <2>3
<1> QED
  BY <1>1, <1>5, <1>6, <1>8, <1>9, <1>10

LEMMA ReportingFailed ==
    ASSUME AcceptedType, NEW r \in Recipient, NEW i \in 1..Len(accepted[r]), ReportFailed(r, i)
    PROVE  /\ AcceptedType' /\ Grows
           /\ \A q \in Recipient : Len(accepted'[q]) = Len(accepted[q])
<1> DEFINE m == [accepted[r][i] EXCEPT !.failed = TRUE]
           s == [accepted[r] EXCEPT ![i] = m]
<1>1. accepted[r] \in Seq(Message) /\ i \in 1..Len(accepted[r])
  BY DEF AcceptedType
<1>2. accepted[r][i] \in Message
  BY <1>1
<1>3. /\ m \in Message /\ m.failed
      /\ m.by = accepted[r][i].by /\ m.link = accepted[r][i].link
  BY <1>2 DEF Message
<1>4. accepted' = [accepted EXCEPT ![r] = s]
  BY DEF ReportFailed
<1> HIDE DEF m
<1>5. /\ s \in Seq(Message) /\ Len(s) = Len(accepted[r])
      /\ \A j \in 1..Len(accepted[r]) : s[j] = IF j = i THEN m ELSE accepted[r][j]
  BY <1>1, <1>3, ExceptSeq
<1> HIDE DEF s
<1>6. accepted' \in [Recipient -> Seq(Message)] /\ accepted'[r] = s
      /\ \A q \in Recipient \ {r} : accepted'[q] = accepted[q]
  BY <1>4, <1>5 DEF AcceptedType
<1>7. \A q \in Recipient : Len(accepted'[q]) = Len(accepted[q])
  BY <1>5, <1>6
<1>8. AcceptedType'
  BY <1>6, <1>7 DEF AcceptedType
<1>9. Grows
  <2> SUFFICES ASSUME NEW q \in Recipient
      PROVE  \A j \in 1..Len(accepted[q]) :
                /\ accepted'[q][j].by = accepted[q][j].by
                /\ accepted'[q][j].link = accepted[q][j].link
                /\ accepted[q][j].failed => accepted'[q][j].failed
    <3>1. \A q \in Recipient : Len(accepted[q]) \in Nat
      BY DEF AcceptedType
    <3> QED
      BY <1>7, <3>1 DEF Grows
  <2>1. CASE q = r
    BY <1>3, <1>5, <1>6, <2>1
  <2>2. CASE q # r
    BY <1>6, <2>2
  <2> QED
    BY <2>1, <2>2
<1> QED
  BY <1>7, <1>8, <1>9

-----------------------------------------------------------------------------
\* Between reading and writing, a thread keeps what it has been told by Twilio:
\* a sid it will record is a message's, a customer it follows up has been
\* contacted, one it sends to again has a message that failed.

Failed(r) == \E j \in 1..Len(accepted[r]) : accepted[r][j].failed

CallBacked(c) ==
    /\ c.op \in {"draft", "approve", "send", "record_sent", "follow_up",
                 "record_follow_up"} => c.todo # {}
    /\ c.op \in {"record_sent", "check", "record_retry"} => c.sid <= Len(accepted[c.to])
    /\ c.op \in {"follow_up", "record_follow_up"} =>
           \A r \in c.todo : Len(accepted[r]) > 0
    /\ c.op = "resend" => Failed(c.to)

RowsBacked ==
    \A r \in Recipient :
        /\ recipient[r].sid <= Len(accepted[r])
        /\ recipient[r].due # "none" => Len(accepted[r]) > 0

Backed ==
    /\ RowsBacked
    /\ \A h \in Handler : CallBacked(call[h])

\* Messages are never taken back, so what was backed stays so.
LEMMA StaysBacked ==
    ASSUME AcceptedType, AcceptedType', Grows, NEW c \in Call, CallBacked(c)
    PROVE  CallBacked(c)'
<1>1. \A r \in Recipient : Len(accepted[r]) \in Nat /\ Len(accepted'[r]) \in Nat
  BY DEF AcceptedType
<1>2. c.op \in {"record_sent", "check", "record_retry"} =>
          c.sid \in Nat /\ c.to \in Recipient /\ c.sid <= Len(accepted'[c.to])
  BY <1>1, CallFields DEF CallBacked, Grows, Sid
<1>3. c.op \in {"follow_up", "record_follow_up"} =>
          \A r \in c.todo : Len(accepted'[r]) > 0
  BY <1>1, CallFields DEF CallBacked, Grows
<1>4. c.op = "resend" => Failed(c.to)'
  <2> SUFFICES ASSUME c.op = "resend"
      PROVE  \E j \in 1..Len(accepted'[c.to]) : accepted'[c.to][j].failed
    BY DEF Failed
  <2>1. c.to \in Recipient
    BY CallFields
  <2>2. PICK j \in 1..Len(accepted[c.to]) : accepted[c.to][j].failed
    BY DEF CallBacked, Failed
  <2> QED
    BY <1>1, <2>1, <2>2 DEF Grows
<1> QED
  BY <1>2, <1>3, <1>4 DEF CallBacked

\* A thread that begins or goes on leaves the others as they are.
LEMMA OneGoesOn ==
    ASSUME TypeOK, \A g \in Handler : CallBacked(call[g]), AcceptedType', Grows,
           NEW h \in Handler, NEW c \in Call, CallBacked(c)', Continue(h, c)
    PROVE  /\ call' \in [Handler -> Call]
           /\ \A g \in Handler : CallBacked(call[g])'
           /\ call'[h] = c /\ \A g \in Handler \ {h} : call'[g] = call[g]
<1>1. call' \in [Handler -> Call] /\ call'[h] = c
      /\ \A g \in Handler \ {h} : call'[g] = call[g]
  BY DEF TypeOK, Continue
<1>2. AcceptedType
  BY DEF TypeOK, AcceptedType
<1>3. ASSUME NEW g \in Handler, g # h PROVE CallBacked(call[g])'
  <2>1. \A d \in Call : CallBacked(d) => CallBacked(d)'
    BY <1>2, StaysBacked
  <2>2. \A d : CallBacked(d)' /\ d = call'[g] => CallBacked(call[g])'
    BY DEF CallBacked, Failed
  <2> QED
    BY <1>1, <1>3, <2>1, <2>2 DEF TypeOK
<1>4. \A d : CallBacked(d)' /\ d = call'[h] => CallBacked(call[h])'
  BY DEF CallBacked, Failed
<1> QED
  BY <1>1, <1>3, <1>4

LEMMA NothingAccepted ==
    ASSUME TypeOK, UNCHANGED accepted
    PROVE  AcceptedType /\ AcceptedType' /\ Grows
<1>1. \A r \in Recipient : Len(accepted[r]) \in Nat
  BY DEF TypeOK
<1> QED
  BY <1>1 DEF TypeOK, AcceptedType, Grows

\* A row is written in place or, when a new run has deleted it, not at all.
LEMMA RowWritten ==
    ASSUME TypeOK, NEW r \in Recipient, NEW row, UpdateRow(r, row),
           recipient[r] # NoRow => row \in Row
    PROVE  /\ recipient' \in [Recipient -> Row \cup {NoRow}]
           /\ \A q \in Recipient : (recipient'[q] = NoRow) <=> (recipient[q] = NoRow)
           /\ \A q \in Recipient \ {r} : recipient'[q] = recipient[q]
           /\ recipient'[r] = IF recipient[r] = NoRow THEN NoRow ELSE row
<1>1. NoRow \notin Row
  BY DEF NoRow, Row
<1>2. CASE recipient[r] = NoRow
  BY <1>2 DEF UpdateRow, TypeOK
<1>3. CASE recipient[r] # NoRow
  BY <1>1, <1>3 DEF UpdateRow, TypeOK
<1> QED
  BY <1>2, <1>3

\* TypeOK and Backed are inductive together.
Kept == TypeOK /\ Backed

\* What is left to show of a step that changes neither messages nor rows.
LEMMA OnlyTheCall ==
    ASSUME Kept, NEW h \in Handler, NEW c \in Call, CallBacked(c), Continue(h, c),
           UNCHANGED <<run, investigation, recipient, accepted>>,
           batch' \in {Absent, "draft", "approved", "sent"},
           (batch' = Absent) <=> (batch = Absent), refused' \subseteq Recipient
    PROVE  Kept'
<1>1. AcceptedType /\ AcceptedType' /\ Grows
  BY NothingAccepted DEF Kept
<1>2. CallBacked(c)'
  BY <1>1, StaysBacked
<1>3. call' \in [Handler -> Call] /\ \A g \in Handler : CallBacked(call[g])'
  BY <1>1, <1>2, OneGoesOn DEF Kept, Backed
<1>4. TypeOK'
  BY <1>3 DEF Kept, TypeOK
<1>5. RowsBacked'
  BY DEF Kept, Backed, RowsBacked
<1> QED
  BY <1>3, <1>4, <1>5 DEF Kept, Backed

\* ... and of one that writes a row.
LEMMA CallAndRow ==
    ASSUME Kept, NEW h \in Handler, NEW c \in Call, CallBacked(c), Continue(h, c),
           UNCHANGED <<run, investigation, batch, accepted, refused>>,
           NEW r \in Recipient, NEW row, UpdateRow(r, row),
           recipient[r] # NoRow =>
               /\ row \in Row
               /\ row.sid <= Len(accepted[r])
               /\ row.due # "none" => Len(accepted[r]) > 0
    PROVE  Kept'
<1>1. AcceptedType /\ AcceptedType' /\ Grows
  BY NothingAccepted DEF Kept
<1>2. CallBacked(c)'
  BY <1>1, StaysBacked
<1>3. call' \in [Handler -> Call] /\ \A g \in Handler : CallBacked(call[g])'
  BY <1>1, <1>2, OneGoesOn DEF Kept, Backed
<1>4. /\ recipient' \in [Recipient -> Row \cup {NoRow}]
      /\ \A q \in Recipient : (recipient'[q] = NoRow) <=> (recipient[q] = NoRow)
      /\ \A q \in Recipient \ {r} : recipient'[q] = recipient[q]
      /\ recipient'[r] = IF recipient[r] = NoRow THEN NoRow ELSE row
  BY RowWritten DEF Kept
<1>5. TypeOK'
  BY <1>3, <1>4 DEF Kept, TypeOK
<1>6. RowsBacked'
  BY <1>4 DEF Kept, Backed, RowsBacked
<1> QED
  BY <1>3, <1>5, <1>6 DEF Kept, Backed

\* ... and of one in which Twilio accepts a message.
LEMMA CallAndMessage ==
    ASSUME Kept, NEW h \in Handler, NEW c \in Call, Continue(h, c), CallBacked(c)',
           UNCHANGED <<run, Tables, refused>>, AcceptedType', Grows
    PROVE  Kept'
<1>1. call' \in [Handler -> Call] /\ \A g \in Handler : CallBacked(call[g])'
  BY OneGoesOn DEF Kept, Backed
<1>2. TypeOK'
  BY <1>1 DEF Kept, TypeOK, AcceptedType, Tables
<1>3. RowsBacked'
  <2>1. \A r \in Recipient : Len(accepted[r]) \in Nat /\ Len(accepted'[r]) \in Nat
    BY DEF AcceptedType, Kept, TypeOK
  <2>2. \A r \in Recipient : recipient[r].sid \in Nat
    BY DEF Kept, TypeOK, Row, NoRow, Sid
  <2> QED
    BY <2>1, <2>2 DEF Kept, Backed, RowsBacked, Grows, Tables
<1> QED
  BY <1>1, <1>2, <1>3 DEF Kept, Backed

-----------------------------------------------------------------------------
LEMMA IdleCall == Idle \in Call /\ CallBacked(Idle)
BY DEF Idle, Call, CallBacked

LEMMA Kinds == ASSUME Kept PROVE  /\ AcceptedType /\ call \in [Handler -> Call]
                                  /\ \A h \in Handler : call[h] \in Call /\ CallBacked(call[h])
BY DEF Kept, TypeOK, AcceptedType, Backed

LEMMA InitKept == Init => Kept
<1> SUFFICES ASSUME Init PROVE Kept
  OBVIOUS
<1>1. call \in [Handler -> Call] /\ \A h \in Handler : CallBacked(call[h])
  <2>1. \A h \in Handler : call[h] = Idle
    BY DEF Init
  <2>2. \A d : CallBacked(d) => \A h \in Handler : d = call[h] => CallBacked(call[h])
    BY DEF CallBacked, Failed
  <2> QED
    BY <2>1, <2>2, IdleCall DEF Init
<1>2. /\ accepted \in [Recipient -> Seq(Message)]
      /\ \A r \in Recipient : Len(accepted[r]) = 0
  BY EmptySeq DEF Init
<1>3. TypeOK
  BY <1>1, <1>2, RecoveryAssumption DEF Init, TypeOK
<1>4. RowsBacked
  BY <1>2 DEF Init, RowsBacked, NoRow
<1> QED
  BY <1>1, <1>3, <1>4 DEF Kept, Backed

\* prepare_batch
LEMMA StartPrepareKeeps ==
    ASSUME Kept, NEW h \in Handler, StartPrepare(h)
    PROVE  Kept'
<1> DEFINE c == [op |-> "prepare"]
<1>1. c \in Call /\ CallBacked(c) /\ Continue(h, c)
  BY DEF Call, CallBacked, StartPrepare, Begin, Continue
<1> QED
  BY <1>1, OnlyTheCall DEF StartPrepare, Tables, Provider, Kept, TypeOK

LEMMA InsertBatchKeeps ==
    ASSUME Kept, NEW h \in Handler, InsertBatch(h)
    PROVE  Kept'
<1> DEFINE c == [op |-> "read_drafts"]
<1>1. c \in Call /\ CallBacked(c)
  BY DEF Call, CallBacked
<1>2. CASE batch # Absent
  <2>1. Continue(h, c) /\ UNCHANGED <<batch, recipient>>
    BY <1>2 DEF InsertBatch
  <2> QED
    BY <1>1, <2>1, OnlyTheCall DEF InsertBatch, Provider, Kept, TypeOK
<1>3. CASE batch = Absent /\ investigation = Absent
  <2>1. Continue(h, Idle) /\ UNCHANGED <<batch, recipient>>
    BY <1>3 DEF InsertBatch, Return, Continue
  <2> QED
    BY <2>1, IdleCall, OnlyTheCall DEF InsertBatch, Provider, Kept, TypeOK
<1>4. CASE batch = Absent /\ investigation # Absent
  <2> DEFINE row == [NoRow EXCEPT !.status = "draft", !.link = run]
  <2>1. /\ Continue(h, c) /\ batch' = "draft"
        /\ recipient' = [r \in Recipient |-> row]
        /\ UNCHANGED <<run, investigation, accepted, refused>>
    BY <1>4 DEF InsertBatch, Provider
  <2>2. row \in Row /\ row # NoRow /\ row.sid = 0 /\ row.due = "none"
    <3>1. run \in Link
      BY DEF Kept, TypeOK, Link
    <3> QED
      BY <3>1 DEF NoRow, Row, NoLink, Draft
  <2> HIDE DEF row
  <2>3. AcceptedType /\ AcceptedType' /\ Grows
    BY <2>1, NothingAccepted DEF Kept
  <2>4. CallBacked(c)'
    BY <1>1, <2>3, StaysBacked
  <2>5. call' \in [Handler -> Call] /\ \A g \in Handler : CallBacked(call[g])'
    BY <1>1, <2>1, <2>3, <2>4, OneGoesOn DEF Kept, Backed
  <2>6. TypeOK'
    BY <2>1, <2>2, <2>5 DEF Kept, TypeOK, Absent
  <2>7. RowsBacked'
    BY <2>1, <2>2, <2>3 DEF RowsBacked, AcceptedType
  <2> QED
    BY <2>5, <2>6, <2>7 DEF Kept, Backed
<1> QED
  BY <1>2, <1>3, <1>4

LEMMA ReadDraftsKeeps ==
    ASSUME Kept, NEW h \in Handler, ReadDrafts(h)
    PROVE  Kept'
<1> DEFINE todo == {r \in Recipient : recipient[r] # NoRow /\ recipient[r].body = NoLink}
           c == [op |-> "draft", todo |-> todo, link |-> run]
<1>1. CASE todo = {}
  <2>1. Continue(h, Idle)
    BY <1>1 DEF ReadDrafts, Return, Continue
  <2> QED
    BY <2>1, IdleCall, OnlyTheCall DEF ReadDrafts, Tables, Provider, Kept, TypeOK
<1>2. CASE todo # {}
  <2>1. Continue(h, c)
    BY <1>2 DEF ReadDrafts
  <2>2. c \in Call /\ CallBacked(c)
    BY <1>2 DEF Call, CallBacked, Kept, TypeOK, Link
  <2> QED
    BY <2>1, <2>2, OnlyTheCall DEF ReadDrafts, Tables, Provider, Kept, TypeOK
<1> QED
  BY <1>1, <1>2

LEMMA DraftMessageKeeps ==
    ASSUME Kept, NEW h \in Handler, DraftMessage(h)
    PROVE  Kept'
<1> DEFINE c == call[h]
           r == First(c.todo)
           row == [recipient[r] EXCEPT !.body = c.link]
<1>1. /\ c \in Call /\ CallBacked(c) /\ c.op = "draft"
      /\ c.todo \in SUBSET Recipient /\ c.todo # {} /\ c.link \in Link
  <2>1. c \in Call /\ CallBacked(c) /\ c.op = "draft"
    BY Kinds DEF DraftMessage
  <2> QED
    BY <2>1, CallFields DEF CallBacked
<1>2. r \in c.todo /\ r \in Recipient
  BY <1>1, FirstIsLeft
<1>3. recipient[r] # NoRow =>
          row \in Row /\ row.sid = recipient[r].sid /\ row.due = recipient[r].due
  BY <1>1, <1>2 DEF Kept, TypeOK, Row, Draft
<1>4. PICK d \in Call : CallBacked(d) /\ Continue(h, d)
  <2>1. CASE c.todo = {r}
    BY <2>1, IdleCall DEF DraftMessage, Return, Continue
  <2>2. CASE c.todo # {r}
    <3> DEFINE d == [op |-> "draft", todo |-> c.todo \ {r}, link |-> c.link]
    <3>1. [c EXCEPT !.todo = @ \ {r}] = d
      BY <1>1 DEF Call
    <3>2. d \in Call /\ CallBacked(d)
      BY <1>1, <1>2, <2>2 DEF Call, CallBacked
    <3> QED
      BY <2>2, <3>1, <3>2 DEF DraftMessage
  <2> QED
    BY <2>1, <2>2
<1>5. UpdateRow(r, row) /\ UNCHANGED <<run, investigation, batch, accepted, refused>>
  BY DEF DraftMessage, Provider
<1>6. recipient[r].sid <= Len(accepted[r]) /\ (recipient[r].due # "none" => Len(accepted[r]) > 0)
  BY <1>2 DEF Kept, Backed, RowsBacked
<1> HIDE DEF row, r, c
<1> QED
  BY <1>2, <1>3, <1>4, <1>5, <1>6, CallAndRow

-----------------------------------------------------------------------------
\* approve_and_send_batch
LEMMA Sending ==
    ASSUME Kept, NEW h \in Handler, call[h].op \in {"approve", "send", "record_sent"}
    PROVE  /\ call[h].todo \in SUBSET Recipient /\ call[h].todo # {}
           /\ call[h].bodies \in [Recipient -> Draft]
           /\ First(call[h].todo) \in call[h].todo
<1>1. call[h] \in Call /\ CallBacked(call[h])
  BY Kinds
<1>2. call[h].todo \in SUBSET Recipient /\ call[h].todo # {}
      /\ call[h].bodies \in [Recipient -> Draft]
  BY <1>1, CallFields DEF CallBacked
<1> QED
  BY <1>2, FirstIsLeft

LEMMA RemainingKind ==
    ASSUME Kept, NEW h \in Handler, call[h].op \in {"send", "record_sent"}, NEW r \in Recipient
    PROVE  Remaining(h, r) \in Call /\ CallBacked(Remaining(h, r))
<1>1. /\ call[h].todo \in SUBSET Recipient /\ call[h].todo # {}
      /\ call[h].bodies \in [Recipient -> Draft]
  BY Sending
<1>2. CASE call[h].todo = {r}
  BY <1>2 DEF Remaining, Call, CallBacked
<1>3. CASE call[h].todo # {r}
  <2> DEFINE c == [op |-> "send", todo |-> call[h].todo \ {r}, bodies |-> call[h].bodies]
  <2>1. c \in Call /\ CallBacked(c)
    BY <1>1, <1>3 DEF Call, CallBacked
  <2> QED
    BY <1>3, <2>1 DEF Remaining
<1> QED
  BY <1>2, <1>3

LEMMA StartApprovalKeeps ==
    ASSUME Kept, NEW h \in Handler, StartApproval(h)
    PROVE  Kept'
<1> DEFINE c == [op |-> "approve", todo |-> Recipient,
                 bodies |-> [r \in Recipient |-> recipient[r].body]]
<1>1. [r \in Recipient |-> recipient[r].body] \in [Recipient -> Draft]
  BY DEF Kept, TypeOK, Row, NoRow, Draft
<1>2. Recipient # {}
  BY RecoveryAssumption DEF Recipient
<1>3. c \in Call /\ CallBacked(c)
  BY <1>1, <1>2 DEF Call, CallBacked
<1>4. Continue(h, c)
  BY DEF StartApproval, Begin, Continue
<1> QED
  BY <1>3, <1>4, OnlyTheCall DEF StartApproval, Tables, Provider, Kept, TypeOK

LEMMA MarkApprovedKeeps ==
    ASSUME Kept, NEW h \in Handler, MarkApproved(h)
    PROVE  Kept'
<1> DEFINE c == [op |-> "send", todo |-> call[h].todo, bodies |-> call[h].bodies]
<1>1. /\ call[h] \in Call /\ call[h].op = "approve"
      /\ call[h].todo \in SUBSET Recipient /\ call[h].todo # {}
      /\ call[h].bodies \in [Recipient -> Draft]
  BY Kinds, Sending DEF MarkApproved
<1>2. c \in Call /\ CallBacked(c)
  BY <1>1 DEF Call, CallBacked
<1>3. [call[h] EXCEPT !.op = "send"] = c
  BY <1>1 DEF Call
<1>4. Continue(h, c)
  BY <1>3 DEF MarkApproved
<1> QED
  BY <1>2, <1>4, OnlyTheCall DEF MarkApproved, Provider, Kept, TypeOK, Absent

LEMMA SendAcceptedKeeps ==
    ASSUME Kept, NEW h \in Handler, SendAccepted(h)
    PROVE  Kept'
<1>1. PICK r \in Recipient : r = First(call[h].todo)
  BY Sending DEF SendAccepted
<1>2. PICK c : c = [op |-> "record_sent", todo |-> call[h].todo,
                    bodies |-> call[h].bodies, to |-> r, sid |-> NextSid(r)]
  OBVIOUS
<1>3. /\ call[h].todo \in SUBSET Recipient /\ call[h].todo # {}
      /\ call[h].bodies \in [Recipient -> Draft] /\ r \in call[h].todo
  BY <1>1, Sending DEF SendAccepted
<1>4. call[h].bodies[r] \in Draft
  BY <1>3
<1>5. Accept(r, "approval", call[h].bodies[r]) /\ Continue(h, c)
  BY <1>1, <1>2 DEF SendAccepted
<1>6. AcceptedType' /\ Grows /\ NextSid(r) \in Sid /\ Len(accepted'[r]) = NextSid(r)
  BY <1>4, <1>5, Accepting, Kinds DEF By
<1>7. c \in Call
  BY <1>2, <1>3, <1>6 DEF Call
<1>8. CallBacked(c)'
  BY <1>2, <1>3, <1>6 DEF CallBacked, Sid
<1> QED
  BY <1>5, <1>6, <1>7, <1>8, CallAndMessage DEF SendAccepted

LEMMA SendRefusedKeeps ==
    ASSUME Kept, NEW h \in Handler, SendRefused(h)
    PROVE  Kept'
<1> DEFINE r == First(call[h].todo)
<1>1. r \in Recipient
  BY Sending DEF SendRefused
<1>2. Remaining(h, r) \in Call /\ CallBacked(Remaining(h, r))
  BY <1>1, RemainingKind DEF SendRefused
<1>3. Continue(h, Remaining(h, r)) /\ refused' \subseteq Recipient
  BY <1>1 DEF SendRefused, Kept, TypeOK
<1> QED
  BY <1>2, <1>3, OnlyTheCall DEF SendRefused, Tables, Kept, TypeOK

LEMMA RecordSentKeeps ==
    ASSUME Kept, NEW h \in Handler, RecordSent(h)
    PROVE  Kept'
<1> DEFINE c == call[h]
           r == c.to
           row == [recipient[r] EXCEPT !.status = "sent", !.sid = c.sid, !.due = "pending"]
<1>1. c \in Call /\ c.op = "record_sent" /\ CallBacked(c)
  BY Kinds DEF RecordSent
<1>2. r \in Recipient /\ c.sid \in Sid /\ c.sid <= Len(accepted[r])
  BY <1>1, CallFields DEF CallBacked
<1>3. Remaining(h, r) \in Call /\ CallBacked(Remaining(h, r))
  BY <1>1, <1>2, RemainingKind
<1>4. recipient[r] # NoRow => row \in Row /\ row.sid = c.sid
  BY <1>2 DEF Kept, TypeOK, Row
<1>5. Len(accepted[r]) > 0
  BY <1>2, Kinds DEF Sid, AcceptedType
<1>6. UpdateRow(r, row) /\ Continue(h, Remaining(h, r))
      /\ UNCHANGED <<run, investigation, batch, accepted, refused>>
  BY DEF RecordSent, Provider
<1> HIDE DEF row, r, c
<1> QED
  BY <1>2, <1>3, <1>4, <1>5, <1>6, CallAndRow

LEMMA FinishApprovalKeeps ==
    ASSUME Kept, NEW h \in Handler, FinishApproval(h)
    PROVE  Kept'
<1>1. Continue(h, Idle)
  BY DEF FinishApproval, Return, Continue
<1> QED
  BY <1>1, IdleCall, OnlyTheCall DEF FinishApproval, Provider, Kept, TypeOK, Absent

-----------------------------------------------------------------------------
\* run_follow_up_monitor
LEMMA FollowingUp ==
    ASSUME Kept, NEW h \in Handler, call[h].op \in {"follow_up", "record_follow_up"}
    PROVE  /\ call[h].todo \in SUBSET Recipient /\ call[h].todo # {}
           /\ call[h].link \in Link
           /\ \A r \in call[h].todo : Len(accepted[r]) > 0
BY Kinds, CallFields DEF CallBacked

LEMMA NextFollowUpKind ==
    ASSUME Kept, NEW h \in Handler, call[h].op \in {"follow_up", "record_follow_up"},
           NEW r \in Recipient
    PROVE  NextFollowUp(h, r) \in Call /\ CallBacked(NextFollowUp(h, r))
<1>1. CASE call[h].todo = {r}
  BY <1>1, IdleCall DEF NextFollowUp
<1>2. CASE call[h].todo # {r}
  <2> DEFINE c == [op |-> "follow_up", todo |-> call[h].todo \ {r}, link |-> call[h].link]
  <2>1. c \in Call /\ CallBacked(c)
    BY <1>2, FollowingUp DEF Call, CallBacked
  <2> QED
    BY <1>2, <2>1 DEF NextFollowUp
<1> QED
  BY <1>1, <1>2

LEMMA ReadDueKeeps ==
    ASSUME Kept, NEW h \in Handler, ReadDue(h)
    PROVE  Kept'
<1> DEFINE todo == {r \in Recipient : Due(r)}
           c == [op |-> "follow_up", todo |-> todo, link |-> run]
<1>1. todo # {} /\ Continue(h, c)
  BY DEF ReadDue, Begin, Continue
<1>2. \A r \in todo : Len(accepted[r]) > 0
  BY DEF Due, Kept, Backed, RowsBacked
<1>3. todo \in SUBSET Recipient /\ run \in Link
  BY DEF Kept, TypeOK, Link
<1> HIDE DEF todo
<1>4. c \in Call /\ CallBacked(c)
  BY <1>1, <1>2, <1>3 DEF Call, CallBacked
<1> QED
  BY <1>1, <1>4, OnlyTheCall DEF ReadDue, Tables, Provider, Kept, TypeOK

LEMMA FollowUpAcceptedKeeps ==
    ASSUME Kept, NEW h \in Handler, NEW r \in Recipient, FollowUpAccepted(h, r)
    PROVE  Kept'
<1>1. /\ call[h].todo \in SUBSET Recipient /\ call[h].todo # {}
      /\ call[h].link \in Link /\ call[h].link \in Draft
      /\ \A q \in call[h].todo : Len(accepted[q]) > 0
  BY FollowingUp DEF FollowUpAccepted, Draft
<1>2. PICK c : c = [op |-> "record_follow_up", todo |-> call[h].todo,
                    link |-> call[h].link, to |-> r]
  OBVIOUS
<1>3. Accept(r, "follow_up", call[h].link) /\ Continue(h, c)
  BY <1>2 DEF FollowUpAccepted
<1>4. AcceptedType' /\ Grows
  BY <1>1, <1>3, Accepting, Kinds DEF By
<1>5. c \in Call /\ CallBacked(c)
  BY <1>1, <1>2 DEF Call, CallBacked
<1>6. CallBacked(c)'
  BY <1>4, <1>5, Kinds, StaysBacked
<1> QED
  BY <1>3, <1>4, <1>5, <1>6, CallAndMessage DEF FollowUpAccepted

LEMMA FollowUpRefusedKeeps ==
    ASSUME Kept, NEW h \in Handler, NEW r \in Recipient, FollowUpRefused(h, r)
    PROVE  Kept'
BY NextFollowUpKind, OnlyTheCall DEF FollowUpRefused, Tables, Provider, Kept, TypeOK

LEMMA RecordFollowUpKeeps ==
    ASSUME Kept, NEW h \in Handler, RecordFollowUp(h)
    PROVE  Kept'
<1> DEFINE r == call[h].to
           row == [recipient[r] EXCEPT !.status = "follow_up_sent"]
<1>1. r \in Recipient
  BY Kinds, CallFields DEF RecordFollowUp
<1>2. NextFollowUp(h, r) \in Call /\ CallBacked(NextFollowUp(h, r))
  BY <1>1, NextFollowUpKind DEF RecordFollowUp
<1>3. recipient[r] # NoRow =>
          row \in Row /\ row.sid = recipient[r].sid /\ row.due = recipient[r].due
  BY <1>1 DEF Kept, TypeOK, Row
<1>4. recipient[r].sid <= Len(accepted[r]) /\ (recipient[r].due # "none" => Len(accepted[r]) > 0)
  BY <1>1 DEF Kept, Backed, RowsBacked
<1>5. UpdateRow(r, row) /\ Continue(h, NextFollowUp(h, r))
      /\ UNCHANGED <<run, investigation, batch, accepted, refused>>
  BY DEF RecordFollowUp, Provider
<1> HIDE DEF row, r
<1> QED
  BY <1>1, <1>2, <1>3, <1>4, <1>5, CallAndRow

-----------------------------------------------------------------------------
\* retry_undelivered_customer_message
LEMMA StartRetryKeeps ==
    ASSUME Kept, NEW h \in Handler, NEW r \in Recipient, StartRetry(h, r)
    PROVE  Kept'
<1> DEFINE c == [op |-> "check", to |-> r, body |-> recipient[r].body,
                 sid |-> recipient[r].sid]
<1>1. recipient[r].sid \in Sid /\ recipient[r].body \in Draft
  BY DEF StartRetry, Kept, TypeOK, Row, NoRow, Draft
<1>2. c \in Call
  BY <1>1 DEF Call
<1>3. CallBacked(c)
  BY DEF CallBacked, Kept, Backed, RowsBacked
<1>4. Continue(h, c)
  BY DEF StartRetry, Begin, Continue
<1> HIDE DEF c
<1> QED
  BY <1>2, <1>3, <1>4, OnlyTheCall DEF StartRetry, Tables, Provider, Kept, TypeOK

LEMMA CheckDeliveryKeeps ==
    ASSUME Kept, NEW h \in Handler, CheckDelivery(h)
    PROVE  Kept'
<1> DEFINE c == call[h]
           d == [op |-> "resend", to |-> c.to, body |-> c.body]
<1>1. c \in Call /\ c.op = "check" /\ CallBacked(c)
  BY Kinds DEF CheckDelivery
<1>2. /\ c.to \in Recipient /\ c.body \in Draft
      /\ c.sid \in Sid /\ c.sid <= Len(accepted[c.to])
  BY <1>1, CallFields DEF CallBacked
<1>3. UNCHANGED <<run, investigation, recipient, accepted, batch, refused>>
  BY DEF CheckDelivery, Tables, Provider
<1>4. CASE accepted[c.to][c.sid].failed
  <2>1. Continue(h, d)
    BY <1>4 DEF CheckDelivery
  <2>2. Failed(c.to)
    <3>1. c.sid \in 1..Len(accepted[c.to])
      BY <1>2, Kinds DEF Sid, AcceptedType
    <3> QED
      BY <1>4, <3>1 DEF Failed
  <2>3. d \in Call /\ CallBacked(d)
    BY <1>2, <2>2 DEF Call, CallBacked
  <2> HIDE DEF d
  <2> QED
    BY <1>3, <2>1, <2>3, OnlyTheCall DEF Kept, TypeOK
<1>5. CASE ~accepted[c.to][c.sid].failed
  <2>1. Continue(h, Idle)
    BY <1>5 DEF CheckDelivery
  <2> QED
    BY <1>3, <2>1, IdleCall, OnlyTheCall DEF Kept, TypeOK
<1> QED
  BY <1>4, <1>5

LEMMA RetryAcceptedKeeps ==
    ASSUME Kept, NEW h \in Handler, RetryAccepted(h)
    PROVE  Kept'
<1>1. call[h].to \in Recipient /\ call[h].body \in Draft
  BY Kinds, CallFields DEF RetryAccepted
<1>2. PICK r \in Recipient : r = call[h].to
  BY <1>1
<1>3. PICK c : c = [op |-> "record_retry", to |-> r, sid |-> NextSid(r)]
  OBVIOUS
<1>4. Accept(r, "retry", call[h].body) /\ Continue(h, c)
  BY <1>2, <1>3 DEF RetryAccepted
<1>5. AcceptedType' /\ Grows /\ NextSid(r) \in Sid /\ Len(accepted'[r]) = NextSid(r)
  BY <1>1, <1>4, Accepting, Kinds DEF By
<1>6. c \in Call
  BY <1>3, <1>5 DEF Call
<1>7. CallBacked(c)'
  BY <1>3, <1>5 DEF CallBacked, Sid
<1> QED
  BY <1>4, <1>5, <1>6, <1>7, CallAndMessage DEF RetryAccepted

LEMMA RecordRetryKeeps ==
    ASSUME Kept, NEW h \in Handler, RecordRetry(h)
    PROVE  Kept'
<1> DEFINE c == call[h]
           r == c.to
           row == [recipient[r] EXCEPT !.status = "sent", !.sid = c.sid, !.due = "pending"]
<1>1. c \in Call /\ c.op = "record_retry" /\ CallBacked(c)
  BY Kinds DEF RecordRetry
<1>2. r \in Recipient /\ c.sid \in Sid /\ c.sid <= Len(accepted[r])
  BY <1>1, CallFields DEF CallBacked
<1>3. recipient[r] # NoRow => row \in Row /\ row.sid = c.sid
  BY <1>2 DEF Kept, TypeOK, Row
<1>4. Len(accepted[r]) > 0
  BY <1>2, Kinds DEF Sid, AcceptedType
<1>5. UpdateRow(r, row) /\ Continue(h, Idle)
      /\ UNCHANGED <<run, investigation, batch, accepted, refused>>
  BY DEF RecordRetry, Provider, Return, Continue
<1> HIDE DEF row, r, c
<1> QED
  BY <1>2, <1>3, <1>4, <1>5, IdleCall, CallAndRow

-----------------------------------------------------------------------------
\* Requests that end early, and everything that happens outside a request.
LEMMA RequestFailsKeeps ==
    ASSUME Kept, NEW h \in Handler, RequestFails(h)
    PROVE  Kept'
<1>1. Continue(h, Idle)
  BY DEF RequestFails, Return, Continue
<1> QED
  BY <1>1, IdleCall, OnlyTheCall DEF RequestFails, Tables, Provider, Kept, TypeOK

\* Twilio accepts a message on behalf of a thread: an approval's, a follow-up
\* of a customer contacted before, or a retry after a failure.
Sends(h) ==
    \/ /\ call[h].op = "send"
       /\ Accept(First(call[h].todo), "approval", call[h].bodies[First(call[h].todo)])
    \/ /\ call[h].op = "follow_up"
       /\ \E r \in call[h].todo : Accept(r, "follow_up", call[h].link)
    \/ /\ call[h].op = "resend"
       /\ Accept(call[h].to, "retry", call[h].body)

LEMMA SendsWhat ==
    ASSUME Kept, NEW h \in Handler, Sends(h)
    PROVE  \E r \in Recipient, by \in By, link \in Draft :
              /\ Accept(r, by, link)
              /\ by = "follow_up" => Len(accepted[r]) > 0
              /\ by = "retry" => Failed(r)
<1>1. call[h] \in Call /\ CallBacked(call[h])
  BY Kinds
<1>2. CASE call[h].op = "send"
  <2>1. PICK r \in Recipient : r = First(call[h].todo)
    BY <1>2, Sending
  <2>2. call[h].bodies[r] \in Draft
    BY <1>2, Sending
  <2>3. Accept(r, "approval", call[h].bodies[r])
    BY <1>2, <2>1 DEF Sends
  <2> QED
    BY <2>2, <2>3 DEF By
<1>3. CASE call[h].op = "follow_up"
  <2>1. PICK r \in call[h].todo : Accept(r, "follow_up", call[h].link)
    BY <1>3 DEF Sends
  <2>2. r \in Recipient /\ call[h].link \in Draft /\ Len(accepted[r]) > 0
    BY <1>3, FollowingUp DEF Draft
  <2> QED
    BY <2>1, <2>2 DEF By
<1>4. CASE call[h].op = "resend"
  <2>1. /\ call[h].to \in Recipient /\ call[h].body \in Draft
        /\ Failed(call[h].to) /\ Accept(call[h].to, "retry", call[h].body)
    BY <1>1, <1>4, CallFields DEF CallBacked, Sends
  <2> QED
    BY <2>1 DEF By
<1> QED
  BY <1>2, <1>3, <1>4 DEF Sends

LEMMA AnswerLostKeeps ==
    ASSUME Kept, NEW h \in Handler, AnswerLost(h)
    PROVE  Kept'
<1>1. Sends(h)
  BY DEF AnswerLost, Sends
<1>2. AcceptedType' /\ Grows
  BY <1>1, SendsWhat, Accepting, Kinds
<1>3. CallBacked(Idle)'
  BY DEF CallBacked, Idle
<1>4. Continue(h, Idle)
  BY DEF AnswerLost, Return, Continue
<1> QED
  BY <1>2, <1>3, <1>4, IdleCall, CallAndMessage DEF AnswerLost

\* The threads are where they were.
LEMMA CallsStay ==
    ASSUME Kept, UNCHANGED call, AcceptedType', Grows
    PROVE  \A h \in Handler : CallBacked(call[h])'
<1> SUFFICES ASSUME NEW h \in Handler PROVE CallBacked(call[h])'
  OBVIOUS
<1>1. \A c \in Call : CallBacked(c) => CallBacked(c)'
  BY StaysBacked, Kinds
<1>2. \A c : CallBacked(c)' /\ c = call'[h] => CallBacked(call[h])'
  BY DEF CallBacked, Failed
<1> QED
  BY <1>1, <1>2, Kinds

\* The customer, or the clock, changes one stored row.
LEMMA CustomerKeeps ==
    ASSUME Kept, NEW r \in Recipient, Customer(r)
    PROVE  Kept'
<1>1. PICK row : /\ recipient' = [recipient EXCEPT ![r] = row]
                 /\ recipient[r] # NoRow /\ row \in Row /\ row # NoRow
                 /\ row.sid = recipient[r].sid
                 /\ row.due # "none" => recipient[r].due # "none"
  <2>1. ASSUME recipient[r] # NoRow
        PROVE  \A f \in {"opened", "completed"} :
                  LET row == [recipient[r] EXCEPT !.status = f]
                  IN  /\ row \in Row /\ row # NoRow
                      /\ row.sid = recipient[r].sid /\ row.due = recipient[r].due
    BY <2>1 DEF Kept, TypeOK, Row, NoRow
  <2>2. CASE RecordLinkOpen(r)
    BY <2>1, <2>2 DEF RecordLinkOpen, KnownLink
  <2>3. CASE RecordPaymentComplete(r)
    BY <2>1, <2>3 DEF RecordPaymentComplete, KnownLink
  <2>4. CASE FollowUpFallsDue(r)
    <3> DEFINE row == [recipient[r] EXCEPT !.due = "due"]
    <3>1. recipient[r] # NoRow /\ recipient[r] \in Row /\ recipient[r].due # "none"
      BY <2>4 DEF FollowUpFallsDue, Kept, TypeOK, NoRow
    <3>2. row \in Row /\ row # NoRow /\ row.sid = recipient[r].sid
      BY <3>1 DEF Row, NoRow
    <3> QED
      BY <2>4, <3>1, <3>2 DEF FollowUpFallsDue
  <2> QED
    BY <2>2, <2>3, <2>4 DEF Customer
<1>2. UNCHANGED <<run, investigation, batch, accepted, refused, call>>
  BY DEF Customer, RecordLinkOpen, RecordPaymentComplete, FollowUpFallsDue, Provider
<1>3. AcceptedType' /\ Grows
  BY <1>2, NothingAccepted DEF Kept
<1>4. \A h \in Handler : CallBacked(call[h])'
  BY <1>2, <1>3, CallsStay
<1>5. TypeOK'
  BY <1>1, <1>2 DEF Kept, TypeOK
<1>6. RowsBacked'
  BY <1>1, <1>2 DEF Kept, TypeOK, Backed, RowsBacked
<1> QED
  BY <1>4, <1>5, <1>6 DEF Kept, Backed

LEMMA ReportFailedKeeps ==
    ASSUME Kept, NEW r \in Recipient, NEW i \in 1..Len(accepted[r]), ReportFailed(r, i)
    PROVE  Kept'
<1>1. /\ AcceptedType' /\ Grows
      /\ \A q \in Recipient : Len(accepted'[q]) = Len(accepted[q])
  BY ReportingFailed, Kinds
<1>2. UNCHANGED <<run, investigation, batch, recipient, refused, call>>
  BY DEF ReportFailed, Tables
<1>3. \A h \in Handler : CallBacked(call[h])'
  BY <1>1, <1>2, CallsStay
<1>4. TypeOK'
  BY <1>1, <1>2 DEF Kept, TypeOK, AcceptedType
<1>5. RowsBacked'
  BY <1>1, <1>2 DEF Kept, Backed, RowsBacked
<1> QED
  BY <1>3, <1>4, <1>5 DEF Kept, Backed

LEMMA CrashKeeps ==
    ASSUME Kept, Crash
    PROVE  Kept'
<1>1. \A h \in Handler : call'[h] = Idle
  BY DEF Crash
<1>2. \A h \in Handler : CallBacked(call[h])'
  BY <1>1 DEF CallBacked, Idle
<1>3. TypeOK'
  BY IdleCall DEF Crash, Tables, Provider, Kept, TypeOK
<1>4. RowsBacked'
  BY DEF Crash, Tables, Provider, Kept, Backed, RowsBacked
<1> QED
  BY <1>2, <1>3, <1>4 DEF Kept, Backed

LEMMA NewRunKeeps ==
    ASSUME Kept, NewRun
    PROVE  Kept'
<1>1. AcceptedType' /\ Grows
  BY NothingAccepted DEF NewRun, Kept
<1>2. \A h \in Handler : CallBacked(call[h])'
  BY <1>1, CallsStay DEF NewRun
<1>3. TypeOK'
  BY RecoveryAssumption DEF NewRun, Kept, TypeOK
<1>4. RowsBacked'
  BY <1>1 DEF NewRun, RowsBacked, NoRow, AcceptedType
<1> QED
  BY <1>2, <1>3, <1>4 DEF Kept, Backed

LEMMA InvestigateKeeps ==
    ASSUME Kept, NEW scope \in {"network", "merchant"}, Investigate(scope)
    PROVE  Kept'
<1>1. AcceptedType' /\ Grows
  BY NothingAccepted DEF Investigate, Provider, Kept
<1>2. \A h \in Handler : CallBacked(call[h])'
  BY <1>1, CallsStay DEF Investigate
<1>3. TypeOK'
  BY DEF Investigate, Provider, Kept, TypeOK
<1>4. RowsBacked'
  BY DEF Investigate, Provider, Kept, Backed, RowsBacked
<1> QED
  BY <1>2, <1>3, <1>4 DEF Kept, Backed

LEMMA NextKept == Kept /\ [Next]_vars => Kept'
<1> SUFFICES ASSUME Kept, [Next]_vars PROVE Kept'
  OBVIOUS
<1>1. CASE UNCHANGED vars
  <2>1. AcceptedType' /\ Grows
    BY <1>1, NothingAccepted DEF vars, Kept
  <2>2. \A h \in Handler : CallBacked(call[h])'
    BY <1>1, <2>1, CallsStay DEF vars
  <2>3. TypeOK' /\ RowsBacked'
    BY <1>1 DEF vars, Kept, TypeOK, Backed, RowsBacked
  <2> QED
    BY <2>2, <2>3 DEF Kept, Backed
<1>2. ASSUME NEW h \in Handler, Prepare(h) PROVE Kept'
  BY <1>2, StartPrepareKeeps, InsertBatchKeeps, ReadDraftsKeeps, DraftMessageKeeps DEF Prepare
<1>3. ASSUME NEW h \in Handler, Approve(h) PROVE Kept'
  BY <1>3, StartApprovalKeeps, MarkApprovedKeeps, SendAcceptedKeeps, SendRefusedKeeps,
     RecordSentKeeps, FinishApprovalKeeps DEF Approve
<1>4. ASSUME NEW h \in Handler, FollowUp(h) PROVE Kept'
  BY <1>4, ReadDueKeeps, FollowUpAcceptedKeeps, FollowUpRefusedKeeps, RecordFollowUpKeeps
     DEF FollowUp
<1>5. ASSUME NEW h \in Handler, Retry(h) PROVE Kept'
  BY <1>5, StartRetryKeeps, CheckDeliveryKeeps, RetryAcceptedKeeps, RecordRetryKeeps DEF Retry
<1> QED
  BY <1>1, <1>2, <1>3, <1>4, <1>5, RequestFailsKeeps, AnswerLostKeeps, CustomerKeeps,
     ReportFailedKeeps, CrashKeeps, NewRunKeeps, InvestigateKeeps DEF Next

LEMMA AlwaysKept == Spec => []Kept
<1>1. Init => Kept
  BY InitKept
<1>2. Kept /\ [Next]_vars => Kept'
  BY NextKept
<1> QED
  BY <1>1, <1>2, PTL DEF Spec

\* The tables, Twilio's messages and the threads keep their shape, in any
\* instance: recipients have rows exactly when there is a batch.
THEOREM TypeCorrect == Spec => []TypeOK
<1>1. Kept => TypeOK
  BY DEF Kept
<1> QED
  BY <1>1, AlwaysKept, PTL
-----------------------------------------------------------------------------
\* What a step does to the messages, whatever else it does: nothing, a report
\* of a failure, or one more message, which is a thread's to send.
LEMMA ProviderStep ==
    ASSUME Kept, [Next]_vars
    PROVE  \/ UNCHANGED accepted
           \/ \E r \in Recipient : \E i \in 1..Len(accepted[r]) : ReportFailed(r, i)
           \/ \E h \in Handler : Sends(h)
<1>1. CASE UNCHANGED vars
  BY <1>1 DEF vars
<1>2. ASSUME NEW h \in Handler, Prepare(h) PROVE UNCHANGED accepted
  BY <1>2 DEF Prepare, StartPrepare, InsertBatch, ReadDrafts, DraftMessage, Provider
<1>3. ASSUME NEW h \in Handler, Approve(h) PROVE UNCHANGED accepted \/ Sends(h)
  BY <1>3 DEF Approve, StartApproval, MarkApproved, SendAccepted, SendRefused, RecordSent,
              FinishApproval, Provider, Sends
<1>4. ASSUME NEW h \in Handler, FollowUp(h) PROVE UNCHANGED accepted \/ Sends(h)
  BY <1>4 DEF FollowUp, ReadDue, FollowUpAccepted, FollowUpRefused, RecordFollowUp,
              Provider, Sends
<1>5. ASSUME NEW h \in Handler, Retry(h) PROVE UNCHANGED accepted \/ Sends(h)
  BY <1>5 DEF Retry, StartRetry, CheckDelivery, RetryAccepted, RecordRetry, Provider, Sends
<1>6. ASSUME NEW h \in Handler, RequestFails(h) \/ AnswerLost(h)
      PROVE  UNCHANGED accepted \/ Sends(h)
  BY <1>6 DEF RequestFails, AnswerLost, Provider, Sends
<1>7. ASSUME NEW r \in Recipient, Customer(r) PROVE UNCHANGED accepted
  BY <1>7 DEF Customer, RecordLinkOpen, RecordPaymentComplete, FollowUpFallsDue, Provider
<1>8. ASSUME NEW scope, Investigate(scope) PROVE UNCHANGED accepted
  BY <1>8 DEF Investigate, Provider
<1>9. NewRun \/ Crash => UNCHANGED accepted
  BY DEF NewRun, Crash, Provider
<1> QED
  BY <1>1, <1>2, <1>3, <1>4, <1>5, <1>6, <1>7, <1>8, <1>9 DEF Next

\* A first message is never a follow-up's or a retry's, and a later one does
\* not change it.
LEMMA FirstContactStep ==
    ASSUME Kept, FirstContactIsApproved, [Next]_vars
    PROVE  FirstContactIsApproved'
<1>1. ASSUME NEW r \in Recipient, NEW i \in 1..Len(accepted[r]), ReportFailed(r, i)
      PROVE  FirstContactIsApproved'
  <2> SUFFICES ASSUME NEW q \in Recipient, accepted'[q] # <<>>
      PROVE  accepted'[q][1].by = "approval"
    BY DEF FirstContactIsApproved
  <2>1. /\ AcceptedType' /\ Grows
        /\ \A p \in Recipient : Len(accepted'[p]) = Len(accepted[p])
    BY <1>1, ReportingFailed, Kinds
  <2>2. Len(accepted[q]) \in Nat \ {0}
    BY <2>1, EmptySeq DEF AcceptedType
  <2>3. accepted[q][1].by = "approval"
    BY <2>2, EmptySeq DEF FirstContactIsApproved
  <2> QED
    BY <2>1, <2>2, <2>3 DEF Grows
<1>2. ASSUME NEW h \in Handler, Sends(h)
      PROVE  FirstContactIsApproved'
  <2> SUFFICES ASSUME NEW q \in Recipient, accepted'[q] # <<>>
      PROVE  accepted'[q][1].by = "approval"
    BY DEF FirstContactIsApproved
  <2>1. PICK r \in Recipient, by \in By, link \in Draft :
           /\ Accept(r, by, link)
           /\ by = "follow_up" => Len(accepted[r]) > 0
           /\ by = "retry" => Failed(r)
    BY <1>2, SendsWhat
  <2>2. /\ accepted'[r][NextSid(r)].by = by
        /\ \A p \in Recipient \ {r} : accepted'[p] = accepted[p]
        /\ \A i \in 1..Len(accepted[r]) : accepted'[r][i] = accepted[r][i]
    BY <2>1, Accepting, Kinds
  <2>3. Len(accepted[r]) \in Nat
    BY Kinds DEF AcceptedType
  <2>4. CASE q # r
    BY <2>2, <2>4 DEF FirstContactIsApproved
  <2>5. CASE q = r /\ Len(accepted[r]) > 0
    <3>1. accepted[r][1].by = "approval"
      BY <2>5, EmptySeq DEF FirstContactIsApproved
    <3> QED
      BY <2>2, <2>3, <2>5, <3>1
  <2>6. CASE q = r /\ Len(accepted[r]) = 0
    <3>1. ~Failed(r)
      BY <2>6 DEF Failed
    <3>2. by = "approval"
      BY <2>1, <2>6, <3>1 DEF By
    <3> QED
      BY <2>2, <2>6, <3>2 DEF NextSid
  <2> QED
    BY <2>3, <2>4, <2>5, <2>6
<1>3. UNCHANGED accepted => FirstContactIsApproved'
  BY DEF FirstContactIsApproved
<1> QED
  BY <1>1, <1>2, <1>3, ProviderStep

\* The monitor and the retries never contact a customer first, whatever is
\* read before, written after, or lost in between.
THEOREM FirstContactIsAlwaysApproved == Spec => []FirstContactIsApproved
<1>1. Init => FirstContactIsApproved
  BY DEF Init, FirstContactIsApproved
<1>2. Kept /\ FirstContactIsApproved /\ [Next]_vars => FirstContactIsApproved'
  BY FirstContactStep
<1> QED
  BY <1>1, <1>2, AlwaysKept, PTL DEF Spec

LEMMA RetryStep ==
    ASSUME Kept, RetryFollowsFailure, [Next]_vars
    PROVE  RetryFollowsFailure'
<1>1. ASSUME AcceptedType', Grows, NEW q \in Recipient, NEW i \in 1..Len(accepted[q]),
             accepted'[q][i].by = "retry"
      PROVE  \E j \in 1..(i - 1) : accepted'[q][j].failed
  <2>1. accepted[q][i].by = "retry" /\ Len(accepted[q]) \in Nat
    BY <1>1, Kinds DEF Grows, AcceptedType
  <2>2. PICK j \in 1..(i - 1) : accepted[q][j].failed
    BY <2>1 DEF RetryFollowsFailure
  <2>3. j \in 1..Len(accepted[q])
    BY <2>1, <2>2
  <2> QED
    BY <1>1, <2>2, <2>3 DEF Grows
<1>2. ASSUME NEW r \in Recipient, NEW i \in 1..Len(accepted[r]), ReportFailed(r, i)
      PROVE  RetryFollowsFailure'
  <2>1. /\ AcceptedType' /\ Grows
        /\ \A p \in Recipient : Len(accepted'[p]) = Len(accepted[p])
    BY <1>2, ReportingFailed, Kinds
  <2> QED
    BY <1>1, <2>1 DEF RetryFollowsFailure
<1>3. ASSUME NEW h \in Handler, Sends(h)
      PROVE  RetryFollowsFailure'
  <2>1. PICK r \in Recipient, by \in By, link \in Draft :
           /\ Accept(r, by, link)
           /\ by = "follow_up" => Len(accepted[r]) > 0
           /\ by = "retry" => Failed(r)
    BY <1>3, SendsWhat
  <2>2. /\ AcceptedType' /\ Grows
        /\ Len(accepted'[r]) = NextSid(r)
        /\ accepted'[r][NextSid(r)].by = by
        /\ \A p \in Recipient \ {r} : accepted'[p] = accepted[p]
    BY <2>1, Accepting, Kinds
  <2>3. \A q \in Recipient : Len(accepted[q]) \in Nat
    BY Kinds DEF AcceptedType
  <2>4. ASSUME NEW q \in Recipient, NEW i \in 1..Len(accepted'[q]),
               i \notin 1..Len(accepted[q]), accepted'[q][i].by = "retry"
        PROVE  \E j \in 1..(i - 1) : accepted'[q][j].failed
    <3>1. q = r /\ i = Len(accepted[r]) + 1
      BY <2>2, <2>3, <2>4 DEF NextSid
    <3>2. Failed(r)
      BY <2>1, <2>2, <2>4, <3>1 DEF NextSid
    <3>3. PICK j \in 1..Len(accepted[r]) : accepted[r][j].failed
      BY <3>2 DEF Failed
    <3> QED
      BY <2>2, <2>3, <3>1, <3>3 DEF Grows
  <2> QED
    BY <1>1, <2>2, <2>4 DEF RetryFollowsFailure
<1>4. UNCHANGED accepted => RetryFollowsFailure'
  BY DEF RetryFollowsFailure
<1> QED
  BY <1>2, <1>3, <1>4, ProviderStep

\* A retry is sent to a number only after Twilio had reported a message to it
\* failed, though Twilio is asked long after the row was read.
THEOREM RetryAlwaysFollowsFailure == Spec => []RetryFollowsFailure
<1>1. Init => RetryFollowsFailure
  BY DEF Init, RetryFollowsFailure
<1>2. Kept /\ RetryFollowsFailure /\ [Next]_vars => RetryFollowsFailure'
  BY RetryStep
<1> QED
  BY <1>1, <1>2, AlwaysKept, PTL DEF Spec
-----------------------------------------------------------------------------
\* Until a second run brings the ids back, rows, messages and threads agree:
\* every draft, message and link is the first run's, nothing is sent before the
\* batch is approved, and an approval passes no recipient over.

Own(r, i) ==
    /\ i \in 1..Len(accepted[r])
    /\ accepted[r][i].by # "follow_up"
    /\ accepted[r][i].link = 1

Approved == batch \in {"approved", "sent"}

Attempted(r) == recipient[r].status # "draft" \/ r \in refused

RowsTracked ==
    \A r \in Recipient :
        /\ recipient[r] # NoRow => recipient[r].link = 1
        /\ recipient[r].body \in {NoLink, 1}
        /\ recipient[r].sid # 0 => recipient[r].body = 1 /\ Own(r, recipient[r].sid)
        /\ \/ recipient[r].status \in {"sent", "opened", "follow_up_sent"}
           \/ recipient[r].due # "none"
           => recipient[r].sid # 0

BatchTracked ==
    /\ \A r \in Recipient : Len(accepted[r]) > 0 => Approved
    /\ batch = "sent" => \A r \in Recipient : Attempted(r)

CallTracked(c) ==
    /\ c.op = "draft" => c.link = 1
    /\ c.op \in {"approve", "send", "record_sent"} =>
           \A r \in Recipient : c.bodies[r] = 1 /\ recipient[r].body = 1
    /\ c.op = "approve" => c.todo = Recipient
    /\ c.op \in {"send", "record_sent", "finish"} => Approved
    /\ c.op \in {"send", "record_sent"} => \A r \in Recipient \ c.todo : Attempted(r)
    /\ c.op = "finish" => \A r \in Recipient : Attempted(r)
    /\ c.op \in {"record_sent", "record_retry"} => Own(c.to, c.sid)
    /\ c.op \in {"check", "resend"} => c.body = 1
    /\ c.op \in {"check", "resend", "record_retry"} => recipient[c.to].body = 1
    /\ c.op \in {"follow_up", "record_follow_up"} =>
           \A r \in c.todo : recipient[r].sid # 0
    /\ c.op = "record_follow_up" => recipient[c.to].sid # 0

Tracked ==
    /\ RowsTracked
    /\ BatchTracked
    /\ \A h \in Handler : CallTracked(call[h])

FirstRun == run = 1 => Tracked

\* What no step of the first run takes back.
Ages ==
    /\ Grows
    /\ \A r \in Recipient :
          /\ recipient[r].body = 1 => recipient'[r].body = 1
          /\ recipient[r].sid # 0 => recipient'[r].sid # 0
          /\ Approved /\ Attempted(r) => Attempted(r)'
    /\ Approved => Approved'

LEMMA OwnStays ==
    ASSUME AcceptedType, AcceptedType', Grows, NEW r \in Recipient, NEW i, Own(r, i)
    PROVE  Own(r, i)'
<1>1. Len(accepted[r]) \in Nat /\ Len(accepted'[r]) \in Nat
  BY DEF AcceptedType
<1> QED
  BY <1>1 DEF Own, Grows

LEMMA CallStaysTracked ==
    ASSUME AcceptedType, AcceptedType', Ages, NEW c \in Call, CallTracked(c)
    PROVE  CallTracked(c)'
<1>1. c.op \in {"record_sent", "record_retry"} => Own(c.to, c.sid)'
  BY CallFields, OwnStays DEF CallTracked, Ages
<1>2. c.op \in {"approve", "send", "record_sent"} =>
          \A r \in Recipient : c.bodies[r] = 1 /\ recipient'[r].body = 1
  BY DEF CallTracked, Ages
<1>3. c.op \in {"send", "record_sent", "finish"} => Approved /\ Approved'
  BY DEF CallTracked, Ages
<1>4. /\ c.op \in {"send", "record_sent"} => \A r \in Recipient \ c.todo : Attempted(r)'
      /\ c.op = "finish" => \A r \in Recipient : Attempted(r)'
  BY <1>3 DEF CallTracked, Ages
<1>5. /\ c.op \in {"check", "resend", "record_retry"} => recipient'[c.to].body = 1
      /\ c.op \in {"follow_up", "record_follow_up"} =>
             \A r \in c.todo : recipient'[r].sid # 0
      /\ c.op = "record_follow_up" => recipient'[c.to].sid # 0
  BY CallFields DEF CallTracked, Ages
<1> QED
  BY <1>1, <1>2, <1>3, <1>4, <1>5 DEF CallTracked

\* What is left to show of a step of the first run by one thread.
LEMMA ThreadTracked ==
    ASSUME Kept, Kept', Tracked, Ages, NEW h \in Handler, NEW c \in Call, Continue(h, c),
           CallTracked(c)', RowsTracked', BatchTracked'
    PROVE  Tracked'
<1>1. AcceptedType /\ AcceptedType'
  BY DEF Kept, TypeOK, AcceptedType
<1>2. ASSUME NEW g \in Handler PROVE CallTracked(call[g])'
  <2>1. \A d : CallTracked(d)' /\ d = call'[g] => CallTracked(call[g])'
    BY DEF CallTracked, Own, Attempted, Approved
  <2>2. \A d \in Call : CallTracked(d) => CallTracked(d)'
    BY <1>1, CallStaysTracked
  <2>3. call'[g] = IF g = h THEN c ELSE call[g]
    BY Kinds DEF Continue
  <2>4. CallTracked(call[g]) /\ call[g] \in Call
    BY Kinds DEF Tracked
  <2>5. CASE g = h
    BY <2>1, <2>3, <2>5
  <2>6. CASE g # h
    BY <2>1, <2>2, <2>3, <2>4, <2>6
  <2> QED
    BY <2>5, <2>6
<1> QED
  BY <1>2 DEF Tracked

\* ... and of one that changes nothing else, or only one row.
LEMMA OnlyTheCallTracked ==
    ASSUME Kept, Kept', Tracked, NEW h \in Handler, NEW c \in Call, Continue(h, c),
           CallTracked(c), UNCHANGED <<batch, recipient, accepted, refused>>
    PROVE  Tracked'
<1>1. AcceptedType /\ AcceptedType' /\ Grows
  BY NothingAccepted DEF Kept
<1>2. Ages
  BY <1>1 DEF Ages, Attempted, Approved
<1>3. CallTracked(c)'
  BY <1>1, <1>2, CallStaysTracked
<1>4. RowsTracked'
  BY DEF Tracked, RowsTracked, Own
<1>5. BatchTracked'
  BY DEF Tracked, BatchTracked, Attempted, Approved
<1> QED
  BY <1>2, <1>3, <1>4, <1>5, ThreadTracked

\* A row may be written that names its link, a message of its own, and is no
\* draft unless it was one.
RowTracked(r, row) ==
    /\ row.link = 1
    /\ row.body \in {NoLink, 1}
    /\ row.sid # 0 => row.body = 1 /\ Own(r, row.sid)
    /\ row.status \in {"sent", "opened", "follow_up_sent"} \/ row.due # "none" => row.sid # 0
    /\ recipient[r].body = 1 => row.body = 1
    /\ recipient[r].sid # 0 => row.sid # 0
    /\ recipient[r].status # "draft" => row.status # "draft"

LEMMA RowStaysTracked ==
    ASSUME Kept, Tracked, UNCHANGED <<batch, accepted, refused>>,
           NEW r \in Recipient, NEW row, UpdateRow(r, row),
           recipient[r] # NoRow => row \in Row /\ RowTracked(r, row)
    PROVE  Ages /\ RowsTracked' /\ BatchTracked'
<1>1. /\ \A q \in Recipient \ {r} : recipient'[q] = recipient[q]
      /\ recipient'[r] = IF recipient[r] = NoRow THEN NoRow ELSE row
  BY RowWritten DEF Kept
<1>2. Grows
  BY NothingAccepted DEF Kept
<1>3. Ages
  <2>1. ASSUME NEW q \in Recipient
        PROVE  /\ recipient[q].body = 1 => recipient'[q].body = 1
               /\ recipient[q].sid # 0 => recipient'[q].sid # 0
               /\ recipient[q].status # "draft" => recipient'[q].status # "draft"
    BY <1>1 DEF RowTracked
  <2> QED
    BY <1>2, <2>1 DEF Ages, Attempted, Approved
<1>4. RowsTracked'
  <2>1. ASSUME NEW q \in Recipient
        PROVE  /\ recipient'[q] # NoRow => recipient'[q].link = 1
               /\ recipient'[q].body \in {NoLink, 1}
               /\ recipient'[q].sid # 0 =>
                      recipient'[q].body = 1 /\ Own(q, recipient'[q].sid)
               /\ \/ recipient'[q].status \in {"sent", "opened", "follow_up_sent"}
                  \/ recipient'[q].due # "none"
                  => recipient'[q].sid # 0
    <3>1. CASE q = r /\ recipient[r] # NoRow
      BY <1>1, <3>1 DEF RowTracked
    <3>2. CASE q # r \/ recipient[r] = NoRow
      BY <1>1, <3>2 DEF Tracked, RowsTracked
    <3> QED
      BY <3>1, <3>2
  <2> QED
    BY <2>1 DEF RowsTracked, Own
<1>5. BatchTracked'
  <2>1. \A q \in Recipient : Attempted(q) => Attempted(q)'
    BY <1>1 DEF RowTracked, Attempted
  <2> QED
    BY <2>1 DEF Tracked, BatchTracked, Approved
<1> QED
  BY <1>3, <1>4, <1>5

LEMMA IdleTracked == CallTracked(Idle) /\ CallTracked(Idle)'
BY DEF CallTracked, Idle

\* A row with a link is stored; a first run's row with a sid has its body.
LEMMA StoredRow ==
    ASSUME Kept, NEW r \in Recipient,
           \/ recipient[r].body # NoLink \/ recipient[r].sid # 0
           \/ recipient[r].due # "none" \/ recipient[r].status # "absent"
    PROVE  recipient[r] # NoRow /\ recipient[r] \in Row
BY DEF Kept, TypeOK, NoRow

\* prepare_batch
LEMMA PrepareTracked ==
    ASSUME Kept, Kept', Tracked, run = 1, NEW h \in Handler, Prepare(h)
    PROVE  Tracked'
<1>1. CASE StartPrepare(h)
  <2> DEFINE c == [op |-> "prepare"]
  <2>1. c \in Call /\ CallTracked(c) /\ Continue(h, c)
    BY <1>1 DEF Call, CallTracked, StartPrepare, Begin, Continue
  <2> QED
    BY <1>1, <2>1, OnlyTheCallTracked DEF StartPrepare, Tables, Provider
<1>2. CASE InsertBatch(h)
  <2> DEFINE c == [op |-> "read_drafts"]
  <2>1. c \in Call /\ CallTracked(c) /\ CallTracked(c)'
    BY DEF Call, CallTracked
  <2>2. CASE batch # Absent \/ investigation = Absent
    <3>1. /\ Continue(h, c) \/ Continue(h, Idle)
          /\ UNCHANGED <<batch, recipient, accepted, refused>>
      BY <1>2, <2>2 DEF InsertBatch, Return, Continue, Provider
    <3> QED
      BY <2>1, <3>1, IdleCall, IdleTracked, OnlyTheCallTracked
  <2>3. CASE batch = Absent /\ investigation # Absent
    <3>1. /\ Continue(h, c) /\ batch' = "draft"
          /\ recipient' = [r \in Recipient |-> [NoRow EXCEPT !.status = "draft", !.link = run]]
          /\ UNCHANGED <<accepted, refused>>
      BY <1>2, <2>3 DEF InsertBatch, Provider
    <3>2. \A r \in Recipient :
              /\ recipient[r] = NoRow
              /\ recipient'[r].link = 1 /\ recipient'[r].sid = 0
              /\ recipient'[r].body = NoLink
              /\ recipient'[r].status = "draft" /\ recipient'[r].due = "none"
      BY <2>3, <3>1 DEF Kept, TypeOK, NoRow
    <3>3. Grows
      BY <3>1, NothingAccepted DEF Kept
    <3>4. ~Approved
      BY <2>3 DEF Approved, Absent
    <3>5. Ages
      BY <3>2, <3>3, <3>4 DEF Ages, NoRow, NoLink
    <3>6. RowsTracked'
      BY <3>2 DEF RowsTracked
    <3>7. BatchTracked'
      BY <3>1, <3>4 DEF Tracked, BatchTracked
    <3> QED
      BY <2>1, <3>1, <3>5, <3>6, <3>7, ThreadTracked
  <2> QED
    BY <2>2, <2>3
<1>3. CASE ReadDrafts(h)
  <2>1. PICK c : /\ Continue(h, c)
                 /\ \/ c = Idle
                    \/ \E todo \in SUBSET Recipient :
                          c = [op |-> "draft", todo |-> todo, link |-> run]
    BY <1>3 DEF ReadDrafts, Return, Continue
  <2>2. c \in Call /\ CallTracked(c)
    BY <2>1, IdleCall, IdleTracked DEF Call, CallTracked, Kept, TypeOK, Link
  <2> QED
    BY <1>3, <2>1, <2>2, OnlyTheCallTracked DEF ReadDrafts, Tables, Provider
<1>4. CASE DraftMessage(h)
  <2> DEFINE c == call[h]
             r == First(c.todo)
             row == [recipient[r] EXCEPT !.body = c.link]
  <2>1. /\ c \in Call /\ CallBacked(c) /\ CallTracked(c) /\ c.op = "draft"
        /\ c.todo \in SUBSET Recipient /\ c.todo # {} /\ c.link = 1 /\ c.link \in Link
    <3>1. c \in Call /\ CallBacked(c) /\ CallTracked(c) /\ c.op = "draft"
      BY <1>4, Kinds DEF DraftMessage, Tracked
    <3> QED
      BY <3>1, CallFields DEF CallBacked, CallTracked
  <2>2. r \in Recipient
    BY <2>1, FirstIsLeft
  <2>3. recipient[r] # NoRow => row \in Row /\ RowTracked(r, row)
    <3>1. recipient[r] # NoRow =>
              /\ row \in Row /\ row.body = 1 /\ row.sid = recipient[r].sid
              /\ row.due = recipient[r].due /\ row.link = recipient[r].link
              /\ row.status = recipient[r].status
      BY <2>1, <2>2 DEF Kept, TypeOK, Row, Draft
    <3> HIDE DEF row
    <3> QED
      BY <2>2, <3>1 DEF RowTracked, Tracked, RowsTracked
  <2>4. PICK d \in Call : CallTracked(d) /\ CallTracked(d)' /\ Continue(h, d)
    <3>1. CASE c.todo = {r}
      BY <1>4, <3>1, IdleCall, IdleTracked DEF DraftMessage, Return, Continue
    <3>2. CASE c.todo # {r}
      <4>1. PICK d : d = [op |-> "draft", todo |-> c.todo \ {r}, link |-> c.link]
        OBVIOUS
      <4>2. [c EXCEPT !.todo = @ \ {r}] = d
        BY <2>1, <4>1 DEF Call
      <4>3. d \in Call /\ CallTracked(d) /\ CallTracked(d)'
        BY <2>1, <4>1 DEF Call, CallTracked
      <4> QED
        BY <1>4, <3>2, <4>2, <4>3 DEF DraftMessage
    <3> QED
      BY <3>1, <3>2
  <2>5. UpdateRow(r, row) /\ UNCHANGED <<batch, accepted, refused>>
    BY <1>4 DEF DraftMessage, Provider
  <2> HIDE DEF row, r, c
  <2>6. Ages /\ RowsTracked' /\ BatchTracked'
    BY <2>2, <2>3, <2>5, RowStaysTracked
  <2> QED
    BY <2>4, <2>6, ThreadTracked
<1> QED
  BY <1>1, <1>2, <1>3, <1>4 DEF Prepare

\* approve_and_send_batch
LEMMA SendingTracked ==
    ASSUME Kept, Tracked, NEW h \in Handler,
           call[h].op \in {"approve", "send", "record_sent"}
    PROVE  /\ CallTracked(call[h])
           /\ \A r \in Recipient :
                  /\ call[h].bodies[r] = 1 /\ recipient[r].body = 1
                  /\ recipient[r] # NoRow /\ recipient[r] \in Row /\ recipient[r].link = 1
           /\ batch # Absent
<1>1. /\ CallTracked(call[h])
      /\ \A r \in Recipient : call[h].bodies[r] = 1 /\ recipient[r].body = 1
  BY DEF Tracked, CallTracked
<1>2. \A r \in Recipient : recipient[r] # NoRow /\ recipient[r] \in Row
  BY <1>1, StoredRow DEF NoLink
<1>3. \A r \in Recipient : recipient[r].link = 1
  BY <1>2 DEF Tracked, RowsTracked
<1>4. 1 \in Recipient
  BY RecoveryAssumption DEF Recipient
<1>5. batch # Absent
  BY <1>2, <1>4 DEF Kept, TypeOK
<1> QED
  BY <1>1, <1>2, <1>3, <1>5

LEMMA RemainingTracked ==
    ASSUME Kept, Tracked, Ages, NEW h \in Handler, call[h].op \in {"send", "record_sent"},
           NEW r \in Recipient, Attempted(r)', NEW d, d = Remaining(h, r)
    PROVE  CallTracked(d)'
<1>1. /\ call[h].todo \in SUBSET Recipient /\ call[h].todo # {}
      /\ \A q \in Recipient : call[h].bodies[q] = 1 /\ recipient[q].body = 1
      /\ Approved /\ \A q \in Recipient \ call[h].todo : Attempted(q)
  BY Sending, SendingTracked DEF CallTracked
<1>2. /\ Approved' /\ \A q \in Recipient \ call[h].todo : Attempted(q)'
      /\ \A q \in Recipient : recipient'[q].body = 1
  BY <1>1 DEF Ages
<1>3. CASE call[h].todo = {r}
  BY <1>2, <1>3 DEF Remaining, CallTracked
<1>4. CASE call[h].todo # {r}
  <2>1. d.op = "send" /\ d.todo = call[h].todo \ {r} /\ d.bodies = call[h].bodies
    BY <1>4 DEF Remaining
  <2>2. \A q \in Recipient \ d.todo : Attempted(q)'
    BY <1>2, <2>1
  <2> QED
    BY <1>1, <1>2, <2>1, <2>2 DEF CallTracked
<1> QED
  BY <1>3, <1>4

LEMMA ApproveTracked ==
    ASSUME Kept, Kept', Tracked, run = 1, run' = 1, NEW h \in Handler, Approve(h)
    PROVE  Tracked'
<1>1. CASE StartApproval(h)
  <2> DEFINE c == [op |-> "approve", todo |-> Recipient,
                   bodies |-> [r \in Recipient |-> recipient[r].body]]
  <2>1. c \in Call
    BY DEF Call, Kept, TypeOK, Row, NoRow, Draft
  <2>2. \A r \in Recipient : recipient[r].body = 1
    BY <1>1 DEF StartApproval, Tracked, RowsTracked
  <2>3. CallTracked(c)
    BY <2>2 DEF CallTracked
  <2>4. Continue(h, c)
    BY <1>1 DEF StartApproval, Begin, Continue
  <2> HIDE DEF c
  <2> QED
    BY <1>1, <2>1, <2>3, <2>4, OnlyTheCallTracked DEF StartApproval, Tables, Provider
<1>2. CASE MarkApproved(h)
  <2>1. PICK c : c = [op |-> "send", todo |-> call[h].todo, bodies |-> call[h].bodies]
    OBVIOUS
  <2>2. /\ call[h] \in Call /\ call[h].op = "approve"
        /\ call[h].todo \in SUBSET Recipient /\ call[h].todo # {}
        /\ call[h].bodies \in [Recipient -> Draft]
    BY <1>2, Kinds, Sending DEF MarkApproved
  <2>3. [call[h] EXCEPT !.op = "send"] = c
    BY <2>1, <2>2 DEF Call
  <2>4. c \in Call /\ Continue(h, c)
    BY <1>2, <2>1, <2>2, <2>3 DEF Call, MarkApproved
  <2>5. /\ batch' = "approved" /\ UNCHANGED <<recipient, accepted, refused>>
    BY <1>2, <2>2, SendingTracked DEF MarkApproved, Provider
  <2>6. Grows
    BY <2>5, NothingAccepted DEF Kept
  <2>7. Ages
    BY <2>5, <2>6 DEF Ages, Attempted, Approved
  <2>8. c.todo = Recipient
    BY <2>1, <2>2, SendingTracked DEF CallTracked
  <2>9. CallTracked(c)'
    BY <2>1, <2>2, <2>5, <2>8, SendingTracked DEF CallTracked, Approved
  <2>10. RowsTracked' /\ BatchTracked'
    BY <2>5 DEF Tracked, RowsTracked, Own, BatchTracked, Approved
  <2> QED
    BY <2>4, <2>7, <2>9, <2>10, ThreadTracked
<1>3. CASE SendAccepted(h)
  <2>1. PICK r \in Recipient : r = First(call[h].todo) /\ r \in call[h].todo
    BY <1>3, Sending DEF SendAccepted
  <2>2. PICK c : c = [op |-> "record_sent", todo |-> call[h].todo,
                      bodies |-> call[h].bodies, to |-> r, sid |-> NextSid(r)]
    OBVIOUS
  <2>3. /\ call[h].op = "send" /\ CallTracked(call[h])
        /\ call[h].todo \in SUBSET Recipient /\ call[h].bodies \in [Recipient -> Draft]
        /\ \A q \in Recipient : call[h].bodies[q] = 1 /\ recipient[q].body = 1
    BY <1>3, Sending, SendingTracked DEF SendAccepted
  <2>4. /\ Accept(r, "approval", call[h].bodies[r]) /\ Continue(h, c)
        /\ UNCHANGED <<batch, recipient, refused>>
    BY <1>3, <2>1, <2>2 DEF SendAccepted, Tables
  <2>5. call[h].bodies[r] \in Draft
    BY <2>3
  <2>6. /\ AcceptedType' /\ Grows /\ NextSid(r) \in Sid
        /\ Len(accepted'[r]) = NextSid(r)
        /\ accepted'[r][NextSid(r)].by = "approval"
        /\ accepted'[r][NextSid(r)].link = call[h].bodies[r]
    BY <2>4, <2>5, Accepting, Kinds DEF By
  <2>7. c \in Call
    BY <2>1, <2>2, <2>3, <2>6 DEF Call
  <2>8. Ages
    BY <2>4, <2>6 DEF Ages, Attempted, Approved
  <2>9. Own(r, c.sid)'
    <3>1. c.sid = NextSid(r) /\ c.sid \in 1..Len(accepted'[r])
      BY <2>2, <2>6 DEF Sid
    <3> QED
      BY <2>3, <2>6, <3>1 DEF Own
  <2>10. CallTracked(c)'
    <3>1. Approved /\ \A q \in Recipient \ call[h].todo : Attempted(q)
      BY <2>3 DEF CallTracked
    <3> QED
      BY <2>2, <2>3, <2>4, <2>9, <3>1 DEF CallTracked, Approved, Attempted
  <2>11. RowsTracked'
    BY <2>4, <2>6, OwnStays, Kinds DEF Tracked, RowsTracked
  <2>12. BatchTracked'
    <3>1. Approved
      BY <2>3 DEF CallTracked
    <3> QED
      BY <2>4, <3>1 DEF Tracked, BatchTracked, Approved, Attempted
  <2> QED
    BY <2>4, <2>7, <2>8, <2>10, <2>11, <2>12, ThreadTracked
<1>4. CASE SendRefused(h)
  <2>1. PICK r \in Recipient : r = First(call[h].todo)
    BY <1>4, Sending DEF SendRefused
  <2>2. PICK c : c = Remaining(h, r)
    OBVIOUS
  <2>3. /\ call[h].op = "send" /\ Continue(h, c) /\ refused' = refused \cup {r}
        /\ UNCHANGED <<batch, recipient, accepted>>
    BY <1>4, <2>1, <2>2 DEF SendRefused, Tables
  <2>4. c \in Call
    BY <2>2, <2>3, RemainingKind
  <2>5. Grows
    BY <2>3, NothingAccepted DEF Kept
  <2>6. Ages
    BY <2>3, <2>5 DEF Ages, Attempted, Approved
  <2>7. CallTracked(c)'
    BY <2>2, <2>3, <2>6, RemainingTracked DEF Attempted
  <2>8. RowsTracked' /\ BatchTracked'
    BY <2>3 DEF Tracked, RowsTracked, Own, BatchTracked, Approved, Attempted
  <2> QED
    BY <2>3, <2>4, <2>6, <2>7, <2>8, ThreadTracked
<1>5. CASE RecordSent(h)
  <2>1. PICK c : c = call[h]
    OBVIOUS
  <2>2. /\ c \in Call /\ c.op = "record_sent" /\ c.to \in Recipient /\ c.sid \in Sid
        /\ CallTracked(c)
    BY <1>5, <2>1, Kinds, CallFields DEF RecordSent, Tracked
  <2>3. PICK row : row = [recipient[c.to] EXCEPT !.status = "sent", !.sid = c.sid,
                                                 !.due = "pending"]
    OBVIOUS
  <2>4. PICK d : d = Remaining(h, c.to)
    OBVIOUS
  <2>5. /\ UpdateRow(c.to, row) /\ Continue(h, d)
        /\ UNCHANGED <<batch, accepted, refused>>
    BY <1>5, <2>1, <2>3, <2>4 DEF RecordSent, Provider
  <2>6. /\ recipient[c.to] # NoRow /\ recipient[c.to] \in Row
        /\ recipient[c.to].body = 1 /\ recipient[c.to].link = 1
    BY <2>1, <2>2, SendingTracked
  <2>7. /\ row \in Row /\ row.status = "sent" /\ row.sid = c.sid /\ row.due = "pending"
        /\ row.body = 1 /\ row.link = 1
    BY <2>2, <2>3, <2>6 DEF Row
  <2>8. RowTracked(c.to, row)
    BY <2>2, <2>7 DEF RowTracked, CallTracked, Sid
  <2>9. Ages /\ RowsTracked' /\ BatchTracked'
    BY <2>2, <2>5, <2>7, <2>8, RowStaysTracked
  <2>10. Attempted(c.to)'
    BY <2>2, <2>5, <2>6, <2>7, RowWritten DEF Kept, Attempted
  <2>11. CallTracked(d)' /\ d \in Call
    BY <2>1, <2>2, <2>4, <2>9, <2>10, RemainingTracked, RemainingKind
  <2> QED
    BY <2>5, <2>9, <2>11, ThreadTracked
<1>6. CASE FinishApproval(h)
  <2>1. call[h].op = "finish" /\ CallTracked(call[h])
    BY <1>6 DEF FinishApproval, Tracked
  <2>2. Approved /\ \A r \in Recipient : Attempted(r)
    BY <2>1 DEF CallTracked
  <2>3. /\ Continue(h, Idle) /\ batch' = "sent"
        /\ UNCHANGED <<recipient, accepted, refused>>
    BY <1>6, <2>2 DEF FinishApproval, Return, Continue, Provider, Approved, Absent
  <2>4. Grows
    BY <2>3, NothingAccepted DEF Kept
  <2>5. Ages
    BY <2>3, <2>4 DEF Ages, Attempted, Approved
  <2>6. RowsTracked' /\ BatchTracked'
    BY <2>2, <2>3 DEF Tracked, RowsTracked, Own, BatchTracked, Approved, Attempted
  <2> QED
    BY <2>3, <2>5, <2>6, IdleCall, IdleTracked, ThreadTracked
<1> QED
  BY <1>1, <1>2, <1>3, <1>4, <1>5, <1>6 DEF Approve

\* run_follow_up_monitor
LEMMA NextFollowUpTracked ==
    ASSUME Kept, Tracked, NEW h \in Handler, NEW r \in Recipient, NEW d, d = NextFollowUp(h, r),
           call[h].op \in {"follow_up", "record_follow_up"}
    PROVE  CallTracked(d)
<1>1. \A q \in call[h].todo : recipient[q].sid # 0
  BY DEF Tracked, CallTracked
<1>2. CASE call[h].todo = {r}
  BY <1>2, IdleTracked DEF NextFollowUp
<1>3. CASE call[h].todo # {r}
  BY <1>1, <1>3 DEF NextFollowUp, CallTracked
<1> QED
  BY <1>2, <1>3

LEMMA FollowUpTracked ==
    ASSUME Kept, Kept', Tracked, run = 1, NEW h \in Handler, FollowUp(h)
    PROVE  Tracked'
<1>1. CASE ReadDue(h)
  <2> DEFINE todo == {r \in Recipient : Due(r)}
             c == [op |-> "follow_up", todo |-> todo, link |-> run]
  <2>1. \A r \in todo : recipient[r].sid # 0
    BY DEF Due, Tracked, RowsTracked
  <2>2. todo \in SUBSET Recipient /\ run \in Link
    BY DEF Kept, TypeOK, Link
  <2>3. Continue(h, c)
    BY <1>1 DEF ReadDue, Begin, Continue
  <2> HIDE DEF todo
  <2>4. c \in Call /\ CallTracked(c)
    BY <2>1, <2>2 DEF Call, CallTracked
  <2> QED
    BY <1>1, <2>3, <2>4, OnlyTheCallTracked DEF ReadDue, Tables, Provider
<1>2. ASSUME NEW r \in Recipient, FollowUpAccepted(h, r) PROVE Tracked'
  <2>1. PICK c : c = [op |-> "record_follow_up", todo |-> call[h].todo,
                      link |-> call[h].link, to |-> r]
    OBVIOUS
  <2>2. /\ call[h].op = "follow_up" /\ r \in call[h].todo
        /\ call[h].todo \in SUBSET Recipient
        /\ call[h].link \in Link /\ call[h].link \in Draft
        /\ CallTracked(call[h]) /\ Len(accepted[r]) > 0
    BY <1>2, FollowingUp DEF FollowUpAccepted, Tracked, Draft
  <2>3. /\ Accept(r, "follow_up", call[h].link) /\ Continue(h, c)
        /\ UNCHANGED <<batch, recipient, refused>>
    BY <1>2, <2>1 DEF FollowUpAccepted, Tables
  <2>4. AcceptedType' /\ Grows
    BY <2>2, <2>3, Accepting, Kinds DEF By
  <2>5. Ages
    BY <2>3, <2>4 DEF Ages, Attempted, Approved
  <2>6. c \in Call
    BY <2>1, <2>2 DEF Call
  <2>7. CallTracked(c)'
    BY <2>1, <2>2, <2>3 DEF CallTracked
  <2>8. RowsTracked'
    BY <2>3, <2>4, OwnStays, Kinds DEF Tracked, RowsTracked
  <2>9. BatchTracked'
    BY <2>2, <2>3 DEF Tracked, BatchTracked, Approved, Attempted
  <2> QED
    BY <2>3, <2>5, <2>6, <2>7, <2>8, <2>9, ThreadTracked
<1>3. ASSUME NEW r \in Recipient, FollowUpRefused(h, r) PROVE Tracked'
  <2>1. PICK c : c = NextFollowUp(h, r)
    OBVIOUS
  <2>2. c \in Call /\ CallTracked(c)
    BY <1>3, <2>1, NextFollowUpKind, NextFollowUpTracked DEF FollowUpRefused
  <2> QED
    BY <1>3, <2>1, <2>2, OnlyTheCallTracked DEF FollowUpRefused, Tables, Provider
<1>4. CASE RecordFollowUp(h)
  <2>1. PICK c : c = call[h]
    OBVIOUS
  <2>2. /\ c \in Call /\ c.op = "record_follow_up" /\ c.to \in Recipient
        /\ CallTracked(c)
    BY <1>4, <2>1, Kinds, CallFields DEF RecordFollowUp, Tracked
  <2>3. PICK row : row = [recipient[c.to] EXCEPT !.status = "follow_up_sent"]
    OBVIOUS
  <2>4. PICK d : d = NextFollowUp(h, c.to)
    OBVIOUS
  <2>5. /\ UpdateRow(c.to, row) /\ Continue(h, d)
        /\ UNCHANGED <<batch, accepted, refused>>
    BY <1>4, <2>1, <2>3, <2>4 DEF RecordFollowUp, Provider
  <2>6. recipient[c.to].sid # 0
    BY <2>2 DEF CallTracked
  <2>7. /\ recipient[c.to] \in Row
        /\ recipient[c.to].link = 1 /\ recipient[c.to].body = 1
        /\ Own(c.to, recipient[c.to].sid)
    BY <2>2, <2>6, StoredRow DEF Tracked, RowsTracked
  <2>8. /\ row \in Row /\ row.status = "follow_up_sent" /\ row.link = 1 /\ row.body = 1
        /\ row.sid = recipient[c.to].sid
    BY <2>3, <2>7 DEF Row
  <2>9. RowTracked(c.to, row)
    BY <2>6, <2>7, <2>8 DEF RowTracked
  <2>10. Ages /\ RowsTracked' /\ BatchTracked'
    BY <2>2, <2>5, <2>8, <2>9, RowStaysTracked
  <2>11. d \in Call /\ CallTracked(d)'
    <3>1. d \in Call /\ CallTracked(d)
      BY <2>1, <2>2, <2>4, NextFollowUpKind, NextFollowUpTracked DEF CallTracked
    <3> QED
      BY <2>10, <3>1, CallStaysTracked DEF Kept, TypeOK, AcceptedType
  <2> QED
    BY <2>5, <2>10, <2>11, ThreadTracked
<1> QED
  BY <1>1, <1>2, <1>3, <1>4 DEF FollowUp

\* retry_undelivered_customer_message
LEMMA RetryTracked ==
    ASSUME Kept, Kept', Tracked, NEW h \in Handler, Retry(h)
    PROVE  Tracked'
<1>1. ASSUME NEW r \in Recipient, StartRetry(h, r) PROVE Tracked'
  <2>1. PICK c : c = [op |-> "check", to |-> r, body |-> recipient[r].body,
                      sid |-> recipient[r].sid]
    OBVIOUS
  <2>2. recipient[r].sid # 0 /\ recipient[r] \in Row /\ recipient[r].body = 1
    BY <1>1, StoredRow DEF StartRetry, Tracked, RowsTracked
  <2>3. c \in Call
    BY <2>1, <2>2 DEF Call, Row
  <2>4. CallTracked(c) /\ Continue(h, c)
    BY <1>1, <2>1, <2>2 DEF CallTracked, StartRetry, Begin, Continue
  <2> QED
    BY <1>1, <2>3, <2>4, OnlyTheCallTracked DEF StartRetry, Tables, Provider
<1>2. CASE CheckDelivery(h)
  <2>1. /\ call[h].op = "check" /\ CallTracked(call[h])
        /\ call[h].to \in Recipient /\ call[h].body \in Draft
    BY <1>2, Kinds, CallFields DEF CheckDelivery, Tracked
  <2>2. PICK c : /\ Continue(h, c)
                 /\ c \in {Idle, [op |-> "resend", to |-> call[h].to, body |-> call[h].body]}
    BY <1>2 DEF CheckDelivery
  <2>3. c \in Call /\ CallTracked(c)
    BY <2>1, <2>2, IdleCall, IdleTracked DEF Call, CallTracked
  <2> QED
    BY <1>2, <2>2, <2>3, OnlyTheCallTracked DEF CheckDelivery, Tables, Provider
<1>3. CASE RetryAccepted(h)
  <2>1. /\ call[h].op = "resend" /\ CallTracked(call[h]) /\ CallBacked(call[h])
        /\ call[h].to \in Recipient /\ call[h].body \in Draft /\ call[h].body = 1
        /\ recipient[call[h].to].body = 1 /\ Failed(call[h].to)
    BY <1>3, Kinds, CallFields DEF RetryAccepted, Tracked, CallTracked, CallBacked
  <2>2. PICK r \in Recipient : r = call[h].to
    BY <2>1
  <2>3. PICK c : c = [op |-> "record_retry", to |-> r, sid |-> NextSid(r)]
    OBVIOUS
  <2>4. /\ Accept(r, "retry", call[h].body) /\ Continue(h, c)
        /\ UNCHANGED <<batch, recipient, refused>>
    BY <1>3, <2>2, <2>3 DEF RetryAccepted, Tables
  <2>5. /\ AcceptedType' /\ Grows /\ NextSid(r) \in Sid
        /\ Len(accepted'[r]) = NextSid(r)
        /\ accepted'[r][NextSid(r)].by = "retry"
        /\ accepted'[r][NextSid(r)].link = 1
    BY <2>1, <2>4, Accepting, Kinds DEF By
  <2>6. Ages
    BY <2>4, <2>5 DEF Ages, Attempted, Approved
  <2>7. c \in Call
    BY <2>3, <2>5 DEF Call
  <2>8. Own(r, c.sid)'
    <3>1. c.sid = NextSid(r) /\ c.sid \in 1..Len(accepted'[r])
      BY <2>3, <2>5 DEF Sid
    <3> QED
      BY <2>5, <3>1 DEF Own
  <2>9. CallTracked(c)'
    BY <2>1, <2>2, <2>3, <2>4, <2>8 DEF CallTracked
  <2>10. RowsTracked'
    BY <2>4, <2>5, OwnStays, Kinds DEF Tracked, RowsTracked
  <2>11. BatchTracked'
    <3>1. Len(accepted[r]) > 0
      BY <2>1, <2>2, Kinds DEF Failed, AcceptedType
    <3> QED
      BY <2>4, <3>1 DEF Tracked, BatchTracked, Approved, Attempted
  <2> QED
    BY <2>4, <2>6, <2>7, <2>9, <2>10, <2>11, ThreadTracked
<1>4. CASE RecordRetry(h)
  <2>1. PICK c : c = call[h]
    OBVIOUS
  <2>2. /\ c \in Call /\ c.op = "record_retry" /\ c.to \in Recipient /\ c.sid \in Sid
        /\ Own(c.to, c.sid) /\ recipient[c.to].body = 1
    BY <1>4, <2>1, Kinds, CallFields DEF RecordRetry, Tracked, CallTracked
  <2>3. PICK row : row = [recipient[c.to] EXCEPT !.status = "sent", !.sid = c.sid,
                                                 !.due = "pending"]
    OBVIOUS
  <2>4. /\ UpdateRow(c.to, row) /\ Continue(h, Idle)
        /\ UNCHANGED <<batch, accepted, refused>>
    BY <1>4, <2>1, <2>3 DEF RecordRetry, Provider, Return, Continue
  <2>5. recipient[c.to] \in Row /\ recipient[c.to].link = 1
    BY <2>2, StoredRow DEF Tracked, RowsTracked, NoLink
  <2>6. /\ row \in Row /\ row.status = "sent" /\ row.sid = c.sid /\ row.due = "pending"
        /\ row.body = 1 /\ row.link = 1
    BY <2>2, <2>3, <2>5 DEF Row
  <2>7. RowTracked(c.to, row)
    BY <2>2, <2>6 DEF RowTracked, Sid
  <2>8. Ages /\ RowsTracked' /\ BatchTracked'
    BY <2>2, <2>4, <2>6, <2>7, RowStaysTracked
  <2> QED
    BY <2>4, <2>8, IdleCall, IdleTracked, ThreadTracked
<1> QED
  BY <1>1, <1>2, <1>3, <1>4 DEF Retry

LEMMA EndsTracked ==
    ASSUME Kept, Kept', Tracked, NEW h \in Handler, RequestFails(h) \/ AnswerLost(h)
    PROVE  Tracked'
<1>1. Continue(h, Idle)
  BY DEF RequestFails, AnswerLost, Return, Continue
<1>2. CASE RequestFails(h)
  BY <1>1, <1>2, IdleCall, IdleTracked, OnlyTheCallTracked DEF RequestFails, Tables, Provider
<1>3. CASE AnswerLost(h)
  <2>1. Sends(h) /\ UNCHANGED <<batch, recipient, refused>>
    BY <1>3 DEF AnswerLost, Sends, Tables
  <2>2. PICK r \in Recipient, by \in By, link \in Draft :
           /\ Accept(r, by, link)
           /\ by = "follow_up" => Len(accepted[r]) > 0
           /\ by = "retry" => Failed(r)
    BY <2>1, SendsWhat
  <2>3. AcceptedType' /\ Grows
    BY <2>2, Accepting, Kinds
  <2>4. Ages
    BY <2>1, <2>3 DEF Ages, Attempted, Approved
  <2>5. RowsTracked'
    BY <2>1, <2>3, OwnStays, Kinds DEF Tracked, RowsTracked
  <2>6. Approved
    <3>1. CASE call[h].op = "send"
      BY <3>1 DEF Tracked, CallTracked
    <3>2. CASE call[h].op = "follow_up"
      BY <3>2, FollowingUp DEF Tracked, BatchTracked
    <3>3. CASE call[h].op = "resend"
      <4>1. call[h].to \in Recipient /\ Failed(call[h].to)
        BY <3>3, Kinds, CallFields DEF CallBacked
      <4>2. Len(accepted[call[h].to]) > 0
        BY <4>1, Kinds DEF Failed, AcceptedType
      <4> QED
        BY <4>1, <4>2 DEF Tracked, BatchTracked
    <3> QED
      BY <2>1, <3>1, <3>2, <3>3 DEF Sends
  <2>7. BatchTracked'
    BY <2>1, <2>6 DEF Tracked, BatchTracked, Approved, Attempted
  <2> QED
    BY <1>1, <2>4, <2>5, <2>7, IdleCall, IdleTracked, ThreadTracked
<1> QED
  BY <1>2, <1>3

\* The threads are where they were.
LEMMA CallsStayTracked ==
    ASSUME Kept, Kept', Tracked, Ages, UNCHANGED call, RowsTracked', BatchTracked'
    PROVE  Tracked'
<1> SUFFICES ASSUME NEW h \in Handler PROVE CallTracked(call[h])'
  BY DEF Tracked
<1>1. \A c \in Call : CallTracked(c) => CallTracked(c)'
  BY CallStaysTracked DEF Kept, TypeOK, AcceptedType
<1>2. \A c : CallTracked(c)' /\ c = call'[h] => CallTracked(call[h])'
  BY DEF CallTracked, Own, Attempted, Approved
<1> QED
  BY <1>1, <1>2, Kinds DEF Tracked

LEMMA CustomerTracked ==
    ASSUME Kept, Kept', Tracked, NEW r \in Recipient, Customer(r)
    PROVE  Tracked'
<1>1. PICK row : UpdateRow(r, row) /\ row \in Row /\ RowTracked(r, row)
  <2>1. ASSUME recipient[r] # NoRow
        PROVE  recipient[r] \in Row /\ recipient[r].link = 1
    BY <2>1 DEF Kept, TypeOK, Tracked, RowsTracked
  <2>2. CASE RecordLinkOpen(r)
    <3>1. PICK row : row = [recipient[r] EXCEPT !.status = "opened"]
      OBVIOUS
    <3>2. /\ recipient[r] # NoRow /\ recipient[r].status = "sent" /\ UpdateRow(r, row)
          /\ recipient[r].sid # 0
      BY <2>2, <3>1 DEF RecordLinkOpen, KnownLink, UpdateRow, Tracked, RowsTracked
    <3>3. /\ row \in Row /\ row.status = "opened" /\ row.link = 1
          /\ row.sid = recipient[r].sid /\ row.body = recipient[r].body
      BY <2>1, <3>1, <3>2 DEF Row
    <3>4. RowTracked(r, row)
      BY <3>2, <3>3 DEF RowTracked, Tracked, RowsTracked
    <3> QED
      BY <3>2, <3>3, <3>4
  <2>3. CASE RecordPaymentComplete(r)
    <3>1. PICK row : row = [recipient[r] EXCEPT !.status = "completed"]
      OBVIOUS
    <3>2. recipient[r] # NoRow /\ UpdateRow(r, row)
      BY <2>3, <3>1 DEF RecordPaymentComplete, KnownLink, UpdateRow
    <3>3. /\ row \in Row /\ row.status = "completed" /\ row.link = 1
          /\ row.sid = recipient[r].sid /\ row.body = recipient[r].body
          /\ row.due = recipient[r].due
      BY <2>1, <3>1, <3>2 DEF Row
    <3>4. RowTracked(r, row)
      BY <3>3 DEF RowTracked, Tracked, RowsTracked
    <3> QED
      BY <3>2, <3>3, <3>4
  <2>4. CASE FollowUpFallsDue(r)
    <3>1. PICK row : row = [recipient[r] EXCEPT !.due = "due"]
      OBVIOUS
    <3>2. /\ recipient[r] # NoRow /\ recipient[r].sid # 0 /\ UpdateRow(r, row)
      BY <2>4, <3>1, StoredRow DEF FollowUpFallsDue, UpdateRow, Tracked, RowsTracked
    <3>3. /\ row \in Row /\ row.status = recipient[r].status /\ row.link = 1
          /\ row.sid = recipient[r].sid /\ row.body = recipient[r].body
      BY <2>1, <3>1, <3>2 DEF Row
    <3>4. RowTracked(r, row)
      BY <3>2, <3>3 DEF RowTracked, Tracked, RowsTracked
    <3> QED
      BY <3>2, <3>3, <3>4
  <2> QED
    BY <2>2, <2>3, <2>4 DEF Customer
<1>2. UNCHANGED <<batch, accepted, refused, call>>
  BY DEF Customer, RecordLinkOpen, RecordPaymentComplete, FollowUpFallsDue, Provider
<1>3. Ages /\ RowsTracked' /\ BatchTracked'
  BY <1>1, <1>2, RowStaysTracked
<1> QED
  BY <1>2, <1>3, CallsStayTracked

LEMMA ReportFailedTracked ==
    ASSUME Kept, Kept', Tracked, NEW r \in Recipient, NEW i \in 1..Len(accepted[r]), ReportFailed(r, i)
    PROVE  Tracked'
<1>1. /\ AcceptedType' /\ Grows
      /\ \A q \in Recipient : Len(accepted'[q]) = Len(accepted[q])
  BY ReportingFailed, Kinds
<1>2. UNCHANGED <<batch, recipient, refused, call>>
  BY DEF ReportFailed, Tables
<1>3. Ages
  BY <1>1, <1>2 DEF Ages, Attempted, Approved
<1>4. RowsTracked'
  BY <1>1, <1>2, OwnStays, Kinds DEF Tracked, RowsTracked
<1>5. BatchTracked'
  BY <1>1, <1>2 DEF Tracked, BatchTracked, Approved, Attempted
<1> QED
  BY <1>2, <1>3, <1>4, <1>5, CallsStayTracked

LEMMA StillTracked ==
    ASSUME Kept, Kept', Tracked, UNCHANGED <<batch, recipient, accepted, refused, call>>
    PROVE  Tracked'
<1>1. Grows
  BY NothingAccepted DEF Kept
<1>2. Ages
  BY <1>1 DEF Ages, Attempted, Approved
<1>3. RowsTracked' /\ BatchTracked'
  BY DEF Tracked, RowsTracked, Own, BatchTracked, Approved, Attempted
<1> QED
  BY <1>2, <1>3, CallsStayTracked

LEMMA CrashTracked ==
    ASSUME Kept, Tracked, Crash
    PROVE  Tracked'
<1>1. \A h \in Handler : CallTracked(call[h])'
  <2>1. \A h \in Handler : call'[h] = Idle
    BY DEF Crash
  <2> QED
    BY <2>1 DEF CallTracked, Idle
<1>2. RowsTracked' /\ BatchTracked'
  BY DEF Crash, Tables, Provider, Tracked, RowsTracked, Own, BatchTracked, Approved, Attempted
<1> QED
  BY <1>1, <1>2 DEF Tracked

\* Only a new run changes which run is current.
LEMMA OnlyNewRuns ==
    ASSUME [Next]_vars
    PROVE  run' = run \/ NewRun
<1>1. ASSUME NEW h \in Handler, Prepare(h) \/ Approve(h) \/ FollowUp(h) \/ Retry(h)
                                 \/ RequestFails(h) \/ AnswerLost(h)
      PROVE  run' = run
  BY <1>1 DEF Prepare, StartPrepare, InsertBatch, ReadDrafts, DraftMessage,
              Approve, StartApproval, MarkApproved, SendAccepted, SendRefused, RecordSent,
              FinishApproval, FollowUp, ReadDue, FollowUpAccepted, FollowUpRefused,
              RecordFollowUp, Retry, StartRetry, CheckDelivery, RetryAccepted, RecordRetry,
              RequestFails, AnswerLost
<1>2. ASSUME NEW r \in Recipient, Customer(r) PROVE run' = run
  BY <1>2 DEF Customer, RecordLinkOpen, RecordPaymentComplete, FollowUpFallsDue
<1>3. ASSUME NEW r, NEW i, ReportFailed(r, i) PROVE run' = run
  BY <1>3 DEF ReportFailed
<1>4. ASSUME NEW scope, Investigate(scope) PROVE run' = run
  BY <1>4 DEF Investigate
<1>5. Crash \/ UNCHANGED vars => run' = run
  BY DEF Crash, vars
<1> QED
  BY <1>1, <1>2, <1>3, <1>4, <1>5 DEF Next

LEMMA FirstRunStep ==
    ASSUME Kept, Kept', FirstRun, [Next]_vars
    PROVE  FirstRun'
<1> SUFFICES ASSUME run' = 1 PROVE Tracked'
  BY DEF FirstRun
<1>1. run = 1 /\ ~NewRun
  <2>1. run \in Nat /\ run >= 1
    BY RecoveryAssumption DEF Kept, TypeOK
  <2>2. ~NewRun
    BY <2>1 DEF NewRun
  <2>3. run' = run
    BY <2>2, OnlyNewRuns
  <2> QED
    BY <2>2, <2>3
<1>2. Tracked
  BY <1>1 DEF FirstRun
<1>3. CASE UNCHANGED vars
  BY <1>2, <1>3, StillTracked DEF vars
<1>4. ASSUME NEW scope, Investigate(scope) PROVE Tracked'
  BY <1>2, <1>4, StillTracked DEF Investigate, Provider
<1> QED
  BY <1>1, <1>2, <1>3, <1>4, PrepareTracked, ApproveTracked, FollowUpTracked, RetryTracked,
     EndsTracked, CustomerTracked, ReportFailedTracked, CrashTracked DEF Next

LEMMA AlwaysFirstRun == Spec => []FirstRun
<1>1. Init => FirstRun
  <2> SUFFICES ASSUME Init PROVE Tracked
    BY DEF FirstRun
  <2>1. \A h \in Handler : CallTracked(call[h])
    <3>1. \A h \in Handler : call[h] = Idle
      BY DEF Init
    <3> QED
      BY <3>1 DEF CallTracked, Idle
  <2>2. \A r \in Recipient : recipient[r] = NoRow /\ Len(accepted[r]) = 0
    BY EmptySeq DEF Init
  <2>3. RowsTracked
    BY <2>2 DEF RowsTracked, NoRow
  <2>4. BatchTracked
    BY <2>2 DEF Init, BatchTracked, Absent
  <2> QED
    BY <2>1, <2>3, <2>4 DEF Tracked
<1>2. Kept /\ Kept' /\ FirstRun /\ [Next]_vars => FirstRun'
  BY FirstRunStep
<1> QED
  BY <1>1, <1>2, AlwaysKept, PTL DEF Spec

-----------------------------------------------------------------------------
\* In every run: a sid on a row, or about to be written into one, is that of a
\* message of the recipient's that is no follow-up.
IsTracked(r, sid) == sid \in 1..Len(accepted[r]) /\ accepted[r][sid].by # "follow_up"

Records(c) == c.op \in {"record_sent", "record_retry"}

Shown == {"sent", "opened"}

RowsReal ==
    \A r \in Recipient :
        /\ recipient[r].status \in Shown => recipient[r].sid # 0
        /\ recipient[r].sid # 0 => IsTracked(r, recipient[r].sid)

CallsReal == \A h \in Handler : Records(call[h]) => IsTracked(call[h].to, call[h].sid)

Real == RowsReal /\ CallsReal

LEMMA StaysReal ==
    ASSUME Kept, [Next]_vars
    PROVE  Grows /\ \A r \in Recipient : \A sid : IsTracked(r, sid) => IsTracked(r, sid)'
<1>1. AcceptedType' /\ Grows
  <2>1. CASE UNCHANGED accepted
    BY <2>1, NothingAccepted DEF Kept
  <2>2. ASSUME NEW r \in Recipient, NEW i \in 1..Len(accepted[r]), ReportFailed(r, i)
        PROVE  AcceptedType' /\ Grows
    BY <2>2, ReportingFailed, Kinds
  <2>3. ASSUME NEW h \in Handler, Sends(h)
        PROVE  AcceptedType' /\ Grows
    BY <2>3, SendsWhat, Accepting, Kinds
  <2> QED
    BY <2>1, <2>2, <2>3, ProviderStep
<1>2. \A r \in Recipient : Len(accepted[r]) \in Nat /\ Len(accepted'[r]) \in Nat
  BY <1>1, Kinds DEF AcceptedType
<1> QED
  BY <1>1, <1>2 DEF Grows, IsTracked

\* A thread comes to record a message only when Twilio has just accepted it.
LEMMA CallReal ==
    ASSUME Kept, [Next]_vars, NEW h \in Handler, Records(call'[h]), call'[h] # call[h]
    PROVE  IsTracked(call[h].to, call[h].sid)'
<1>1. call \in [Handler -> Call]
  BY Kinds
<1>2. ASSUME NEW g \in Handler, NEW c, Continue(g, c), ~Records(c)
      PROVE  FALSE
  BY <1>1, <1>2 DEF Continue
<1>3. ASSUME NEW g \in Handler, NEW r \in Recipient, NEW by \in {"approval", "retry"},
             NEW link \in Draft, NEW c, Accept(r, by, link), Continue(g, c),
             c.to = r, c.sid = NextSid(r)
      PROVE  IsTracked(call[h].to, call[h].sid)'
  <2>1. /\ NextSid(r) \in Sid /\ Len(accepted'[r]) = NextSid(r)
        /\ accepted'[r][NextSid(r)].by = by
    BY <1>3, Accepting, Kinds DEF By
  <2>2. call'[h] = c
    BY <1>1, <1>3 DEF Continue
  <2>3. c.sid \in 1..Len(accepted'[r]) /\ accepted'[r][c.sid].by # "follow_up"
    BY <1>3, <2>1 DEF Sid
  <2> QED
    BY <1>3, <2>2, <2>3 DEF IsTracked
<1>4. ASSUME NEW g \in Handler, Prepare(g)
      PROVE  FALSE
  <2>1. \E c : Continue(g, c) /\ c.op \in {"prepare", "read_drafts", "idle", "draft"}
    <3>1. ASSUME NEW todo
          PROVE  /\ call[g] \in Call /\ call[g].op = "draft" =>
                        [call[g] EXCEPT !.todo = todo].op = "draft"
      BY DEF Call
    <3> QED
      BY <1>1, <1>4, <3>1 DEF Prepare, StartPrepare, InsertBatch, ReadDrafts, DraftMessage,
                              Begin, Return, Continue, Idle
  <2> QED
    BY <1>2, <2>1 DEF Records
<1>5. ASSUME NEW g \in Handler, Approve(g)
      PROVE  IsTracked(call[h].to, call[h].sid)'
  <2>1. CASE SendAccepted(g)
    <3>1. PICK r \in Recipient : r = First(call[g].todo)
      BY <2>1, Sending DEF SendAccepted
    <3>2. PICK c : c = [op |-> "record_sent", todo |-> call[g].todo,
                        bodies |-> call[g].bodies, to |-> r, sid |-> NextSid(r)]
      OBVIOUS
    <3>3. call[g].bodies[r] \in Draft
      BY <2>1, Sending DEF SendAccepted
    <3>4. Accept(r, "approval", call[g].bodies[r]) /\ Continue(g, c)
      BY <2>1, <3>1, <3>2 DEF SendAccepted
    <3>5. c.to = r /\ c.sid = NextSid(r)
      BY <3>2
    <3> QED
      BY <1>3, <3>3, <3>4, <3>5
  <2>2. ASSUME ~SendAccepted(g)
        PROVE  \E c : Continue(g, c) /\ ~Records(c)
    <3>1. CASE StartApproval(g)
      BY <3>1 DEF StartApproval, Begin, Continue, Records
    <3>2. CASE MarkApproved(g)
      <4>1. call[g] \in Call /\ call[g].op = "approve"
        BY <1>1, <3>2 DEF MarkApproved
      <4>2. [call[g] EXCEPT !.op = "send"].op = "send"
        BY <4>1 DEF Call
      <4> QED
        BY <3>2, <4>2 DEF MarkApproved, Records
    <3>3. CASE SendRefused(g)
      BY <3>3 DEF SendRefused, Remaining, Records
    <3>4. CASE RecordSent(g)
      BY <3>4 DEF RecordSent, Remaining, Records
    <3>5. CASE FinishApproval(g)
      BY <3>5 DEF FinishApproval, Return, Continue, Idle, Records
    <3> QED
      BY <1>5, <2>2, <3>1, <3>2, <3>3, <3>4, <3>5 DEF Approve
  <2> QED
    BY <1>2, <2>1, <2>2
<1>6. ASSUME NEW g \in Handler, FollowUp(g)
      PROVE  FALSE
  <2>1. \E c : Continue(g, c) /\ ~Records(c)
    BY <1>6 DEF FollowUp, ReadDue, FollowUpAccepted, FollowUpRefused, RecordFollowUp,
                NextFollowUp, Begin, Continue, Idle, Records
  <2> QED
    BY <1>2, <2>1
<1>7. ASSUME NEW g \in Handler, Retry(g)
      PROVE  IsTracked(call[h].to, call[h].sid)'
  <2>1. CASE RetryAccepted(g)
    <3>1. PICK r \in Recipient : r = call[g].to
      BY <2>1, Kinds, CallFields DEF RetryAccepted
    <3>2. PICK c : c = [op |-> "record_retry", to |-> r, sid |-> NextSid(r)]
      OBVIOUS
    <3>3. call[g].body \in Draft
      BY <2>1, Kinds, CallFields DEF RetryAccepted
    <3>4. Accept(r, "retry", call[g].body) /\ Continue(g, c)
      BY <2>1, <3>1, <3>2 DEF RetryAccepted
    <3>5. c.to = r /\ c.sid = NextSid(r)
      BY <3>2
    <3> QED
      BY <1>3, <3>3, <3>4, <3>5
  <2>2. ASSUME ~RetryAccepted(g)
        PROVE  \E c : Continue(g, c) /\ ~Records(c)
    BY <1>7, <2>2 DEF Retry, StartRetry, CheckDelivery, RecordRetry, Begin, Return, Continue,
                      Idle, Records
  <2> QED
    BY <1>2, <2>1, <2>2
<1>8. ASSUME NEW g \in Handler, RequestFails(g) \/ AnswerLost(g)
      PROVE  FALSE
  <2>1. Continue(g, Idle) /\ ~Records(Idle)
    BY <1>8 DEF RequestFails, AnswerLost, Return, Continue, Idle, Records
  <2> QED
    BY <1>2, <2>1
<1>9. Crash => FALSE
  BY DEF Crash, Idle, Records
<1>10. \/ NewRun \/ \E scope \in {"network", "merchant"} : Investigate(scope)
       \/ \E r \in Recipient : Customer(r)
       \/ \E r \in Recipient : \E i \in 1..Len(accepted[r]) : ReportFailed(r, i)
       \/ UNCHANGED vars
       => FALSE
  BY DEF NewRun, Investigate, Customer, RecordLinkOpen, RecordPaymentComplete,
         FollowUpFallsDue, ReportFailed, vars
<1> QED
  BY <1>4, <1>5, <1>6, <1>7, <1>8, <1>9, <1>10 DEF Next

\* A row comes to be shown as contacted, or to another sid, only by a thread
\* that records a message; every other step keeps the sid or deletes the row.
LEMMA RowReal ==
    ASSUME Kept, [Next]_vars, NEW r \in Recipient
    PROVE  \/ /\ recipient'[r].sid = recipient[r].sid
              /\ recipient'[r].status \in Shown => recipient[r].status \in Shown
           \/ recipient'[r].sid = 0 /\ recipient'[r].status \notin Shown
           \/ \E h \in Handler : /\ Records(call[h]) /\ call[h].to = r
                                 /\ recipient'[r].sid = call[h].sid /\ call[h].sid # 0
<1> DEFINE Goal == \/ /\ recipient'[r].sid = recipient[r].sid
                      /\ recipient'[r].status \in Shown => recipient[r].status \in Shown
                   \/ recipient'[r].sid = 0 /\ recipient'[r].status \notin Shown
                   \/ \E h \in Handler : /\ Records(call[h]) /\ call[h].to = r
                                         /\ recipient'[r].sid = call[h].sid /\ call[h].sid # 0
<1> SUFFICES Goal
  OBVIOUS
<1>1. recipient \in [Recipient -> Row \cup {NoRow}]
  BY DEF Kept, TypeOK
<1>2. recipient'[r] = recipient[r] => Goal
  OBVIOUS
<1>3. ASSUME NEW q \in Recipient, NEW row, UpdateRow(q, row), recipient'[r] # recipient[r]
      PROVE  q = r /\ recipient'[r] = row /\ recipient[r] \in Row
  BY <1>1, <1>3 DEF UpdateRow
<1>4. ASSUME NEW h \in Handler, Prepare(h)
      PROVE  Goal
  <2>1. CASE InsertBatch(h)
    <3>1. recipient' = recipient \/ recipient'[r] = [NoRow EXCEPT !.status = "draft", !.link = run]
      BY <2>1 DEF InsertBatch
    <3> QED
      BY <1>2, <3>1 DEF NoRow, Shown
  <2>2. CASE DraftMessage(h) /\ recipient'[r] # recipient[r]
    <3>1. PICK q, row : /\ q = First(call[h].todo)
                        /\ row = [recipient[q] EXCEPT !.body = call[h].link]
      OBVIOUS
    <3>2. q \in Recipient
      <4>1. call[h].todo \in SUBSET Recipient /\ call[h].todo # {}
        BY <2>2, Kinds, CallFields DEF DraftMessage, CallBacked
      <4> QED
        BY <3>1, <4>1, FirstIsLeft
    <3>3. q = r /\ recipient'[r] = row /\ recipient[r] \in Row
      BY <1>3, <2>2, <3>1, <3>2 DEF DraftMessage
    <3> QED
      BY <3>1, <3>3 DEF Row
  <2>3. CASE StartPrepare(h) \/ ReadDrafts(h)
    BY <1>2, <2>3 DEF StartPrepare, ReadDrafts, Tables
  <2> QED
    BY <1>2, <1>4, <2>1, <2>2, <2>3 DEF Prepare
<1>5. ASSUME NEW h \in Handler, RecordSent(h) \/ RecordRetry(h)
      PROVE  Goal
  <2>1. /\ Records(call[h]) /\ call[h].to \in Recipient
        /\ call[h].sid \in Sid
    BY <1>5, Kinds, CallFields DEF RecordSent, RecordRetry, Records
  <2>2. PICK q, row : /\ q = call[h].to
                      /\ row = [recipient[q] EXCEPT !.status = "sent", !.sid = call[h].sid,
                                                    !.due = "pending"]
    OBVIOUS
  <2>3. CASE recipient'[r] # recipient[r]
    <3>1. q = r /\ recipient'[r] = row /\ recipient[r] \in Row
      BY <1>3, <1>5, <2>1, <2>2, <2>3 DEF RecordSent, RecordRetry
    <3>2. recipient'[r].sid = call[h].sid
      BY <2>2, <3>1 DEF Row
    <3> QED
      BY <2>1, <2>2, <3>1, <3>2 DEF Sid
  <2> QED
    BY <1>2, <2>3
<1>6. ASSUME NEW h \in Handler, RecordFollowUp(h)
      PROVE  Goal
  <2>1. call[h].to \in Recipient
    BY <1>6, Kinds, CallFields DEF RecordFollowUp
  <2>2. PICK q, row : q = call[h].to /\ row = [recipient[q] EXCEPT !.status = "follow_up_sent"]
    OBVIOUS
  <2>3. CASE recipient'[r] # recipient[r]
    <3>1. q = r /\ recipient'[r] = row /\ recipient[r] \in Row
      BY <1>3, <1>6, <2>1, <2>2, <2>3 DEF RecordFollowUp
    <3> QED
      BY <2>2, <3>1 DEF Row, Shown
  <2> QED
    BY <1>2, <2>3
<1>7. ASSUME NEW q \in Recipient, Customer(q)
      PROVE  Goal
  <2>1. ASSUME NEW f, recipient' = [recipient EXCEPT ![q].status = f],
               f # "opened" \/ recipient[q].status = "sent", f # "sent"
        PROVE  Goal
    <3>1. CASE q = r
      BY <1>1, <2>1, <3>1 DEF Row, NoRow, Shown
    <3>2. CASE q # r
      BY <1>1, <2>1, <3>2
    <3> QED
      BY <3>1, <3>2
  <2>2. CASE FollowUpFallsDue(q)
    <3>1. CASE q = r
      BY <1>1, <2>2, <3>1 DEF FollowUpFallsDue, Row, NoRow
    <3>2. CASE q # r
      BY <1>1, <2>2, <3>2 DEF FollowUpFallsDue
    <3> QED
      BY <3>1, <3>2
  <2> QED
    BY <1>7, <2>1, <2>2 DEF Customer, RecordLinkOpen, RecordPaymentComplete
<1>8. NewRun => Goal
  BY DEF NewRun, NoRow, Shown
<1>9. ASSUME NEW h \in Handler,
             Approve(h) \/ FollowUp(h) \/ Retry(h) \/ RequestFails(h) \/ AnswerLost(h),
             ~RecordSent(h), ~RecordRetry(h), ~RecordFollowUp(h)
      PROVE  UNCHANGED recipient
  BY <1>9 DEF Approve, StartApproval, MarkApproved, SendAccepted, SendRefused, FinishApproval,
              FollowUp, ReadDue, FollowUpAccepted, FollowUpRefused, Retry, StartRetry,
              CheckDelivery, RetryAccepted, RequestFails, AnswerLost, Tables
<1>10. \/ Crash \/ \E scope \in {"network", "merchant"} : Investigate(scope)
       \/ \E q \in Recipient : \E i \in 1..Len(accepted[q]) : ReportFailed(q, i)
       \/ UNCHANGED vars
       => UNCHANGED recipient
  BY DEF Crash, Investigate, ReportFailed, Tables, vars
<1> QED
  BY <1>2, <1>4, <1>5, <1>6, <1>7, <1>8, <1>9, <1>10 DEF Next

LEMMA AlwaysReal == Spec => []Real
<1>1. Init => Real
  <2> SUFFICES ASSUME Init PROVE Real
    OBVIOUS
  <2>1. RowsReal
    BY DEF Init, RowsReal, NoRow, Shown
  <2>2. \A h \in Handler : call[h] = Idle
    BY DEF Init
  <2>3. CallsReal
    BY <2>2 DEF CallsReal, Records, Idle
  <2> QED
    BY <2>1, <2>3 DEF Real
<1>2. ASSUME Kept, Real, [Next]_vars
      PROVE  Real'
  <2>1. \A r \in Recipient : \A sid : IsTracked(r, sid) => IsTracked(r, sid)'
    BY <1>2, StaysReal
  <2>2. ASSUME NEW h \in Handler, Records(call'[h])
        PROVE  IsTracked(call[h].to, call[h].sid)'
    <3>1. CASE call'[h] = call[h]
      <4>1. Records(call[h]) /\ IsTracked(call[h].to, call[h].sid)
        BY <1>2, <2>2, <3>1 DEF Real, CallsReal
      <4>2. call[h].to \in Recipient
        BY <1>2, <4>1, Kinds, CallFields DEF Records
      <4> QED
        BY <2>1, <3>1, <4>1, <4>2 DEF IsTracked
    <3> QED
      BY <1>2, <2>2, <3>1, CallReal
  <2>3. CallsReal'
    BY <2>2 DEF CallsReal, Records
  <2>4. ASSUME NEW r \in Recipient
        PROVE  /\ recipient'[r].status \in Shown => recipient'[r].sid # 0
               /\ recipient'[r].sid # 0 => IsTracked(r, recipient[r].sid)'
    <3>1. CASE /\ recipient'[r].sid = recipient[r].sid
               /\ recipient'[r].status \in Shown => recipient[r].status \in Shown
      <4>1. PICK sid : sid = recipient[r].sid
        OBVIOUS
      <4>2. sid # 0 => IsTracked(r, sid)'
        BY <1>2, <2>1, <4>1 DEF Real, RowsReal
      <4>3. recipient'[r].sid # 0 => IsTracked(r, recipient[r].sid)'
        BY <3>1, <4>1, <4>2 DEF IsTracked
      <4> QED
        BY <1>2, <3>1, <4>3 DEF Real, RowsReal
    <3>2. CASE recipient'[r].sid = 0 /\ recipient'[r].status \notin Shown
      BY <3>2
    <3>3. CASE \E h \in Handler : /\ Records(call[h]) /\ call[h].to = r
                                  /\ recipient'[r].sid = call[h].sid /\ call[h].sid # 0
      <4>1. PICK sid : recipient'[r].sid = sid /\ sid # 0 /\ IsTracked(r, sid)
        BY <1>2, <3>3 DEF Real, CallsReal
      <4>2. IsTracked(r, sid)'
        BY <2>1, <4>1
      <4>3. IsTracked(r, recipient[r].sid)'
        BY <4>1, <4>2 DEF IsTracked
      <4> QED
        BY <4>1, <4>3
    <3> QED
      BY <1>2, <3>1, <3>2, <3>3, RowReal
  <2>5. RowsReal'
    BY <2>4 DEF RowsReal, IsTracked
  <2> QED
    BY <2>3, <2>5 DEF Real
<1> QED
  BY <1>1, <1>2, AlwaysKept, PTL DEF Spec

\* In every run, whatever crosses, a recipient shown as sent or opened has a
\* message of Twilio's on record that is no follow-up; until the ids come back,
\* so has one shown as followed up, and it has the recipient's own link.
THEOREM TrackedMessagesAreReal == Spec => []TrackedMessageIsReal
<1>1. FirstRun /\ Real => TrackedMessageIsReal
  <2> SUFFICES ASSUME FirstRun, Real, NEW r \in Recipient
      PROVE  /\ recipient[r].status \in {"sent", "opened"} => HasMessage(r)
             /\ run = 1 /\ recipient[r].status \in {"sent", "opened", "follow_up_sent"} =>
                    HasMessage(r) /\ accepted[r][recipient[r].sid].link = recipient[r].link
    BY DEF TrackedMessageIsReal
  <2>1. recipient[r].status \in {"sent", "opened"} => HasMessage(r)
    BY DEF Real, RowsReal, IsTracked, Shown, HasMessage
  <2>2. ASSUME run = 1, recipient[r].status \in {"sent", "opened", "follow_up_sent"}
        PROVE  HasMessage(r) /\ accepted[r][recipient[r].sid].link = recipient[r].link
    <3>1. Tracked /\ recipient[r] # NoRow
      BY <2>2 DEF FirstRun, NoRow
    <3> QED
      BY <2>2, <3>1 DEF Tracked, RowsTracked, Own, HasMessage
  <2> QED
    BY <2>1, <2>2
<1> QED
  BY <1>1, AlwaysFirstRun, AlwaysReal, PTL

\* In the first run, whatever crashes, no message carries the run's link before
\* the merchant has approved the batch.
THEOREM FirstRunSendsAfterApproval == Spec => [](run = 1 => NothingSentBeforeApproval)
<1>1. Kept /\ FirstRun => (run = 1 => NothingSentBeforeApproval)
  <2> SUFFICES ASSUME Kept, Tracked, NEW r \in Recipient, NEW i \in 1..Len(accepted[r])
      PROVE  batch \in {"approved", "sent"}
    BY DEF FirstRun, NothingSentBeforeApproval
  <2>1. Len(accepted[r]) > 0
    BY Kinds DEF AcceptedType
  <2> QED
    BY <2>1 DEF Tracked, BatchTracked, Approved
<1> QED
  BY <1>1, AlwaysKept, AlwaysFirstRun, PTL

\* In the first run, a batch shown as sent has left no draft untried.
THEOREM FirstRunBatchIsAttempted == Spec => [](run = 1 => SentBatchWasAttempted)
<1>1. FirstRun => (run = 1 => SentBatchWasAttempted)
  BY DEF FirstRun, Tracked, BatchTracked, Attempted, SentBatchWasAttempted
<1> QED
  BY <1>1, AlwaysFirstRun, PTL
-----------------------------------------------------------------------------
(***************************************************************************)
(* Across runs.  An approval or a retry that outlives its run marks rows   *)
(* of the next one as sent, and the monitor then follows up what nobody    *)
(* has approved.  When a new run waits for them, nothing is sent before    *)
(* the approval in any run: drafts and follow-ups of an earlier run may    *)
(* go on, since what they write carries the earlier run's link.            *)
(***************************************************************************)
Sender == {"approve", "send", "record_sent", "check", "resend", "record_retry"}

RunsWaitForSenders == [][run' # run => \A h \in Handler : call[h].op \notin Sender]_vars

Contacted(r) == recipient[r].sid # 0 \/ recipient[r].due # "none"

RowsWaited ==
    \A r \in Recipient :
        /\ recipient[r].body <= run
        /\ Contacted(r) => Approved

MessagesWaited ==
    \A r \in Recipient : \A i \in 1..Len(accepted[r]) :
        /\ accepted[r][i].link <= run
        /\ accepted[r][i].link = run => Approved

CallWaited(c) ==
    /\ c.op = "draft" => c.link <= run
    /\ c.op \in {"approve", "send", "record_sent"} => \A r \in Recipient : c.bodies[r] <= run
    /\ c.op = "approve" => batch # Absent
    /\ c.op \in Sender \ {"approve"} => Approved
    /\ c.op \in {"check", "resend"} => c.body <= run
    /\ c.op \in {"follow_up", "record_follow_up"} =>
           c.link <= run /\ (c.link = run => Approved)

CallsWaited == \A h \in Handler : CallWaited(call[h])

Waited == RowsWaited /\ MessagesWaited /\ CallsWaited

\* Within a run a batch stays, and stays approved.
LEMMA BatchStays ==
    ASSUME Kept, [Next]_vars, run' = run
    PROVE  (Approved => Approved') /\ (batch # Absent => batch' # Absent)
<1>1. run \in Nat
  BY RecoveryAssumption DEF Kept, TypeOK
<1>2. ~NewRun
  BY <1>1 DEF NewRun
<1>3. ASSUME NEW h \in Handler, Prepare(h)
      PROVE  batch' = batch \/ batch = Absent
  BY <1>3 DEF Prepare, StartPrepare, InsertBatch, ReadDrafts, DraftMessage, Tables
<1>4. ASSUME NEW h \in Handler, Approve(h)
      PROVE  batch' = batch \/ (batch # Absent /\ batch' \in {"approved", "sent"})
  BY <1>4 DEF Approve, StartApproval, MarkApproved, SendAccepted, SendRefused, RecordSent,
              FinishApproval, Tables
<1>5. ASSUME NEW h \in Handler, FollowUp(h) \/ Retry(h) \/ RequestFails(h) \/ AnswerLost(h)
      PROVE  batch' = batch
  BY <1>5 DEF FollowUp, ReadDue, FollowUpAccepted, FollowUpRefused, RecordFollowUp, Retry,
              StartRetry, CheckDelivery, RetryAccepted, RecordRetry, RequestFails, AnswerLost,
              Tables
<1>6. ASSUME NEW r \in Recipient, Customer(r) PROVE batch' = batch
  BY <1>6 DEF Customer, RecordLinkOpen, RecordPaymentComplete, FollowUpFallsDue
<1>7. ASSUME NEW r, NEW i, ReportFailed(r, i) PROVE batch' = batch
  BY <1>7 DEF ReportFailed, Tables
<1>8. ASSUME NEW scope, Investigate(scope) PROVE batch' = batch
  BY <1>8 DEF Investigate
<1>9. Crash \/ UNCHANGED vars => batch' = batch
  BY DEF Crash, vars, Tables
<1>10. \/ batch' = batch
       \/ batch = Absent
       \/ batch # Absent /\ batch' \in {"approved", "sent"}
  BY <1>2, <1>3, <1>4, <1>5, <1>6, <1>7, <1>8, <1>9 DEF Next
<1> QED
  BY <1>10 DEF Approved, Absent

\* What a step of a run does to a row: a draft is a thread's, and only an
\* approval or a retry records that somebody was contacted.
RowStep(r) ==
    /\ \/ recipient'[r].body \in {recipient[r].body, NoLink}
       \/ \E h \in Handler : call[h].op = "draft" /\ recipient'[r].body = call[h].link
    /\ Contacted(r)' => \/ Contacted(r)
                        \/ \E h \in Handler : call[h].op \in {"record_sent", "record_retry"}

LEMMA WrittenRowStep ==
    ASSUME Kept, NEW q \in Recipient, NEW row, UpdateRow(q, row),
           recipient[q] # NoRow =>
               /\ \/ row.body = recipient[q].body
                  \/ \E h \in Handler : call[h].op = "draft" /\ row.body = call[h].link
               /\ \/ row.sid = recipient[q].sid
                     /\ (row.due # "none" => recipient[q].due # "none")
                  \/ \E h \in Handler : call[h].op \in {"record_sent", "record_retry"}
    PROVE  \A r \in Recipient : RowStep(r)
<1> SUFFICES ASSUME NEW r \in Recipient PROVE RowStep(r)
  OBVIOUS
<1>1. CASE recipient'[r] = recipient[r]
  BY <1>1 DEF RowStep, Contacted
<1>2. CASE recipient'[r] # recipient[r]
  <2>1. r = q /\ recipient[q] # NoRow /\ recipient'[r] = row
    BY <1>2 DEF UpdateRow, Kept, TypeOK
  <2> QED
    BY <2>1 DEF RowStep, Contacted
<1> QED
  BY <1>1, <1>2

LEMMA RowsStep ==
    ASSUME Kept, [Next]_vars, run' = run
    PROVE  \A r \in Recipient : RowStep(r)
<1> DEFINE Goal == \A r \in Recipient : RowStep(r)
<1>1. ~NewRun
  BY RecoveryAssumption DEF NewRun, Kept, TypeOK
<1>2. recipient' = recipient => Goal
  BY DEF RowStep, Contacted
<1>3. \A r \in Recipient : recipient[r] # NoRow => recipient[r] \in Row
  BY DEF Kept, TypeOK
<1>4. ASSUME NEW h \in Handler, InsertBatch(h) PROVE Goal
  <2>1. CASE recipient' = recipient
    BY <1>2, <2>1
  <2>2. CASE recipient' = [r \in Recipient |-> [NoRow EXCEPT !.status = "draft", !.link = run]]
    <3>1. \A r \in Recipient : /\ recipient'[r].body = NoLink
                               /\ recipient'[r].sid = 0 /\ recipient'[r].due = "none"
      BY <2>2 DEF NoRow
    <3> QED
      BY <3>1 DEF RowStep, Contacted
  <2> QED
    BY <1>4, <2>1, <2>2 DEF InsertBatch
<1>5. ASSUME NEW h \in Handler, DraftMessage(h) PROVE Goal
  <2>1. call[h].op = "draft" /\ call[h] \in Call /\ CallBacked(call[h])
    BY <1>5, Kinds DEF DraftMessage
  <2>2. PICK q \in Recipient : q = First(call[h].todo)
    BY <2>1, CallFields, FirstIsLeft DEF CallBacked
  <2>3. PICK row : row = [recipient[q] EXCEPT !.body = call[h].link]
    OBVIOUS
  <2>4. recipient[q] # NoRow => /\ row.body = call[h].link
                                /\ row.sid = recipient[q].sid /\ row.due = recipient[q].due
    BY <1>3, <2>3 DEF Row
  <2>5. UpdateRow(q, row)
    BY <1>5, <2>2, <2>3 DEF DraftMessage
  <2> QED
    BY <2>1, <2>4, <2>5, WrittenRowStep
<1>6. ASSUME NEW h \in Handler, RecordSent(h) \/ RecordRetry(h) PROVE Goal
  <2>1. /\ call[h].op \in {"record_sent", "record_retry"}
        /\ call[h].to \in Recipient
    BY <1>6, Kinds, CallFields DEF RecordSent, RecordRetry
  <2>2. PICK q \in Recipient : q = call[h].to
    BY <2>1
  <2>3. PICK row : row = [recipient[q] EXCEPT !.status = "sent", !.sid = call[h].sid,
                                              !.due = "pending"]
    OBVIOUS
  <2>4. recipient[q] # NoRow => row.body = recipient[q].body
    BY <1>3, <2>3 DEF Row
  <2>5. UpdateRow(q, row)
    BY <1>6, <2>2, <2>3 DEF RecordSent, RecordRetry
  <2> QED
    BY <2>1, <2>4, <2>5, WrittenRowStep
<1>7. ASSUME NEW h \in Handler, RecordFollowUp(h) PROVE Goal
  <2>1. PICK q \in Recipient : q = call[h].to
    BY <1>7, Kinds, CallFields DEF RecordFollowUp
  <2>2. PICK row : row = [recipient[q] EXCEPT !.status = "follow_up_sent"]
    OBVIOUS
  <2>3. recipient[q] # NoRow => /\ row.body = recipient[q].body
                                /\ row.sid = recipient[q].sid /\ row.due = recipient[q].due
    BY <1>3, <2>2 DEF Row
  <2>4. UpdateRow(q, row)
    BY <1>7, <2>1, <2>2 DEF RecordFollowUp
  <2> QED
    BY <2>3, <2>4, WrittenRowStep
<1>8. ASSUME NEW q \in Recipient, Customer(q) PROVE Goal
  <2>1. PICK row : /\ recipient' = [recipient EXCEPT ![q] = row]
                   /\ \/ row = [recipient[q] EXCEPT !.status = "opened"]
                      \/ row = [recipient[q] EXCEPT !.status = "completed"]
                      \/ row = [recipient[q] EXCEPT !.due = "due"] /\ recipient[q].due = "pending"
    BY <1>8 DEF Customer, RecordLinkOpen, RecordPaymentComplete, FollowUpFallsDue
  <2>2. recipient[q] # NoRow
    BY <1>8 DEF Customer, RecordLinkOpen, RecordPaymentComplete, FollowUpFallsDue, KnownLink,
                NoRow
  <2>3. /\ row.body = recipient[q].body /\ row.sid = recipient[q].sid
        /\ row.due # "none" => recipient[q].due # "none"
    BY <1>3, <2>1, <2>2 DEF Row
  <2>4. UpdateRow(q, row)
    BY <2>1, <2>2 DEF UpdateRow
  <2> QED
    BY <2>3, <2>4, WrittenRowStep
<1>9. ASSUME NEW h \in Handler, Prepare(h) PROVE Goal
  BY <1>2, <1>4, <1>5, <1>9 DEF Prepare, StartPrepare, ReadDrafts, Tables
<1>10. ASSUME NEW h \in Handler, Approve(h) PROVE Goal
  BY <1>2, <1>6, <1>10 DEF Approve, StartApproval, MarkApproved, SendAccepted, SendRefused,
                           FinishApproval, Tables
<1>11. ASSUME NEW h \in Handler, FollowUp(h) PROVE Goal
  BY <1>2, <1>7, <1>11 DEF FollowUp, ReadDue, FollowUpAccepted, FollowUpRefused, Tables
<1>12. ASSUME NEW h \in Handler, Retry(h) PROVE Goal
  BY <1>2, <1>6, <1>12 DEF Retry, StartRetry, CheckDelivery, RetryAccepted, Tables
<1>13. ASSUME NEW h \in Handler, RequestFails(h) \/ AnswerLost(h) PROVE Goal
  BY <1>2, <1>13 DEF RequestFails, AnswerLost, Tables
<1>14. ASSUME NEW r, NEW i, ReportFailed(r, i) PROVE Goal
  BY <1>2, <1>14 DEF ReportFailed, Tables
<1>15. ASSUME NEW scope, Investigate(scope) PROVE Goal
  BY <1>2, <1>15 DEF Investigate
<1>16. Crash \/ UNCHANGED vars => Goal
  BY <1>2 DEF Crash, vars, Tables
<1> QED
  BY <1>1, <1>8, <1>9, <1>10, <1>11, <1>12, <1>13, <1>14, <1>15, <1>16 DEF Next

LEMMA RowsWaitedStep ==
    ASSUME Kept, Waited, [Next]_vars, run' = run
    PROVE  RowsWaited'
<1> SUFFICES ASSUME NEW r \in Recipient
             PROVE  recipient'[r].body <= run /\ (Contacted(r)' => Approved')
  BY DEF RowsWaited
<1>1. RowStep(r) /\ (Approved => Approved')
  BY RowsStep, BatchStays
<1>2. recipient'[r].body <= run
  <2>1. recipient[r].body <= run /\ NoLink <= run
    BY RecoveryAssumption DEF Waited, RowsWaited, NoLink, Kept, TypeOK
  <2>2. \A h \in Handler : call[h].op = "draft" => call[h].link <= run
    BY DEF Waited, CallsWaited, CallWaited
  <2> QED
    BY <1>1, <2>1, <2>2 DEF RowStep
<1>3. Contacted(r)' => Approved
  BY <1>1 DEF RowStep, Waited, RowsWaited, CallsWaited, CallWaited, Sender
<1> QED
  BY <1>1, <1>2, <1>3

\* A message carries the link its thread has read, so one of this run is sent
\* for a batch that is approved.
LEMMA SentLinks ==
    ASSUME Kept, Waited, NEW h \in Handler, Sends(h)
    PROVE  \E r \in Recipient, by \in By, link \in Draft :
              /\ Accept(r, by, link)
              /\ link <= run
              /\ link = run => Approved
<1>1. call[h] \in Call /\ CallBacked(call[h]) /\ CallWaited(call[h])
  BY Kinds DEF Waited, CallsWaited
<1>2. CASE call[h].op = "send"
  <2>1. PICK r \in Recipient : r = First(call[h].todo)
    BY <1>2, Sending
  <2>2. call[h].bodies[r] \in Draft /\ call[h].bodies[r] <= run /\ Approved
    BY <1>1, <1>2, Sending DEF CallWaited, Sender
  <2>3. Accept(r, "approval", call[h].bodies[r])
    BY <1>2, <2>1 DEF Sends
  <2> QED
    BY <2>2, <2>3 DEF By
<1>3. CASE call[h].op = "follow_up"
  <2>1. PICK r \in call[h].todo : Accept(r, "follow_up", call[h].link)
    BY <1>3 DEF Sends
  <2>2. r \in Recipient /\ call[h].link \in Draft
    BY <1>3, FollowingUp DEF Draft
  <2>3. call[h].link <= run /\ (call[h].link = run => Approved)
    BY <1>1, <1>3 DEF CallWaited
  <2> QED
    BY <2>1, <2>2, <2>3 DEF By
<1>4. CASE call[h].op = "resend"
  <2>1. /\ call[h].to \in Recipient /\ call[h].body \in Draft
        /\ Accept(call[h].to, "retry", call[h].body)
        /\ call[h].body <= run /\ Approved
    BY <1>1, <1>4, CallFields DEF CallWaited, Sender, Sends
  <2> QED
    BY <2>1 DEF By
<1> QED
  BY <1>2, <1>3, <1>4 DEF Sends

LEMMA MessagesWaitedStep ==
    ASSUME Kept, Waited, [Next]_vars, run' = run
    PROVE  MessagesWaited'
<1> SUFFICES ASSUME NEW q \in Recipient, NEW i \in 1..Len(accepted'[q])
             PROVE  /\ accepted'[q][i].link <= run
                    /\ accepted'[q][i].link = run => Approved'
  BY DEF MessagesWaited
<1>1. Approved => Approved'
  BY BatchStays
<1>2. CASE UNCHANGED accepted
  BY <1>1, <1>2 DEF Waited, MessagesWaited
<1>3. ASSUME NEW r \in Recipient, NEW j \in 1..Len(accepted[r]), ReportFailed(r, j)
      PROVE  /\ accepted'[q][i].link <= run
             /\ accepted'[q][i].link = run => Approved'
  <2>1. Grows /\ Len(accepted'[q]) = Len(accepted[q])
    BY <1>3, ReportingFailed, Kinds
  <2> QED
    BY <1>1, <2>1 DEF Grows, Waited, MessagesWaited
<1>4. ASSUME NEW h \in Handler, Sends(h)
      PROVE  /\ accepted'[q][i].link <= run
             /\ accepted'[q][i].link = run => Approved'
  <2>1. PICK r \in Recipient, by \in By, link \in Draft :
           Accept(r, by, link) /\ link <= run /\ (link = run => Approved)
    BY <1>4, SentLinks
  <2>2. /\ Len(accepted'[r]) = NextSid(r)
        /\ accepted'[r][NextSid(r)].link = link
        /\ \A p \in Recipient \ {r} : accepted'[p] = accepted[p]
        /\ \A j \in 1..Len(accepted[r]) : accepted'[r][j] = accepted[r][j]
    BY <2>1, Accepting, Kinds
  <2>3. Len(accepted[r]) \in Nat
    BY Kinds DEF AcceptedType
  <2>4. CASE q = r /\ i = NextSid(r)
    BY <1>1, <2>1, <2>2, <2>4
  <2>5. CASE ~(q = r /\ i = NextSid(r))
    <3>1. i \in 1..Len(accepted[q]) /\ accepted'[q][i] = accepted[q][i]
      BY <2>2, <2>3, <2>5 DEF NextSid
    <3> QED
      BY <1>1, <3>1 DEF Waited, MessagesWaited
  <2> QED
    BY <2>4, <2>5
<1> QED
  BY <1>2, <1>3, <1>4, ProviderStep

-----------------------------------------------------------------------------
\* The thread that takes a step of a run, and the threads that take none.
LEMMA ThreadWaited ==
    ASSUME Kept, Waited, [Next]_vars, run' = run,
           NEW h \in Handler, NEW c, Continue(h, c),
           CallWaited(c) \/ CallWaited(c)'
    PROVE  CallsWaited'
<1>1. (Approved => Approved') /\ (batch # Absent => batch' # Absent)
  BY BatchStays
<1>2. \A d : CallWaited(d) => CallWaited(d)'
  BY <1>1 DEF CallWaited
<1>3. ASSUME NEW g \in Handler PROVE CallWaited(call[g])'
  <2>1. \A d : CallWaited(d)' /\ d = call'[g] => CallWaited(call[g])'
    BY DEF CallWaited
  <2>2. call'[g] = IF g = h THEN c ELSE call[g]
    BY Kinds DEF Continue
  <2>3. CASE g = h
    BY <1>2, <2>1, <2>2, <2>3
  <2>4. CASE g # h
    BY <1>2, <2>1, <2>2, <2>4 DEF Waited, CallsWaited
  <2> QED
    BY <2>3, <2>4
<1> QED
  BY <1>3 DEF CallsWaited

LEMMA CallsRest ==
    ASSUME Kept, Waited, [Next]_vars, run' = run, UNCHANGED call
    PROVE  CallsWaited'
<1>1. (Approved => Approved') /\ (batch # Absent => batch' # Absent)
  BY BatchStays
<1> QED
  BY <1>1 DEF Waited, CallsWaited, CallWaited

\* A request that does not send, and one that ends, has nothing to wait for.
LEMMA NoneWaits ==
    \A c : c.op \in {"idle", "prepare", "read_drafts", "finish"} => CallWaited(c)
BY DEF CallWaited, Sender

LEMMA RemainingWaits ==
    ASSUME NEW h \in Handler, call[h].op \in {"send", "record_sent"}, CallWaited(call[h]),
           NEW r \in Recipient
    PROVE  CallWaited(Remaining(h, r))
<1>1. CASE call[h].todo = {r}
  BY <1>1 DEF Remaining, CallWaited, Sender
<1>2. CASE call[h].todo # {r}
  <2>1. PICK c : c = [op |-> "send", todo |-> call[h].todo \ {r}, bodies |-> call[h].bodies]
    OBVIOUS
  <2>2. c.op = "send" /\ c.bodies = call[h].bodies
    BY <2>1
  <2>3. CallWaited(c)
    BY <2>2 DEF CallWaited, Sender
  <2> QED
    BY <1>2, <2>1, <2>3 DEF Remaining
<1> QED
  BY <1>1, <1>2

LEMMA NextFollowUpWaits ==
    ASSUME NEW h \in Handler, call[h].op \in {"follow_up", "record_follow_up"},
           CallWaited(call[h]), NEW r \in Recipient
    PROVE  CallWaited(NextFollowUp(h, r))
<1>1. CASE call[h].todo = {r}
  BY <1>1 DEF NextFollowUp, CallWaited, Idle, Sender
<1>2. CASE call[h].todo # {r}
  <2>1. PICK c : c = [op |-> "follow_up", todo |-> call[h].todo \ {r}, link |-> call[h].link]
    OBVIOUS
  <2>2. c.op = "follow_up" /\ c.link = call[h].link
    BY <2>1
  <2>3. CallWaited(c)
    BY <2>2 DEF CallWaited, Sender
  <2> QED
    BY <1>2, <2>1, <2>3 DEF NextFollowUp
<1> QED
  BY <1>1, <1>2

LEMMA PrepareWaits ==
    ASSUME Kept, Waited, [Next]_vars, run' = run, NEW h \in Handler, Prepare(h)
    PROVE  CallsWaited'
<1>1. call[h] \in Call /\ CallWaited(call[h])
  BY Kinds DEF Waited, CallsWaited
<1>2. run \in Nat
  BY RecoveryAssumption DEF Kept, TypeOK
<1>3. CASE StartPrepare(h) \/ InsertBatch(h)
  <2>1. PICK c : Continue(h, c) /\ c \in {Idle, [op |-> "prepare"], [op |-> "read_drafts"]}
    BY <1>3 DEF StartPrepare, Begin, InsertBatch, Continue, Return
  <2>2. c.op \in {"idle", "prepare", "read_drafts"}
    BY <2>1 DEF Idle
  <2> QED
    BY <2>1, <2>2, NoneWaits, ThreadWaited
<1>4. CASE ReadDrafts(h)
  <2>1. PICK c : /\ Continue(h, c)
                 /\ c = Idle \/ \E todo : c = [op |-> "draft", todo |-> todo, link |-> run]
    BY <1>4 DEF ReadDrafts, Continue, Return
  <2>2. c.op = "idle" \/ (c.op = "draft" /\ c.link = run)
    BY <2>1 DEF Idle
  <2>3. CallWaited(c)
    BY <1>2, <2>2 DEF CallWaited, Sender
  <2> QED
    BY <2>1, <2>3, ThreadWaited
<1>5. CASE DraftMessage(h)
  <2>1. PICK c : /\ Continue(h, c)
                 /\ c = Idle \/ \E todo : c = [call[h] EXCEPT !.todo = todo]
    BY <1>5 DEF DraftMessage, Continue, Return
  <2>2. call[h].op = "draft"
    BY <1>5 DEF DraftMessage
  <2>3. c.op = "idle" \/ (c.op = "draft" /\ c.link = call[h].link)
    BY <1>1, <2>1, <2>2 DEF Idle, Call
  <2>4. CallWaited(c)
    BY <1>1, <2>2, <2>3 DEF CallWaited, Sender
  <2> QED
    BY <2>1, <2>4, ThreadWaited
<1> QED
  BY <1>3, <1>4, <1>5 DEF Prepare

LEMMA ApproveWaits ==
    ASSUME Kept, Waited, [Next]_vars, run' = run, NEW h \in Handler, Approve(h)
    PROVE  CallsWaited'
<1>1. call[h] \in Call /\ CallWaited(call[h])
  BY Kinds DEF Waited, CallsWaited
<1>2. CASE StartApproval(h)
  <2>1. PICK c : c = [op |-> "approve", todo |-> Recipient,
                      bodies |-> [r \in Recipient |-> recipient[r].body]]
    OBVIOUS
  <2>2. /\ c.op = "approve" /\ batch # Absent
        /\ \A r \in Recipient : c.bodies[r] <= run
    BY <1>2, <2>1 DEF StartApproval, Absent, Waited, RowsWaited
  <2>3. CallWaited(c)
    BY <2>2 DEF CallWaited, Sender
  <2>4. Continue(h, c)
    BY <1>2, <2>1 DEF StartApproval, Begin, Continue
  <2> QED
    BY <2>3, <2>4, ThreadWaited
<1>3. CASE MarkApproved(h)
  <2>1. PICK c : c = [call[h] EXCEPT !.op = "send"]
    OBVIOUS
  <2>2. call[h].op = "approve" /\ c.op = "send" /\ c.bodies = call[h].bodies
    BY <1>1, <1>3, <2>1 DEF MarkApproved, Call
  <2>3. Approved'
    BY <1>1, <1>3, <2>2 DEF MarkApproved, CallWaited, Approved
  <2>4. \A r \in Recipient : c.bodies[r] <= run'
    BY <1>1, <2>2 DEF CallWaited
  <2>5. CallWaited(c)'
    BY <2>2, <2>3, <2>4 DEF CallWaited, Sender
  <2>6. Continue(h, c)
    BY <1>3, <2>1 DEF MarkApproved
  <2> QED
    BY <2>5, <2>6, ThreadWaited
<1>4. CASE SendAccepted(h)
  <2>1. PICK r : r = First(call[h].todo)
    OBVIOUS
  <2>2. PICK c : c = [op |-> "record_sent", todo |-> call[h].todo,
                      bodies |-> call[h].bodies, to |-> r, sid |-> NextSid(r)]
    OBVIOUS
  <2>3. call[h].op = "send" /\ c.op = "record_sent" /\ c.bodies = call[h].bodies
    BY <1>4, <2>2 DEF SendAccepted
  <2>4. CallWaited(c)
    BY <1>1, <2>3 DEF CallWaited, Sender
  <2>5. Continue(h, c)
    BY <1>4, <2>1, <2>2 DEF SendAccepted
  <2> QED
    BY <2>4, <2>5, ThreadWaited
<1>5. CASE SendRefused(h) \/ RecordSent(h)
  <2>1. call[h].op \in {"send", "record_sent"}
    BY <1>5 DEF SendRefused, RecordSent
  <2>2. PICK r \in Recipient : Continue(h, Remaining(h, r))
    BY <1>1, <1>5, <2>1, Sending, CallFields DEF SendRefused, RecordSent
  <2>3. PICK c : c = Remaining(h, r) /\ CallWaited(c)
    BY <1>1, <2>1, RemainingWaits
  <2> QED
    BY <2>2, <2>3, ThreadWaited
<1>6. CASE FinishApproval(h)
  <2>1. Continue(h, Idle)
    BY <1>6 DEF FinishApproval, Return, Continue
  <2>2. CallWaited(Idle)
    BY NoneWaits DEF Idle
  <2> QED
    BY <2>1, <2>2, ThreadWaited DEF Idle
<1> QED
  BY <1>2, <1>3, <1>4, <1>5, <1>6 DEF Approve

LEMMA FollowUpWaits ==
    ASSUME Kept, Waited, [Next]_vars, run' = run, NEW h \in Handler, FollowUp(h)
    PROVE  CallsWaited'
<1>1. call[h] \in Call /\ CallWaited(call[h])
  BY Kinds DEF Waited, CallsWaited
<1>2. CASE ReadDue(h)
  <2>1. PICK c : c = [op |-> "follow_up", todo |-> {r \in Recipient : Due(r)}, link |-> run]
    OBVIOUS
  <2>2. c.op = "follow_up" /\ c.link = run
    BY <2>1
  <2>3. Approved
    BY <1>2 DEF ReadDue, Due, Contacted, Waited, RowsWaited
  <2>4. CallWaited(c)
    BY <2>2, <2>3, RecoveryAssumption DEF CallWaited, Sender, Kept, TypeOK
  <2>5. Continue(h, c)
    BY <1>2, <2>1 DEF ReadDue, Begin, Continue
  <2> QED
    BY <2>4, <2>5, ThreadWaited
<1>3. ASSUME NEW r \in Recipient, FollowUpAccepted(h, r)
      PROVE  CallsWaited'
  <2>1. PICK c : c = [op |-> "record_follow_up", todo |-> call[h].todo,
                      link |-> call[h].link, to |-> r]
    OBVIOUS
  <2>2. call[h].op = "follow_up" /\ c.op = "record_follow_up" /\ c.link = call[h].link
    BY <1>3, <2>1 DEF FollowUpAccepted
  <2>3. CallWaited(c)
    BY <1>1, <2>2 DEF CallWaited, Sender
  <2>4. Continue(h, c)
    BY <1>3, <2>1 DEF FollowUpAccepted
  <2> QED
    BY <2>3, <2>4, ThreadWaited
<1>4. ASSUME NEW r \in Recipient, call[h].op \in {"follow_up", "record_follow_up"},
             Continue(h, NextFollowUp(h, r))
      PROVE  CallsWaited'
  <2>1. PICK c : c = NextFollowUp(h, r) /\ CallWaited(c)
    BY <1>1, <1>4, NextFollowUpWaits
  <2> QED
    BY <1>4, <2>1, ThreadWaited
<1>5. CASE RecordFollowUp(h)
  <2>1. call[h].op = "record_follow_up" /\ call[h].to \in Recipient
    BY <1>1, <1>5, CallFields DEF RecordFollowUp
  <2> QED
    BY <1>4, <1>5, <2>1 DEF RecordFollowUp
<1> QED
  BY <1>2, <1>3, <1>4, <1>5 DEF FollowUp, FollowUpRefused

LEMMA RetryWaits ==
    ASSUME Kept, Waited, [Next]_vars, run' = run, NEW h \in Handler, Retry(h)
    PROVE  CallsWaited'
<1>1. call[h] \in Call /\ CallWaited(call[h])
  BY Kinds DEF Waited, CallsWaited
<1>2. ASSUME NEW r \in Recipient, StartRetry(h, r)
      PROVE  CallsWaited'
  <2>1. PICK c : c = [op |-> "check", to |-> r, body |-> recipient[r].body,
                      sid |-> recipient[r].sid]
    OBVIOUS
  <2>2. c.op = "check" /\ c.body <= run /\ Approved
    BY <1>2, <2>1 DEF StartRetry, Contacted, Waited, RowsWaited
  <2>3. CallWaited(c)
    BY <2>2 DEF CallWaited, Sender
  <2>4. Continue(h, c)
    BY <1>2, <2>1 DEF StartRetry, Begin, Continue
  <2> QED
    BY <2>3, <2>4, ThreadWaited
<1>3. CASE CheckDelivery(h)
  <2>1. PICK c : /\ Continue(h, c)
                 /\ c = Idle \/ c = [op |-> "resend", to |-> call[h].to, body |-> call[h].body]
    BY <1>3 DEF CheckDelivery
  <2>2. call[h].op = "check"
    BY <1>3 DEF CheckDelivery
  <2>3. c.op = "idle" \/ (c.op = "resend" /\ c.body = call[h].body)
    BY <2>1 DEF Idle
  <2>4. CallWaited(c)
    BY <1>1, <2>2, <2>3 DEF CallWaited, Sender
  <2> QED
    BY <2>1, <2>4, ThreadWaited
<1>4. CASE RetryAccepted(h)
  <2>1. PICK c : c = [op |-> "record_retry", to |-> call[h].to, sid |-> NextSid(call[h].to)]
    OBVIOUS
  <2>2. call[h].op = "resend" /\ c.op = "record_retry"
    BY <1>4, <2>1 DEF RetryAccepted
  <2>3. CallWaited(c)
    BY <1>1, <2>2 DEF CallWaited, Sender
  <2>4. Continue(h, c)
    BY <1>4, <2>1 DEF RetryAccepted
  <2> QED
    BY <2>3, <2>4, ThreadWaited
<1>5. CASE RecordRetry(h)
  <2>1. Continue(h, Idle)
    BY <1>5 DEF RecordRetry, Return, Continue
  <2>2. CallWaited(Idle)
    BY NoneWaits DEF Idle
  <2> QED
    BY <2>1, <2>2, ThreadWaited DEF Idle
<1> QED
  BY <1>2, <1>3, <1>4, <1>5 DEF Retry

LEMMA CallsWaitedStep ==
    ASSUME Kept, Waited, [Next]_vars, run' = run
    PROVE  CallsWaited'
<1>1. ~NewRun
  BY RecoveryAssumption DEF NewRun, Kept, TypeOK
<1>2. CallWaited(Idle)
  BY NoneWaits DEF Idle
<1>3. ASSUME NEW h \in Handler, RequestFails(h) \/ AnswerLost(h)
      PROVE  CallsWaited'
  <2>1. Continue(h, Idle)
    BY <1>3 DEF RequestFails, AnswerLost, Return, Continue
  <2> QED
    BY <1>2, <2>1, ThreadWaited DEF Idle
<1>4. CASE Crash
  <2>1. \A h \in Handler : call'[h].op = "idle"
    BY <1>4 DEF Crash, Idle
  <2> QED
    BY <2>1 DEF CallsWaited, CallWaited, Sender
<1>5. ASSUME UNCHANGED call PROVE CallsWaited'
  BY <1>5, CallsRest
<1>6. UNCHANGED vars => UNCHANGED call
  BY DEF vars
<1>7. \A scope : Investigate(scope) => UNCHANGED call
  BY DEF Investigate
<1>8. \A r \in Recipient : Customer(r) => UNCHANGED call
  BY DEF Customer, RecordLinkOpen, RecordPaymentComplete, FollowUpFallsDue
<1>9. \A r, i : ReportFailed(r, i) => UNCHANGED call
  BY DEF ReportFailed
<1> QED
  BY <1>1, <1>3, <1>4, <1>5, <1>6, <1>7, <1>8, <1>9, PrepareWaits, ApproveWaits, FollowUpWaits,
     RetryWaits DEF Next

\* What goes on into the next run carries the links of the ones before it.
LEMMA NewRunWaits ==
    ASSUME Kept, Waited, NewRun, \A h \in Handler : call[h].op \notin Sender
    PROVE  Waited'
<1>1. run \in Nat /\ run' = run + 1
  BY RecoveryAssumption DEF NewRun, Kept, TypeOK
<1>2. RowsWaited'
  <2>1. \A r \in Recipient : /\ recipient'[r].body = 0
                             /\ recipient'[r].sid = 0 /\ recipient'[r].due = "none"
    BY DEF NewRun, NoRow, NoLink
  <2> QED
    BY <1>1, <2>1 DEF RowsWaited, Contacted
<1>3. MessagesWaited'
  <2>1. \A r \in Recipient : accepted[r] \in Seq(Message)
    BY DEF Kept, TypeOK
  <2>2. ASSUME NEW r \in Recipient, NEW i \in 1..Len(accepted[r])
        PROVE  accepted[r][i].link <= run /\ accepted[r][i].link \in Nat
    <3>1. accepted[r][i] \in Message
      BY <2>1
    <3>2. accepted[r][i].link \in Draft
      BY <3>1 DEF Message
    <3> QED
      BY <3>2 DEF Draft, Link, NoLink, Waited, MessagesWaited
  <2>3. accepted' = accepted
    BY DEF NewRun
  <2>4. ASSUME NEW r \in Recipient, NEW i \in 1..Len(accepted'[r])
        PROVE  accepted'[r][i].link <= run' /\ accepted'[r][i].link # run'
    BY <1>1, <2>2, <2>3
  <2> QED
    BY <2>4 DEF MessagesWaited
<1>4. CallsWaited'
  <2> SUFFICES ASSUME NEW h \in Handler PROVE CallWaited(call[h])'
    BY DEF CallsWaited
  <2>1. call'[h] = call[h] /\ call[h].op \notin Sender /\ call[h] \in Call /\ CallWaited(call[h])
    BY Kinds DEF NewRun, Waited, CallsWaited
  <2>2. call[h].op \in {"draft", "follow_up", "record_follow_up"} =>
            call[h].link \in Nat /\ call[h].link <= run
    BY <2>1, CallFields DEF Link, CallWaited
  <2> QED
    BY <1>1, <2>1, <2>2 DEF CallWaited, Sender
<1> QED
  BY <1>2, <1>3, <1>4 DEF Waited

\* Customer-facing recovery requires explicit merchant approval: in every run,
\* for any threads, crashes and lost answers, no message carries the run's
\* link before the merchant has approved the batch, if a new run is created
\* only when no approval and no retry is under way.
THEOREM NothingSentWhenRunsWait ==
    Spec /\ RunsWaitForSenders => []NothingSentBeforeApproval
<1>1. Init => Waited
  <2> SUFFICES ASSUME Init PROVE Waited
    OBVIOUS
  <2>1. \A h \in Handler : call[h].op = "idle"
    BY DEF Init, Idle
  <2>2. \A r \in Recipient : recipient[r] = NoRow /\ Len(accepted[r]) = 0
    BY EmptySeq DEF Init
  <2>3. RowsWaited
    BY <2>2 DEF Init, RowsWaited, Contacted, NoRow, NoLink
  <2>4. MessagesWaited
    BY <2>2 DEF MessagesWaited
  <2>5. CallsWaited
    BY <2>1 DEF CallsWaited, CallWaited, Sender
  <2> QED
    BY <2>3, <2>4, <2>5 DEF Waited
<1>2. Kept /\ Waited /\ [Next]_vars /\
          [run' # run => \A h \in Handler : call[h].op \notin Sender]_vars => Waited'
  <2> SUFFICES ASSUME Kept, Waited, [Next]_vars,
                      [run' # run => \A h \in Handler : call[h].op \notin Sender]_vars
               PROVE  Waited'
    OBVIOUS
  <2>1. run' # run => \A h \in Handler : call[h].op \notin Sender
    BY DEF vars
  <2>2. CASE run' = run
    BY <2>2, RowsWaitedStep, MessagesWaitedStep, CallsWaitedStep DEF Waited
  <2>3. CASE run' # run
    BY <2>1, <2>3, OnlyNewRuns, NewRunWaits
  <2> QED
    BY <2>2, <2>3
<1>3. Waited => NothingSentBeforeApproval
  BY DEF Waited, MessagesWaited, Approved, NothingSentBeforeApproval
<1> QED
  BY <1>1, <1>2, <1>3, AlwaysKept, PTL DEF Spec, RunsWaitForSenders

-----------------------------------------------------------------------------
(***************************************************************************)
(* Across runs, again.  An approval that outlives its run marks the next   *)
(* batch as sent.  When a new run waits for approvals, a batch shown as    *)
(* sent has left no draft untried in any run; no other request that goes   *)
(* on from run to run makes a draft of a row.                              *)
(***************************************************************************)
Approver == {"approve", "send", "record_sent", "finish"}

RunsWaitForApprovals == [][run' # run => \A h \in Handler : call[h].op \notin Approver]_vars

CallAttempted(c) ==
    /\ c.op \in Approver => batch # Absent
    /\ c.op = "approve" => c.todo = Recipient
    /\ c.op \in {"send", "record_sent"} => \A r \in Recipient \ c.todo : Attempted(r)
    /\ c.op = "finish" => \A r \in Recipient : Attempted(r)

AllAttempted ==
    /\ \A h \in Handler : CallAttempted(call[h])
    /\ batch = "sent" => \A r \in Recipient : Attempted(r)

\* A row that is written keeps being attempted.
LEMMA WrittenStaysAttempted ==
    ASSUME Kept, NEW q \in Recipient, NEW row, UpdateRow(q, row), refused \subseteq refused',
           recipient[q] # NoRow => row.status \in {recipient[q].status} \cup
                                       {"sent", "opened", "completed", "follow_up_sent"}
    PROVE  \A r \in Recipient : Attempted(r) => Attempted(r)'
<1> SUFFICES ASSUME NEW r \in Recipient, Attempted(r) PROVE Attempted(r)'
  OBVIOUS
<1>1. CASE recipient'[r] = recipient[r]
  BY <1>1 DEF Attempted
<1>2. CASE recipient'[r] # recipient[r]
  <2>1. r = q /\ recipient[q] # NoRow /\ recipient'[r] = row
    BY <1>2 DEF UpdateRow, Kept, TypeOK
  <2> QED
    BY <2>1 DEF Attempted
<1> QED
  BY <1>1, <1>2

LEMMA AttemptsStay ==
    ASSUME Kept, [Next]_vars, run' = run, batch # Absent
    PROVE  \A r \in Recipient : Attempted(r) => Attempted(r)'
<1> DEFINE Goal == \A r \in Recipient : Attempted(r) => Attempted(r)'
<1>1. ~NewRun
  BY RecoveryAssumption DEF NewRun, Kept, TypeOK
<1>2. recipient' = recipient /\ refused \subseteq refused' => Goal
  BY DEF Attempted
<1>3. \A r \in Recipient : recipient[r] # NoRow => recipient[r] \in Row
  BY DEF Kept, TypeOK
<1>4. ASSUME NEW h \in Handler, DraftMessage(h) PROVE Goal
  <2>1. call[h].op = "draft" /\ call[h] \in Call /\ CallBacked(call[h])
    BY <1>4, Kinds DEF DraftMessage
  <2>2. PICK q \in Recipient : q = First(call[h].todo)
    BY <2>1, CallFields, FirstIsLeft DEF CallBacked
  <2>3. PICK row : row = [recipient[q] EXCEPT !.body = call[h].link]
    OBVIOUS
  <2>4. recipient[q] # NoRow => row.status = recipient[q].status
    BY <1>3, <2>3 DEF Row
  <2>5. UpdateRow(q, row) /\ UNCHANGED refused
    BY <1>4, <2>2, <2>3 DEF DraftMessage, Provider
  <2> QED
    BY <2>4, <2>5, WrittenStaysAttempted
<1>5. ASSUME NEW h \in Handler, RecordSent(h) \/ RecordRetry(h) PROVE Goal
  <2>1. PICK q \in Recipient : q = call[h].to
    BY <1>5, Kinds, CallFields DEF RecordSent, RecordRetry
  <2>2. PICK row : row = [recipient[q] EXCEPT !.status = "sent", !.sid = call[h].sid,
                                              !.due = "pending"]
    OBVIOUS
  <2>3. recipient[q] # NoRow => row.status = "sent"
    BY <1>3, <2>2 DEF Row
  <2>4. UpdateRow(q, row) /\ UNCHANGED refused
    BY <1>5, <2>1, <2>2 DEF RecordSent, RecordRetry, Provider
  <2> QED
    BY <2>3, <2>4, WrittenStaysAttempted
<1>6. ASSUME NEW h \in Handler, RecordFollowUp(h) PROVE Goal
  <2>1. PICK q \in Recipient : q = call[h].to
    BY <1>6, Kinds, CallFields DEF RecordFollowUp
  <2>2. PICK row : row = [recipient[q] EXCEPT !.status = "follow_up_sent"]
    OBVIOUS
  <2>3. recipient[q] # NoRow => row.status = "follow_up_sent"
    BY <1>3, <2>2 DEF Row
  <2>4. UpdateRow(q, row) /\ UNCHANGED refused
    BY <1>6, <2>1, <2>2 DEF RecordFollowUp, Provider
  <2> QED
    BY <2>3, <2>4, WrittenStaysAttempted
<1>7. ASSUME NEW q \in Recipient, Customer(q) PROVE Goal
  <2>1. PICK row : /\ recipient' = [recipient EXCEPT ![q] = row]
                   /\ \/ row = [recipient[q] EXCEPT !.status = "opened"]
                      \/ row = [recipient[q] EXCEPT !.status = "completed"]
                      \/ row = [recipient[q] EXCEPT !.due = "due"] /\ recipient[q].due = "pending"
    BY <1>7 DEF Customer, RecordLinkOpen, RecordPaymentComplete, FollowUpFallsDue
  <2>2. recipient[q] # NoRow /\ UNCHANGED refused
    BY <1>7 DEF Customer, RecordLinkOpen, RecordPaymentComplete, FollowUpFallsDue, KnownLink,
                NoRow, Provider
  <2>3. row.status \in {recipient[q].status, "opened", "completed"}
    BY <1>3, <2>1, <2>2 DEF Row
  <2>4. UpdateRow(q, row)
    BY <2>1, <2>2 DEF UpdateRow
  <2> QED
    BY <2>2, <2>3, <2>4, WrittenStaysAttempted
<1>8. ASSUME NEW h \in Handler, Prepare(h) PROVE Goal
  BY <1>2, <1>4, <1>8 DEF Prepare, StartPrepare, InsertBatch, ReadDrafts, Tables, Provider
<1>9. ASSUME NEW h \in Handler, Approve(h) PROVE Goal
  BY <1>2, <1>5, <1>9 DEF Approve, StartApproval, MarkApproved, SendAccepted, SendRefused,
                          FinishApproval, Tables, Provider
<1>10. ASSUME NEW h \in Handler, FollowUp(h) PROVE Goal
  BY <1>2, <1>6, <1>10 DEF FollowUp, ReadDue, FollowUpAccepted, FollowUpRefused, Tables, Provider
<1>11. ASSUME NEW h \in Handler, Retry(h) PROVE Goal
  BY <1>2, <1>5, <1>11 DEF Retry, StartRetry, CheckDelivery, RetryAccepted, Tables, Provider
<1>12. ASSUME NEW h \in Handler, RequestFails(h) \/ AnswerLost(h) PROVE Goal
  BY <1>2, <1>12 DEF RequestFails, AnswerLost, Tables, Provider
<1>13. ASSUME NEW r, NEW i, ReportFailed(r, i) PROVE Goal
  BY <1>2, <1>13 DEF ReportFailed, Tables
<1>14. ASSUME NEW scope, Investigate(scope) PROVE Goal
  BY <1>2, <1>14 DEF Investigate, Provider
<1>15. Crash \/ UNCHANGED vars => Goal
  BY <1>2 DEF Crash, vars, Tables, Provider
<1> QED
  BY <1>1, <1>7, <1>8, <1>9, <1>10, <1>11, <1>12, <1>13, <1>14, <1>15 DEF Next

\* A thread takes a step of a run; the others keep what they know.
LEMMA ThreadAttempts ==
    ASSUME Kept, AllAttempted, [Next]_vars, run' = run,
           NEW h \in Handler, NEW c, Continue(h, c), CallAttempted(c) \/ CallAttempted(c)',
           batch' = "sent" => batch = "sent" \/ \A r \in Recipient : Attempted(r)'
    PROVE  AllAttempted'
<1>1. batch # Absent => batch' # Absent
  BY BatchStays
<1>2. batch # Absent => \A r \in Recipient : Attempted(r) => Attempted(r)'
  BY AttemptsStay
<1>3. \A d : CallAttempted(d) => CallAttempted(d)'
  BY <1>1, <1>2 DEF CallAttempted, Approver
<1>4. ASSUME NEW g \in Handler PROVE CallAttempted(call[g])'
  <2>1. \A d : CallAttempted(d)' /\ d = call'[g] => CallAttempted(call[g])'
    BY DEF CallAttempted, Attempted
  <2>2. call'[g] = IF g = h THEN c ELSE call[g]
    BY Kinds DEF Continue
  <2>3. CASE g = h
    BY <1>3, <2>1, <2>2, <2>3
  <2>4. CASE g # h
    BY <1>3, <2>1, <2>2, <2>4 DEF AllAttempted
  <2> QED
    BY <2>3, <2>4
<1>5. batch' = "sent" => \A r \in Recipient : Attempted(r)'
  <2>1. batch = "sent" => batch # Absent
    BY DEF Absent
  <2> QED
    BY <1>2, <2>1 DEF AllAttempted
<1> QED
  BY <1>4, <1>5 DEF AllAttempted

LEMMA OthersAttempt ==
    ASSUME NEW c, c.op \notin Approver
    PROVE  CallAttempted(c)
BY DEF CallAttempted, Approver

LEMMA RemainingAttempts ==
    ASSUME Kept, AllAttempted, [Next]_vars, run' = run,
           NEW h \in Handler, call[h].op \in {"send", "record_sent"},
           NEW r \in Recipient, Attempted(r)', NEW d, d = Remaining(h, r)
    PROVE  CallAttempted(d)'
<1>1. /\ batch # Absent /\ \A q \in Recipient \ call[h].todo : Attempted(q)
      /\ call[h].todo \in SUBSET Recipient
  BY Sending DEF AllAttempted, CallAttempted, Approver
<1>2. batch' # Absent /\ \A q \in Recipient \ call[h].todo : Attempted(q)'
  BY <1>1, BatchStays, AttemptsStay
<1>3. CASE call[h].todo = {r}
  <2>1. d.op = "finish" /\ \A q \in Recipient : Attempted(q)'
    BY <1>2, <1>3 DEF Remaining
  <2> QED
    BY <1>2, <2>1 DEF CallAttempted
<1>4. CASE call[h].todo # {r}
  <2>1. d.op = "send" /\ d.todo = call[h].todo \ {r}
    BY <1>4 DEF Remaining
  <2>2. \A q \in Recipient \ d.todo : Attempted(q)'
    BY <1>2, <2>1
  <2> QED
    BY <1>2, <2>1, <2>2 DEF CallAttempted
<1> QED
  BY <1>3, <1>4

LEMMA ApproveAttempts ==
    ASSUME Kept, AllAttempted, [Next]_vars, run' = run, NEW h \in Handler, Approve(h)
    PROVE  AllAttempted'
<1>1. call[h] \in Call /\ CallAttempted(call[h])
  BY Kinds DEF AllAttempted
<1>2. CASE StartApproval(h)
  <2>1. PICK c : c = [op |-> "approve", todo |-> Recipient,
                      bodies |-> [r \in Recipient |-> recipient[r].body]]
    OBVIOUS
  <2>2. c.op = "approve" /\ c.todo = Recipient /\ batch # Absent /\ UNCHANGED batch
    BY <1>2, <2>1 DEF StartApproval, Absent, Tables
  <2>3. CallAttempted(c)
    BY <2>2 DEF CallAttempted
  <2>4. Continue(h, c)
    BY <1>2, <2>1 DEF StartApproval, Begin, Continue
  <2> QED
    BY <2>2, <2>3, <2>4, ThreadAttempts
<1>3. CASE MarkApproved(h)
  <2>1. PICK c : c = [call[h] EXCEPT !.op = "send"]
    OBVIOUS
  <2>2. call[h].op = "approve" /\ c.op = "send" /\ c.todo = call[h].todo
    BY <1>1, <1>3, <2>1 DEF MarkApproved, Call
  <2>3. batch # Absent /\ c.todo = Recipient
    BY <1>1, <2>2 DEF CallAttempted, Approver
  <2>4. CallAttempted(c)
    BY <2>2, <2>3 DEF CallAttempted
  <2>5. Continue(h, c) /\ batch' # "sent"
    BY <1>3, <2>1 DEF MarkApproved, Absent
  <2> QED
    BY <2>4, <2>5, ThreadAttempts
<1>4. CASE SendAccepted(h)
  <2>1. PICK r : r = First(call[h].todo)
    OBVIOUS
  <2>2. PICK c : c = [op |-> "record_sent", todo |-> call[h].todo,
                      bodies |-> call[h].bodies, to |-> r, sid |-> NextSid(r)]
    OBVIOUS
  <2>3. call[h].op = "send" /\ c.op = "record_sent" /\ c.todo = call[h].todo /\ UNCHANGED batch
    BY <1>4, <2>2 DEF SendAccepted, Tables
  <2>4. CallAttempted(c)
    BY <1>1, <2>3 DEF CallAttempted, Approver
  <2>5. Continue(h, c)
    BY <1>4, <2>1, <2>2 DEF SendAccepted
  <2> QED
    BY <2>3, <2>4, <2>5, ThreadAttempts
<1>5. CASE SendRefused(h)
  <2>1. call[h].op = "send"
    BY <1>5 DEF SendRefused
  <2>2. PICK r \in Recipient : r = First(call[h].todo)
    BY <2>1, Sending
  <2>3. PICK d : d = Remaining(h, r)
    OBVIOUS
  <2>4. Continue(h, d) /\ UNCHANGED batch /\ Attempted(r)'
    BY <1>5, <2>2, <2>3 DEF SendRefused, Attempted, Tables
  <2> QED
    BY <2>1, <2>3, <2>4, RemainingAttempts, ThreadAttempts
<1>6. CASE RecordSent(h)
  <2>1. call[h].op = "record_sent"
    BY <1>6 DEF RecordSent
  <2>2. PICK r \in Recipient : r = call[h].to
    BY <1>1, <2>1, CallFields
  <2>3. PICK d : d = Remaining(h, r)
    OBVIOUS
  <2>4. Continue(h, d) /\ UNCHANGED batch
    BY <1>6, <2>2, <2>3 DEF RecordSent
  <2>5. Attempted(r)'
    <3>1. CASE recipient[r] = NoRow
      BY <1>6, <2>2, <3>1 DEF RecordSent, UpdateRow, Attempted, NoRow
    <3>2. CASE recipient[r] # NoRow
      <4>1. PICK row : row = [recipient[r] EXCEPT !.status = "sent", !.sid = call[h].sid,
                                                  !.due = "pending"]
        OBVIOUS
      <4>2. row.status = "sent"
        BY <3>2, <4>1 DEF Kept, TypeOK, Row
      <4>3. recipient'[r] = row
        BY <1>6, <2>2, <3>2, <4>1 DEF RecordSent, UpdateRow, Kept, TypeOK
      <4> QED
        BY <4>2, <4>3 DEF Attempted
    <3> QED
      BY <3>1, <3>2
  <2> QED
    BY <2>1, <2>3, <2>4, <2>5, RemainingAttempts, ThreadAttempts
<1>7. CASE FinishApproval(h)
  <2>1. call[h].op = "finish" /\ UNCHANGED <<recipient, refused>>
    BY <1>7 DEF FinishApproval, Provider
  <2>2. \A r \in Recipient : Attempted(r)'
    BY <1>1, <2>1 DEF CallAttempted, Attempted
  <2>3. Continue(h, Idle) /\ CallAttempted(Idle)
    BY <1>7 DEF FinishApproval, Return, Continue, CallAttempted, Approver, Idle
  <2> QED
    BY <2>2, <2>3, ThreadAttempts DEF Idle
<1> QED
  BY <1>2, <1>3, <1>4, <1>5, <1>6, <1>7 DEF Approve

\* A request that is no approval neither becomes one nor marks a batch as sent.
LEMMA OtherThreads ==
    ASSUME Kept, NEW h \in Handler,
           Prepare(h) \/ FollowUp(h) \/ Retry(h) \/ RequestFails(h) \/ AnswerLost(h)
    PROVE  /\ batch' = "sent" => batch = "sent"
           /\ \E c : Continue(h, c) /\ c.op \notin Approver
<1>1. call[h] \in Call
  BY Kinds
<1>2. \A g, c : Continue(g, c) <=> call' = [call EXCEPT ![g] = c]
  BY DEF Continue
<1>3. Idle.op \notin Approver
  BY DEF Idle, Approver
<1>4. CASE Prepare(h)
  <2>1. CASE StartPrepare(h) \/ InsertBatch(h)
    <3>1. PICK c : Continue(h, c) /\ c \in {Idle, [op |-> "prepare"], [op |-> "read_drafts"]}
      BY <2>1 DEF StartPrepare, Begin, InsertBatch, Continue, Return
    <3>2. c.op \notin Approver
      BY <3>1 DEF Idle, Approver
    <3> QED
      BY <2>1, <3>1, <3>2 DEF StartPrepare, InsertBatch, Tables
  <2>2. CASE ReadDrafts(h)
    <3>1. PICK c : /\ Continue(h, c)
                   /\ c = Idle \/ \E todo : c = [op |-> "draft", todo |-> todo, link |-> run]
      BY <2>2 DEF ReadDrafts, Continue, Return
    <3>2. c.op \notin Approver
      BY <3>1 DEF Idle, Approver
    <3> QED
      BY <2>2, <3>1, <3>2 DEF ReadDrafts, Tables
  <2>3. CASE DraftMessage(h)
    <3>1. PICK c : /\ Continue(h, c)
                   /\ c = Idle \/ \E todo : c = [call[h] EXCEPT !.todo = todo]
      BY <2>3 DEF DraftMessage, Continue, Return
    <3>2. call[h].op = "draft"
      BY <2>3 DEF DraftMessage
    <3>3. c.op \notin Approver
      BY <1>1, <3>1, <3>2 DEF Idle, Call, Approver
    <3> QED
      BY <2>3, <3>1, <3>3 DEF DraftMessage
  <2> QED
    BY <1>4, <2>1, <2>2, <2>3 DEF Prepare
<1>5. CASE FollowUp(h)
  <2>1. UNCHANGED batch
    BY <1>5 DEF FollowUp, ReadDue, FollowUpAccepted, FollowUpRefused, RecordFollowUp, Tables
  <2>2. CASE ReadDue(h)
    <3>1. PICK c : c = [op |-> "follow_up", todo |-> {r \in Recipient : Due(r)}, link |-> run]
      OBVIOUS
    <3>2. Continue(h, c) /\ c.op = "follow_up"
      BY <2>2, <3>1 DEF ReadDue, Begin, Continue
    <3> QED
      BY <2>1, <3>2 DEF Approver
  <2>3. ASSUME NEW r \in Recipient, FollowUpAccepted(h, r)
        PROVE  \E c : Continue(h, c) /\ c.op \notin Approver
    <3>1. PICK c : c = [op |-> "record_follow_up", todo |-> call[h].todo,
                        link |-> call[h].link, to |-> r]
      OBVIOUS
    <3>2. Continue(h, c) /\ c.op = "record_follow_up"
      BY <2>3, <3>1 DEF FollowUpAccepted
    <3> QED
      BY <3>2 DEF Approver
  <2>4. ASSUME NEW r PROVE NextFollowUp(h, r).op \notin Approver
    BY DEF NextFollowUp, Idle, Approver
  <2>5. ASSUME NEW r \in Recipient, FollowUpRefused(h, r) \/ RecordFollowUp(h)
        PROVE  \E c : Continue(h, c) /\ c.op \notin Approver
    BY <2>4, <2>5 DEF FollowUpRefused, RecordFollowUp
  <2>6. RecordFollowUp(h) => \E c : Continue(h, c) /\ c.op \notin Approver
    BY <2>4 DEF RecordFollowUp
  <2> QED
    BY <1>5, <2>1, <2>2, <2>3, <2>5, <2>6 DEF FollowUp
<1>6. CASE Retry(h)
  <2>1. UNCHANGED batch
    BY <1>6 DEF Retry, StartRetry, CheckDelivery, RetryAccepted, RecordRetry, Tables
  <2>2. ASSUME NEW r \in Recipient, StartRetry(h, r)
        PROVE  \E c : Continue(h, c) /\ c.op \notin Approver
    <3>1. PICK c : c = [op |-> "check", to |-> r, body |-> recipient[r].body,
                        sid |-> recipient[r].sid]
      OBVIOUS
    <3>2. Continue(h, c) /\ c.op = "check"
      BY <2>2, <3>1 DEF StartRetry, Begin, Continue
    <3> QED
      BY <3>2 DEF Approver
  <2>3. CASE CheckDelivery(h)
    <3>1. PICK c : /\ Continue(h, c)
                   /\ c = Idle \/ c = [op |-> "resend", to |-> call[h].to, body |-> call[h].body]
      BY <2>3 DEF CheckDelivery
    <3>2. c.op \notin Approver
      BY <3>1 DEF Idle, Approver
    <3> QED
      BY <2>1, <3>1, <3>2
  <2>4. CASE RetryAccepted(h)
    <3>1. PICK c : c = [op |-> "record_retry", to |-> call[h].to, sid |-> NextSid(call[h].to)]
      OBVIOUS
    <3>2. Continue(h, c) /\ c.op = "record_retry"
      BY <2>4, <3>1 DEF RetryAccepted
    <3> QED
      BY <2>1, <3>2 DEF Approver
  <2>5. CASE RecordRetry(h)
    BY <1>3, <2>1, <2>5 DEF RecordRetry, Return, Continue
  <2> QED
    BY <1>6, <2>1, <2>2, <2>3, <2>4, <2>5 DEF Retry
<1>7. CASE RequestFails(h) \/ AnswerLost(h)
  BY <1>3, <1>7 DEF RequestFails, AnswerLost, Return, Continue, Tables
<1> QED
  BY <1>4, <1>5, <1>6, <1>7

LEMMA AttemptedInRun ==
    ASSUME Kept, AllAttempted, [Next]_vars, run' = run
    PROVE  AllAttempted'
<1>1. ~NewRun
  BY RecoveryAssumption DEF NewRun, Kept, TypeOK
<1>2. ASSUME NEW h \in Handler,
             Prepare(h) \/ FollowUp(h) \/ Retry(h) \/ RequestFails(h) \/ AnswerLost(h)
      PROVE  AllAttempted'
  <2>1. PICK c : Continue(h, c) /\ c.op \notin Approver
    BY <1>2, OtherThreads
  <2>2. batch' = "sent" => batch = "sent"
    BY <1>2, OtherThreads
  <2> QED
    BY <2>1, <2>2, OthersAttempt, ThreadAttempts
<1>3. batch # Absent => /\ batch' # Absent
                        /\ \A r \in Recipient : Attempted(r) => Attempted(r)'
  BY BatchStays, AttemptsStay
<1>4. ASSUME UNCHANGED <<batch, call>> PROVE AllAttempted'
  <2>1. (\A h \in Handler : CallAttempted(call[h]))'
    <3> SUFFICES ASSUME NEW h \in Handler PROVE CallAttempted(call[h])'
      OBVIOUS
    <3>1. CallAttempted(call[h])
      BY DEF AllAttempted
    <3> QED
      BY <1>3, <1>4, <3>1 DEF CallAttempted, Approver
  <2>2. batch = "sent" => batch # Absent
    BY DEF Absent
  <2> QED
    BY <1>3, <1>4, <2>1, <2>2 DEF AllAttempted
<1>5. CASE Crash
  <2>1. \A h \in Handler : call'[h].op = "idle"
    BY <1>5 DEF Crash, Idle
  <2>2. (\A h \in Handler : CallAttempted(call[h]))'
    BY <2>1 DEF CallAttempted, Approver
  <2> QED
    BY <1>5, <2>2 DEF Crash, Tables, Provider, AllAttempted, Attempted
<1>6. UNCHANGED vars => UNCHANGED <<batch, call>>
  BY DEF vars
<1>7. \A scope : Investigate(scope) => UNCHANGED <<batch, call>>
  BY DEF Investigate
<1>8. \A r \in Recipient : Customer(r) => UNCHANGED <<batch, call>>
  BY DEF Customer, RecordLinkOpen, RecordPaymentComplete, FollowUpFallsDue
<1>9. \A r, i : ReportFailed(r, i) => UNCHANGED <<batch, call>>
  BY DEF ReportFailed, Tables
<1> QED
  BY <1>1, <1>2, <1>4, <1>5, <1>6, <1>7, <1>8, <1>9, ApproveAttempts DEF Next

\* In every run, for any threads, crashes, lost answers and refusals: a batch
\* shown as sent has left no draft untried, if a new run is created only when
\* no approval is under way.
THEOREM SentIsAttemptedWhenRunsWait ==
    Spec /\ RunsWaitForApprovals => []SentBatchWasAttempted
<1>1. Init => AllAttempted
  BY DEF Init, AllAttempted, CallAttempted, Approver, Idle, Absent
<1>2. Kept /\ AllAttempted /\ [Next]_vars /\
          [run' # run => \A h \in Handler : call[h].op \notin Approver]_vars => AllAttempted'
  <2> SUFFICES ASSUME Kept, AllAttempted, [Next]_vars,
                      [run' # run => \A h \in Handler : call[h].op \notin Approver]_vars
               PROVE  AllAttempted'
    OBVIOUS
  <2>1. run' # run => \A h \in Handler : call[h].op \notin Approver
    BY DEF vars
  <2>2. CASE run' = run
    BY <2>2, AttemptedInRun
  <2>3. CASE run' # run
    <3>1. NewRun /\ \A h \in Handler : call'[h].op \notin Approver
      BY <2>1, <2>3, OnlyNewRuns DEF NewRun
    <3>2. batch' # "sent"
      BY <3>1 DEF NewRun, Absent
    <3> QED
      BY <3>1, <3>2 DEF AllAttempted, CallAttempted, Approver
  <2> QED
    BY <2>2, <2>3
<1>3. AllAttempted => SentBatchWasAttempted
  BY DEF AllAttempted, Attempted, SentBatchWasAttempted
<1> QED
  BY <1>1, <1>2, <1>3, AlwaysKept, PTL DEF Spec, RunsWaitForApprovals
=============================================================================
