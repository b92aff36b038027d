--------------------------- MODULE Copilot_proofs ---------------------------
(***************************************************************************)
(* Proofs about Copilot, for any merchants, dashboards, tokens and threads *)
(* and any number of questions and demo runs.                              *)
(***************************************************************************)
EXTENDS Copilot, SequenceTheorems, TLAPS

PanelMessage == Messages({"user", "assistant", "unsaved", "error", "brief"})
StoredMessage == Messages({"user", "assistant"})

-----------------------------------------------------------------------------
\* What Add does to one of several conversations, and to the others.
LEMMA Adding ==
    ASSUME NEW M, NEW D, NEW f \in [D -> Seq(M)], NEW d \in D, NEW x \in M
    PROVE  /\ Add(f, d, x) \in [D -> Seq(M)]
           /\ \A c \in D \ {d} : Add(f, d, x)[c] = f[c]
           /\ Add(f, d, x)[d] = Append(f[d], x)
           /\ Len(Add(f, d, x)[d]) = Len(f[d]) + 1
           /\ \A i \in 1..Len(f[d]) : Add(f, d, x)[d][i] = f[d][i]
           /\ Add(f, d, x)[d][Len(f[d]) + 1] = x
<1>1. /\ Append(f[d], x) \in Seq(M)
      /\ Len(Append(f[d], x)) = Len(f[d]) + 1
      /\ \A i \in 1..Len(f[d]) : Append(f[d], x)[i] = f[d][i]
      /\ Append(f[d], x)[Len(f[d]) + 1] = x
  BY AppendProperties
<1> QED
  BY <1>1 DEF Add

\* Latest gives a stretch at the end of a conversation, not empty if that is not.
LEMMA LatestMessages ==
    ASSUME NEW M, NEW messages \in Seq(M), messages # <<>>
    PROVE  /\ Latest(messages) \in Seq(M)
           /\ Latest(messages) # <<>>
           /\ \A i \in 1..Len(Latest(messages)) :
                  \E j \in 1..Len(messages) : Latest(messages)[i] = messages[j]
<1> DEFINE n == Len(messages)
           first == IF n > HistoryLimit THEN n - HistoryLimit + 1 ELSE 1
<1>1. n \in Nat \ {0}
  BY EmptySeq
<1>2. first \in 1..n
  BY <1>1, CopilotAssumption
<1>3. Latest(messages) = SubSeq(messages, first, n)
  BY DEF Latest
<1> HIDE DEF first
<1>4. /\ SubSeq(messages, first, n) \in Seq(M)
      /\ Len(SubSeq(messages, first, n)) = n - first + 1
      /\ \A i \in 1..(n - first + 1) :
            SubSeq(messages, first, n)[i] = messages[first + i - 1]
  BY <1>1, <1>2
<1>5. ASSUME NEW i \in 1..Len(Latest(messages))
      PROVE  \E j \in 1..n : Latest(messages)[i] = messages[j]
  <2>1. first + i - 1 \in 1..n
    BY <1>1, <1>2, <1>3, <1>4
  <2> QED
    BY <1>1, <1>2, <1>3, <1>4, <2>1
<1>6. Len(Latest(messages)) # 0
  BY <1>1, <1>2, <1>3, <1>4
<1> QED
  BY <1>3, <1>4, <1>5, <1>6
-----------------------------------------------------------------------------
\* What a dashboard that waits, or renders its pages, has.
LEMMA WaitingIsSignedIn ==
    ASSUME TypeOK, NEW b \in Browser, waiting[b] # 0 \/ Rendered(b)
    PROVE  signedIn[b] \in [user : Merchant, token : Token]
BY DEF TypeOK, Rendered

LEMMA AdmittedUser ==
    ASSUME TypeOK, NEW t \in Token, Admits(t)
    PROVE  session[t] \in SessionRow /\ session[t].user \in Merchant
BY DEF TypeOK, Admits, NoSession, SessionRow

LEMMA MessageType ==
    ASSUME NEW roles, NEW role \in roles, NEW ask \in Nat, NEW m \in Merchant, NEW r \in Nat
    PROVE  Message(role, ask, m, r) \in Messages(roles)
BY DEF Message, Messages

LEMMA GiveUpType ==
    ASSUME TypeOK, NEW b \in Browser, waiting[b] # 0, GiveUp(b)
    PROVE  /\ panel' \in [Browser -> Seq(PanelMessage)]
           /\ waiting' \in [Browser -> Nat]
           /\ \A c \in Browser : waiting'[c] # 0 => panel'[c] = panel[c] /\ waiting[c] # 0
<1>1. Apology(b) \in PanelMessage
  BY WaitingIsSignedIn, MessageType DEF Apology, TypeOK, PanelMessage
<1>2. panel \in [Browser -> Seq(PanelMessage)] /\ waiting \in [Browser -> Nat]
  BY DEF TypeOK, PanelMessage
<1>3. /\ panel' \in [Browser -> Seq(PanelMessage)]
      /\ \A c \in Browser \ {b} : panel'[c] = panel[c]
  BY <1>1, <1>2, Adding DEF GiveUp
<1> QED
  BY <1>2, <1>3 DEF GiveUp

-----------------------------------------------------------------------------
LEMMA InitType == Init => TypeOK
BY CopilotAssumption, EmptySeq
   DEF Init, AccountsInit, TypeOK, Calls, Idle, SessionRow

\* The steps of a dashboard, one action each.
LEMMA SignInType ==
    ASSUME TypeOK, NEW b \in Browser, NEW m \in Merchant, NEW t \in Token,
           NEW answered \in BOOLEAN, SignIn(b, m, t, answered), UNCHANGED copilotVars
    PROVE  TypeOK'
<1>1. [user |-> m, state |-> "live"] \in SessionRow
  BY DEF SessionRow
<1>2. session' \in [Token -> SessionRow \cup {NoSession}]
  BY <1>1 DEF SignIn, TypeOK
<1>3. signedIn' \in [Browser -> [user : Merchant, token : Token] \cup {SignedOut}]
  BY DEF SignIn, TypeOK
<1>4. \A c \in Browser : waiting'[c] # 0 => signedIn'[c] # SignedOut /\ panel'[c] # <<>>
  BY DEF SignIn, TypeOK, copilotVars, SignedOut
<1> QED
  BY <1>2, <1>3, <1>4 DEF TypeOK, copilotVars

LEMMA SignOutType ==
    ASSUME TypeOK, NEW b \in Browser, SignOut(b)
    PROVE  TypeOK'
<1>1. PICK reached \in BOOLEAN : DropToken(b, reached)
  BY DEF SignOut
<1>2. session' \in [Token -> SessionRow \cup {NoSession}]
  <2>1. signedIn[b].token \in Token /\ session[signedIn[b].token] \in SessionRow
    BY <1>1, WaitingIsSignedIn, AdmittedUser DEF DropToken, Rendered
  <2>2. [session[signedIn[b].token] EXCEPT !.state = "revoked"] \in SessionRow
    BY <2>1 DEF SessionRow
  <2> QED
    BY <1>1, <2>1, <2>2 DEF DropToken, Revoke, TypeOK
<1>3. signedIn' \in [Browser -> [user : Merchant, token : Token] \cup {SignedOut}]
  BY <1>1 DEF DropToken, TypeOK
<1>4. panel' \in [Browser -> Seq(PanelMessage)]
  BY EmptySeq DEF SignOut, TypeOK, PanelMessage
<1>5. \A c \in Browser : waiting'[c] # 0 => signedIn'[c] # SignedOut /\ panel'[c] # <<>>
  BY <1>1 DEF SignOut, DropToken, TypeOK
<1> QED
  BY <1>2, <1>3, <1>4, <1>5 DEF SignOut, TypeOK, PanelMessage

LEMMA ReloadType ==
    ASSUME TypeOK, NEW b \in Browser, Reload(b)
    PROVE  TypeOK'
<1>1. signedIn' \in [Browser -> [user : Merchant, token : Token] \cup {SignedOut}]
  BY DEF Reload, NewDashboardSession, TypeOK
<1>2. panel' \in [Browser -> Seq(PanelMessage)]
  BY EmptySeq DEF Reload, TypeOK, PanelMessage
<1>3. waiting' \in [Browser -> Nat]
  BY DEF Reload, TypeOK
<1>4. \A c \in Browser : waiting'[c] # 0 => signedIn'[c] # SignedOut /\ panel'[c] # <<>>
  BY DEF Reload, NewDashboardSession, TypeOK
<1> QED
  BY <1>1, <1>2, <1>3, <1>4 DEF Reload, NewDashboardSession, TypeOK, PanelMessage

LEMMA OpenType ==
    ASSUME TypeOK, NEW b \in Browser, Open(b)
    PROVE  TypeOK'
<1> DEFINE m == session[signedIn[b].token].user
<1>1. m \in Merchant
  BY WaitingIsSignedIn, AdmittedUser DEF Open, Rendered
<1>2. history[m] \in Seq(StoredMessage) /\ StoredMessage \subseteq PanelMessage
  BY <1>1 DEF TypeOK, StoredMessage, PanelMessage, Messages
<1>3. Brief(m) \in PanelMessage
  BY <1>1, MessageType DEF Brief, PanelMessage
<1>4. (IF history[m] = <<>> THEN <<Brief(m)>> ELSE Latest(history[m])) \in Seq(PanelMessage)
  <2>1. CASE history[m] = <<>>
    BY <1>3, <2>1
  <2>2. CASE history[m] # <<>>
    <3>1. Latest(history[m]) \in Seq(StoredMessage)
      BY <1>2, <2>2, LatestMessages
    <3> QED
      BY <1>2, <2>2, <3>1, SeqMonotonic
  <2> QED
    BY <2>1, <2>2
<1>5. panel' \in [Browser -> Seq(PanelMessage)]
  BY <1>4 DEF Open, TypeOK, PanelMessage
<1>6. \A c \in Browser : waiting'[c] # 0 => panel'[c] = panel[c]
  BY DEF Open, TypeOK
<1> QED
  BY <1>5, <1>6 DEF Open, TypeOK, PanelMessage

LEMMA AskType ==
    ASSUME TypeOK, NEW b \in Browser, Ask(b)
    PROVE  TypeOK'
<1> DEFINE question == Message("user", asks + 1, signedIn[b].user, 0)
<1>1. question \in PanelMessage /\ asks + 1 \in Nat
  <2>1. asks + 1 \in Nat /\ signedIn[b].user \in Merchant
    BY WaitingIsSignedIn DEF Ask, TypeOK
  <2> QED
    BY <2>1, MessageType DEF PanelMessage
<1>2. panel \in [Browser -> Seq(PanelMessage)]
  BY DEF TypeOK, PanelMessage
<1> HIDE DEF question
<1>3. /\ Add(panel, b, question) \in [Browser -> Seq(PanelMessage)]
      /\ Len(Add(panel, b, question)[b]) = Len(panel[b]) + 1
      /\ \A c \in Browser \ {b} : Add(panel, b, question)[c] = panel[c]
  BY <1>1, <1>2, Adding
<1>4. panel' = Add(panel, b, question)
  BY DEF Ask, question
<1>5. panel'[b] # <<>>
  BY <1>2, <1>3, <1>4, EmptySeq, LenProperties
<1>6. \A c \in Browser : waiting'[c] # 0 => signedIn'[c] # SignedOut /\ panel'[c] # <<>>
  BY <1>3, <1>4, <1>5 DEF Ask, Rendered, TypeOK
<1> QED
  BY <1>1, <1>3, <1>4, <1>6 DEF Ask, TypeOK, PanelMessage

LEMMA TimeOutType ==
    ASSUME TypeOK, NEW b \in Browser, TimeOut(b)
    PROVE  TypeOK'
<1>1. /\ panel' \in [Browser -> Seq(PanelMessage)]
      /\ waiting' \in [Browser -> Nat]
      /\ \A c \in Browser : waiting'[c] # 0 => panel'[c] = panel[c] /\ waiting[c] # 0
  BY GiveUpType DEF TimeOut
<1> QED
  BY <1>1 DEF TimeOut, TypeOK, PanelMessage
-----------------------------------------------------------------------------
\* The steps of a worker thread.
LEMMA CallShape ==
    ASSUME TypeOK, NEW h \in Handler, call[h] # Idle
    PROVE  /\ call[h] \in [op : {"answer", "store", "saved", "unsaved"}, ask : Nat \ {0},
                            merchant : Merchant, run : Nat]
           /\ call[h].ask \in Nat \ {0} /\ call[h].merchant \in Merchant
           /\ call[h].run \in Nat
BY DEF TypeOK, Calls

LEMMA AdmitType ==
    ASSUME TypeOK, NEW h \in Handler, NEW b \in Browser, Admit(h, b)
    PROVE  TypeOK'
<1>1. CASE Admits(signedIn[b].token)
  <2>1. session[signedIn[b].token].user \in Merchant
    BY <1>1, WaitingIsSignedIn, AdmittedUser DEF Admit
  <2>2. [op |-> "answer", ask |-> waiting[b], run |-> 0,
         merchant |-> session[signedIn[b].token].user] \in Calls
    <3>1. waiting[b] \in Nat \ {0}
      BY DEF Admit, TypeOK
    <3> QED
      BY <2>1, <3>1 DEF Calls
  <2>3. call' \in [Handler -> Calls]
    BY <1>1, <2>2 DEF Admit, TypeOK
  <2> QED
    BY <1>1, <2>3 DEF Admit, TypeOK
<1>2. CASE ~Admits(signedIn[b].token)
  <2>1. GiveUp(b) /\ waiting[b] # 0
    BY <1>2 DEF Admit
  <2>2. /\ panel' \in [Browser -> Seq(PanelMessage)]
        /\ waiting' \in [Browser -> Nat]
        /\ \A c \in Browser : waiting'[c] # 0 => panel'[c] = panel[c] /\ waiting[c] # 0
    BY <2>1, GiveUpType
  <2> QED
    BY <1>2, <2>2 DEF Admit, TypeOK, PanelMessage
<1> QED
  BY <1>1, <1>2

\* A thread that goes on keeps its question and its merchant.
LEMMA GoesOn ==
    ASSUME TypeOK, NEW h \in Handler, call[h] # Idle,
           NEW op \in {"answer", "store", "saved", "unsaved"}, NEW r \in Nat,
           \/ call' = [call EXCEPT ![h].op = op, ![h].run = r]
           \/ Step(h, op)
    PROVE  /\ call' \in [Handler -> Calls]
           /\ call'[h].op = op /\ call'[h].ask = call[h].ask
           /\ call'[h].merchant = call[h].merchant
           /\ call'[h].run \in Nat /\ call'[h].run \in {r, call[h].run}
           /\ Step(h, op) => call'[h].run = call[h].run
           /\ \A g \in Handler \ {h} : call'[g] = call[g]
<1> DEFINE c == call[h]
           Going == [op : {"answer", "store", "saved", "unsaved"}, ask : Nat \ {0},
                     merchant : Merchant, run : Nat]
<1>1. c \in Going
  BY CallShape
<1>2. PICK new : /\ call' = [call EXCEPT ![h] = new]
                 /\ new \in {[c EXCEPT !.op = op, !.run = r], [c EXCEPT !.op = op]}
  BY DEF Step
<1>3. /\ new \in Going /\ new.op = op /\ new.ask = c.ask /\ new.merchant = c.merchant
      /\ new.run \in {r, c.run}
  BY <1>1, <1>2
<1>4. Step(h, op) => call'[h].run = c.run
  <2>1. Step(h, op) => call' = [call EXCEPT ![h] = [c EXCEPT !.op = op]]
    BY DEF Step
  <2>2. [c EXCEPT !.op = op].run = c.run
    BY <1>1
  <2> QED
    BY <2>1, <2>2 DEF TypeOK
<1> QED
  BY <1>2, <1>3, <1>4 DEF TypeOK, Calls

LEMMA RememberType ==
    ASSUME TypeOK, NEW h \in Handler, call[h] # Idle, call'[h].run \in Nat,
           NEW role \in {"user", "assistant"}, Remember(h, role)
    PROVE  history' \in [Merchant -> Seq(StoredMessage)]
<1> DEFINE message == Message(role, call[h].ask, call[h].merchant, call'[h].run)
<1>1. message \in StoredMessage
  BY CallShape, MessageType DEF StoredMessage
<1>2. history \in [Merchant -> Seq(StoredMessage)] /\ call[h].merchant \in Merchant
  BY CallShape DEF TypeOK, StoredMessage
<1> QED
  BY <1>1, <1>2, Adding DEF Remember

LEMMA StoreQuestionType ==
    ASSUME TypeOK, NEW h \in Handler, StoreQuestion(h)
    PROVE  TypeOK'
<1>1. call[h] # Idle
  BY DEF StoreQuestion, Idle
<1>2. run \in Nat
  BY DEF TypeOK
<1>3. call' \in [Handler -> Calls] /\ call'[h].run \in Nat
  BY <1>1, <1>2, GoesOn DEF StoreQuestion
<1>4. history' \in [Merchant -> Seq(StoredMessage)]
  BY <1>1, <1>3, RememberType DEF StoreQuestion, TypeOK, StoredMessage
<1> QED
  BY <1>3, <1>4 DEF StoreQuestion, TypeOK, StoredMessage

LEMMA StoreAnswerType ==
    ASSUME TypeOK, NEW h \in Handler, StoreAnswer(h)
    PROVE  TypeOK'
<1>1. call[h] # Idle
  BY DEF StoreAnswer, Idle
<1>2. call' \in [Handler -> Calls] /\ call'[h].run \in Nat
  BY <1>1, GoesOn DEF StoreAnswer
<1>3. history' \in [Merchant -> Seq(StoredMessage)]
  BY <1>1, <1>2, RememberType DEF StoreAnswer, TypeOK, StoredMessage
<1> QED
  BY <1>2, <1>3 DEF StoreAnswer, TypeOK, StoredMessage

LEMMA ReplyType ==
    ASSUME TypeOK, NEW h \in Handler, Reply(h)
    PROVE  TypeOK'
<1> DEFINE role == IF call[h].op = "saved" THEN "assistant" ELSE "unsaved"
           message == Message(role, call[h].ask, call[h].merchant, call[h].run)
<1>1. call[h] # Idle
  BY DEF Reply, Idle
<1>2. message \in PanelMessage
  <2>1. role \in {"user", "assistant", "unsaved", "error", "brief"}
    OBVIOUS
  <2> QED
    BY <1>1, <2>1, CallShape, MessageType DEF PanelMessage
<1>3. panel \in [Browser -> Seq(PanelMessage)] /\ waiting \in [Browser -> Nat]
  BY DEF TypeOK, PanelMessage
<1>4. \A b \in Browser : Append(panel[b], message) \in Seq(PanelMessage)
  BY <1>2, <1>3
<1>5. /\ panel' \in [Browser -> Seq(PanelMessage)]
      /\ waiting' \in [Browser -> Nat]
      /\ \A b \in Browser : waiting'[b] # 0 => panel'[b] = panel[b] /\ waiting[b] # 0
  BY <1>3, <1>4 DEF Reply
<1>6. call' \in [Handler -> Calls]
  BY DEF Reply, TypeOK, Calls
<1> QED
  BY <1>5, <1>6 DEF Reply, TypeOK, PanelMessage

LEMMA CrashType ==
    ASSUME TypeOK, Crash
    PROVE  TypeOK'
<1>1. panel \in [Browser -> Seq(PanelMessage)] /\ waiting \in [Browser -> Nat]
  BY DEF TypeOK, PanelMessage
<1>2. \A b \in Browser : waiting[b] # 0 => Apology(b) \in PanelMessage
  BY WaitingIsSignedIn, MessageType DEF Apology, TypeOK, PanelMessage
<1>3. /\ panel' \in [Browser -> Seq(PanelMessage)]
      /\ waiting' \in [Browser -> Nat]
      /\ \A b \in Browser : waiting'[b] # 0 => panel'[b] = panel[b] /\ waiting[b] # 0
  BY <1>1, <1>2 DEF Crash
<1>4. call' \in [Handler -> Calls]
  BY DEF Crash, Calls
<1> QED
  BY <1>3, <1>4 DEF Crash, TypeOK, PanelMessage

LEMMA ExpireType ==
    ASSUME TypeOK, NEW t \in Token, Expire(t), UNCHANGED copilotVars
    PROVE  TypeOK'
<1>1. [session[t] EXCEPT !.state = "expired"] \in SessionRow
  BY AdmittedUser DEF Expire, SessionRow
<1> QED
  BY <1>1 DEF Expire, TypeOK, copilotVars

LEMMA NewRunType ==
    ASSUME TypeOK, NewRun
    PROVE  TypeOK'
<1>1. history' \in [Merchant -> Seq(StoredMessage)]
  BY EmptySeq DEF NewRun
<1> QED
  BY <1>1 DEF NewRun, TypeOK, StoredMessage

LEMMA NextType == TypeOK /\ [Next]_vars => TypeOK'
<1> SUFFICES ASSUME TypeOK, [Next]_vars PROVE TypeOK'
  OBVIOUS
<1>1. CASE UNCHANGED vars
  BY <1>1 DEF vars, copilotVars, TypeOK
<1>2. ASSUME NEW b \in Browser, Dashboard(b) PROVE TypeOK'
  BY <1>2, SignInType, SignOutType, ReloadType, OpenType, AskType, TimeOutType DEF Dashboard
<1>3. ASSUME NEW h \in Handler, Serve(h) PROVE TypeOK'
  BY <1>3, AdmitType, StoreQuestionType, StoreAnswerType, ReplyType DEF Serve
<1> QED
  BY <1>1, <1>2, <1>3, ExpireType, CrashType, NewRunType DEF Next

\* The conversations keep the table's roles, and a dashboard that waits is
\* signed in and shows a conversation, in every state of any instance.
THEOREM TypeCorrect == Spec => []TypeOK
<1>1. Init => TypeOK
  BY InitType
<1>2. TypeOK /\ [Next]_vars => TypeOK'
  BY NextType
<1> QED
  BY <1>1, <1>2, PTL DEF Spec
-----------------------------------------------------------------------------
\* A conversation that is shown is never another merchant's.  Questions are
\* numbered, so that a thread and a dashboard agree on the one they mean; a
\* dashboard's token is a session of the merchant it is signed in as; what a
\* thread answers is asked by the dashboard's merchant; and stored messages
\* are in the conversation of their own merchant.

Numbered ==
    /\ \A h \in Handler : call[h] # Idle => call[h].ask <= asks
    /\ \A b \in Browser : waiting[b] <= asks
    /\ \A b, c \in Browser : waiting[b] = waiting[c] /\ waiting[b] # 0 => b = c

SessionIsTheirs ==
    \A b \in Browser : signedIn[b] # SignedOut =>
        /\ session[signedIn[b].token] # NoSession
        /\ session[signedIn[b].token].user = signedIn[b].user

StoredIsTheirs ==
    \A m \in Merchant : \A i \in 1..Len(history[m]) : history[m][i].merchant = m

CallIsTheirs ==
    \A h \in Handler, b \in Browser :
        call[h] # Idle /\ waiting[b] # 0 /\ call[h].ask = waiting[b] =>
            call[h].merchant = signedIn[b].user

Theirs == Numbered /\ SessionIsTheirs /\ StoredIsTheirs /\ CallIsTheirs /\ PanelIsTheirs

\* Numbers stay in order when no question is asked and no thread takes one up.
LEMMA NumberedKept ==
    ASSUME TypeOK, Numbered, UNCHANGED asks,
           \A b \in Browser : waiting'[b] \in {0, waiting[b]},
           \A h \in Handler : call'[h] # Idle =>
               call[h] # Idle /\ call'[h].ask = call[h].ask
    PROVE  Numbered'
<1>1. asks \in Nat /\ waiting \in [Browser -> Nat]
  BY DEF TypeOK
<1>2. \A h \in Handler : call'[h] # Idle => call'[h].ask <= asks'
  BY DEF Numbered
<1>3. \A b \in Browser : waiting'[b] <= asks'
  BY <1>1 DEF Numbered
<1>4. \A b, c \in Browser : waiting'[b] = waiting'[c] /\ waiting'[b] # 0 => b = c
  BY DEF Numbered
<1> QED
  BY <1>2, <1>3, <1>4 DEF Numbered

LEMMA NumberedStep ==
    ASSUME TypeOK, Numbered, [Next]_vars
    PROVE  Numbered'
<1>1. CASE UNCHANGED <<asks, waiting, call>>
  BY <1>1 DEF Numbered
<1>2. ASSUME NEW b \in Browser, Ask(b) PROVE Numbered'
  <2>1. /\ asks' = asks + 1 /\ UNCHANGED call
        /\ waiting' = [waiting EXCEPT ![b] = asks']
    BY <1>2 DEF Ask
  <2>2. asks \in Nat /\ \A h \in Handler : call[h] # Idle => call[h].ask \in Nat
    BY CallShape DEF TypeOK
  <2>3. waiting \in [Browser -> Nat]
    BY DEF TypeOK
  <2>4. \A h \in Handler : call'[h] # Idle => call'[h].ask <= asks'
    BY <2>1, <2>2 DEF Numbered
  <2>5. \A c \in Browser : waiting'[c] = IF c = b THEN asks + 1 ELSE waiting[c]
    BY <2>1, <2>3
  <2>6. \A c \in Browser : waiting[c] <= asks /\ waiting[c] # asks + 1
    BY <2>2, <2>3 DEF Numbered
  <2>7. \A c, d \in Browser : waiting[c] = waiting[d] /\ waiting[c] # 0 => c = d
    BY DEF Numbered
  <2>8. \A c \in Browser : waiting'[c] <= asks'
    BY <2>1, <2>2, <2>3, <2>5, <2>6
  <2>9. \A c, d \in Browser : waiting'[c] = waiting'[d] /\ waiting'[c] # 0 => c = d
    BY <2>5, <2>6, <2>7
  <2> QED
    BY <2>4, <2>8, <2>9 DEF Numbered
<1>3. ASSUME NEW b \in Browser, Reload(b) \/ TimeOut(b) PROVE Numbered'
  <2>1. UNCHANGED <<asks, call>> /\ \A c \in Browser : waiting'[c] \in {0, waiting[c]}
    BY <1>3 DEF Reload, TimeOut, GiveUp, TypeOK
  <2> QED
    BY <2>1, NumberedKept
<1>4. ASSUME NEW h \in Handler, NEW b \in Browser, Admit(h, b) PROVE Numbered'
  <2>1. CASE Admits(signedIn[b].token)
    <3>1. /\ UNCHANGED <<asks, waiting>>
          /\ \A g \in Handler : call'[g] # Idle =>
                 \/ call[g] # Idle /\ call'[g] = call[g]
                 \/ call'[g].ask = waiting[b]
      BY <1>4, <2>1 DEF Admit, TypeOK
    <3> QED
      BY <3>1 DEF Numbered
  <2>2. CASE ~Admits(signedIn[b].token)
    <3>1. UNCHANGED <<asks, call>> /\ \A c \in Browser : waiting'[c] \in {0, waiting[c]}
      BY <1>4, <2>2 DEF Admit, GiveUp, TypeOK
    <3> QED
      BY <3>1, NumberedKept
  <2> QED
    BY <2>1, <2>2
<1>5. ASSUME NEW h \in Handler, StoreQuestion(h) \/ StoreAnswer(h) PROVE Numbered'
  <2>1. UNCHANGED <<asks, waiting>> /\ call[h] # Idle /\ run \in Nat
    BY <1>5 DEF StoreQuestion, StoreAnswer, Idle, TypeOK
  <2>2. /\ call'[h].ask = call[h].ask
        /\ \A g \in Handler \ {h} : call'[g] = call[g]
    BY <1>5, <2>1, GoesOn DEF StoreQuestion, StoreAnswer
  <2> QED
    BY <2>1, <2>2, NumberedKept
<1>6. ASSUME NEW h \in Handler, Reply(h) PROVE Numbered'
  <2>1. UNCHANGED asks /\ \A c \in Browser : waiting'[c] \in {0, waiting[c]}
    BY <1>6 DEF Reply
  <2>2. \A g \in Handler : call'[g] # Idle => call'[g] = call[g]
    BY <1>6 DEF Reply, TypeOK
  <2> QED
    BY <2>1, <2>2, NumberedKept
<1>7. CASE Crash
  <2>1. /\ UNCHANGED asks /\ \A c \in Browser : waiting'[c] \in {0, waiting[c]}
        /\ \A g \in Handler : call'[g] = Idle
    BY <1>7 DEF Crash, TypeOK
  <2> QED
    BY <2>1, NumberedKept
<1> QED
  BY <1>1, <1>2, <1>3, <1>4, <1>5, <1>6, <1>7
     DEF Next, Dashboard, Serve, vars, copilotVars, SignOut, Open, NewRun

UserKept ==
    \A t \in Token : session[t] # NoSession =>
        session'[t] # NoSession /\ session'[t].user = session[t].user

LEMMA SessionStep ==
    ASSUME TypeOK, SessionIsTheirs, [Next]_vars
    PROVE  SessionIsTheirs'
<1> USE DEF SessionIsTheirs
<1>1. CASE UNCHANGED <<session, signedIn>>
  BY <1>1
<1>2. ASSUME NEW b \in Browser, NEW m \in Merchant, NEW t \in Token,
             NEW answered \in BOOLEAN, SignIn(b, m, t, answered)
      PROVE  SessionIsTheirs'
  BY <1>2 DEF SignIn, TypeOK, NoSession, SignedOut
<1>3. ASSUME NEW b \in Browser, NEW reached \in BOOLEAN, DropToken(b, reached)
      PROVE  SessionIsTheirs'
  <2>1. signedIn[b].token \in Token /\ session[signedIn[b].token] \in SessionRow
    BY <1>3, WaitingIsSignedIn, AdmittedUser DEF DropToken, Rendered
  <2>2. session' \in {session, [session EXCEPT ![signedIn[b].token].state = "revoked"]}
    BY <1>3 DEF DropToken, Revoke
  <2>3. UserKept
    <3> DEFINE t == signedIn[b].token
    <3>1. [session[t] EXCEPT !.state = "revoked"].user = session[t].user
      BY <2>1 DEF SessionRow
    <3>2. [session[t] EXCEPT !.state = "revoked"] # NoSession
      BY <2>1 DEF SessionRow, NoSession
    <3> QED
      BY <2>1, <2>2, <3>1, <3>2 DEF UserKept, TypeOK
  <2> QED
    BY <1>3, <2>3 DEF UserKept, DropToken, TypeOK
<1>4. ASSUME NEW b \in Browser, NewDashboardSession(b) PROVE SessionIsTheirs'
  BY <1>4 DEF NewDashboardSession, TypeOK
<1>5. ASSUME NEW t \in Token, Expire(t) PROVE SessionIsTheirs'
  <2>1. UserKept
    BY <1>5, AdmittedUser DEF UserKept, Expire, TypeOK, NoSession, SessionRow
  <2> QED
    BY <1>5, <2>1 DEF UserKept, Expire, TypeOK
<1> QED
  BY <1>1, <1>2, <1>3, <1>4, <1>5
     DEF Next, Dashboard, Serve, vars, SignOut, Reload, Open, Ask, TimeOut, Admit,
         StoreQuestion, StoreAnswer, Reply, Crash, NewRun
\* A stored message goes into the conversation of the merchant it is about.
LEMMA Remembering ==
    ASSUME TypeOK, NEW h \in Handler, call[h] # Idle, call'[h].run \in Nat,
           NEW role \in {"user", "assistant"}, Remember(h, role)
    PROVE  LET m == call[h].merchant
               n == Len(history[m])
           IN  /\ m \in Merchant /\ n \in Nat
               /\ \A o \in Merchant \ {m} : history'[o] = history[o]
               /\ Len(history'[m]) = n + 1
               /\ \A i \in 1..n : history'[m][i] = history[m][i]
               /\ history'[m][n + 1] = Message(role, call[h].ask, m, call'[h].run)
<1> DEFINE message == Message(role, call[h].ask, call[h].merchant, call'[h].run)
<1>1. message \in StoredMessage
  BY CallShape, MessageType DEF StoredMessage
<1>2. history \in [Merchant -> Seq(StoredMessage)] /\ call[h].merchant \in Merchant
  BY CallShape DEF TypeOK, StoredMessage
<1>3. history' = Add(history, call[h].merchant, message)
  BY DEF Remember
<1> HIDE DEF message
<1>4. Len(history[call[h].merchant]) \in Nat
  BY <1>2, LenProperties
<1> QED
  BY <1>1, <1>2, <1>3, <1>4, Adding DEF message

LEMMA StoredStep ==
    ASSUME TypeOK, StoredIsTheirs, [Next]_vars
    PROVE  StoredIsTheirs'
<1> USE DEF StoredIsTheirs
<1>1. CASE UNCHANGED history
  BY <1>1
<1>2. CASE NewRun
  BY <1>2 DEF NewRun
<1>3. ASSUME NEW h \in Handler, NEW role \in {"user", "assistant"}, call[h] # Idle,
             call'[h].run \in Nat, Remember(h, role)
      PROVE  StoredIsTheirs'
  <2> DEFINE m == call[h].merchant
             n == Len(history[m])
  <2>1. /\ m \in Merchant /\ n \in Nat
        /\ \A o \in Merchant \ {m} : history'[o] = history[o]
        /\ Len(history'[m]) = n + 1
        /\ \A i \in 1..n : history'[m][i] = history[m][i]
        /\ history'[m][n + 1] = Message(role, call[h].ask, m, call'[h].run)
    BY <1>3, Remembering
  <2>2. Message(role, call[h].ask, m, call'[h].run).merchant = m
    BY DEF Message
  <2> HIDE DEF m, n
  <2>3. \A i \in 1..n + 1 : history'[m][i].merchant = m
    BY <2>1, <2>2 DEF n
  <2> QED
    BY <2>1, <2>3
<1>4. ASSUME NEW h \in Handler, StoreQuestion(h) \/ StoreAnswer(h) PROVE StoredIsTheirs'
  <2>1. call[h] # Idle /\ run \in Nat
    BY <1>4 DEF StoreQuestion, StoreAnswer, Idle, TypeOK
  <2>2. call'[h].run \in Nat
    BY <1>4, <2>1, GoesOn DEF StoreQuestion, StoreAnswer
  <2> QED
    BY <1>1, <1>3, <1>4, <2>1, <2>2 DEF StoreQuestion, StoreAnswer
<1> QED
  BY <1>1, <1>2, <1>4
     DEF Next, Dashboard, Serve, vars, copilotVars, SignOut, Reload, Open, Ask, TimeOut,
         Admit, Reply, Crash

LEMMA CallKept ==
    ASSUME CallIsTheirs,
           \A b \in Browser : waiting'[b] # 0 =>
               waiting'[b] = waiting[b] /\ signedIn'[b] = signedIn[b],
           \A h \in Handler : call'[h] # Idle =>
               /\ call[h] # Idle
               /\ call'[h].ask = call[h].ask /\ call'[h].merchant = call[h].merchant
    PROVE  CallIsTheirs'
BY DEF CallIsTheirs

LEMMA CallStep ==
    ASSUME TypeOK, Numbered, SessionIsTheirs, CallIsTheirs, [Next]_vars
    PROVE  CallIsTheirs'
<1>1. CASE UNCHANGED <<signedIn, waiting, call>>
  BY <1>1 DEF CallIsTheirs
<1>2. ASSUME NEW b \in Browser, NEW m \in Merchant, NEW t \in Token,
             NEW answered \in BOOLEAN, SignIn(b, m, t, answered), UNCHANGED copilotVars
      PROVE  CallIsTheirs'
  <2>1. \A c \in Browser : waiting'[c] # 0 => c # b
    BY <1>2 DEF SignIn, TypeOK, copilotVars
  <2> QED
    BY <1>2, <2>1, CallKept DEF SignIn, TypeOK, copilotVars
<1>3. ASSUME NEW b \in Browser, SignOut(b) \/ Reload(b) \/ TimeOut(b) PROVE CallIsTheirs'
  <2>1. UNCHANGED call
    BY <1>3 DEF SignOut, Reload, TimeOut
  <2>2. \A c \in Browser : waiting'[c] # 0 =>
            waiting'[c] = waiting[c] /\ signedIn'[c] = signedIn[c]
    BY <1>3 DEF SignOut, DropToken, Reload, NewDashboardSession, TimeOut, GiveUp, TypeOK
  <2> QED
    BY <2>1, <2>2, CallKept
<1>4. ASSUME NEW b \in Browser, Ask(b) PROVE CallIsTheirs'
  <2>1. UNCHANGED <<signedIn, call>> /\ waiting' = [waiting EXCEPT ![b] = asks + 1]
    BY <1>4 DEF Ask
  <2>2. asks \in Nat /\ \A h \in Handler : call[h] # Idle => call[h].ask \in Nat
    BY CallShape DEF TypeOK
  <2>3. \A h \in Handler : call[h] # Idle => call[h].ask # asks + 1
    BY <2>2 DEF Numbered
  <2> QED
    BY <2>1, <2>3 DEF CallIsTheirs, TypeOK
<1>5. ASSUME NEW h \in Handler, NEW b \in Browser, Admit(h, b) PROVE CallIsTheirs'
  <2>1. CASE Admits(signedIn[b].token)
    <3>1. /\ UNCHANGED <<signedIn, waiting>> /\ waiting[b] # 0
          /\ call'[h].ask = waiting[b]
          /\ call'[h].merchant = session[signedIn[b].token].user
          /\ \A g \in Handler \ {h} : call'[g] = call[g]
      BY <1>5, <2>1 DEF Admit, TypeOK
    <3>2. session[signedIn[b].token].user = signedIn[b].user
      BY <3>1 DEF SessionIsTheirs, TypeOK
    <3> QED
      BY <3>1, <3>2 DEF CallIsTheirs, Numbered
  <2>2. CASE ~Admits(signedIn[b].token)
    BY <1>5, <2>2, CallKept DEF Admit, GiveUp, TypeOK
  <2> QED
    BY <2>1, <2>2
<1>6. ASSUME NEW h \in Handler, StoreQuestion(h) \/ StoreAnswer(h) PROVE CallIsTheirs'
  <2>1. UNCHANGED <<signedIn, waiting>> /\ call[h] # Idle /\ run \in Nat
    BY <1>6 DEF StoreQuestion, StoreAnswer, Idle, TypeOK
  <2>2. /\ call'[h].ask = call[h].ask /\ call'[h].merchant = call[h].merchant
        /\ \A g \in Handler \ {h} : call'[g] = call[g]
    BY <1>6, <2>1, GoesOn DEF StoreQuestion, StoreAnswer
  <2> QED
    BY <2>1, <2>2, CallKept
<1>7. ASSUME NEW h \in Handler, Reply(h) PROVE CallIsTheirs'
  <2>1. UNCHANGED signedIn /\ \A c \in Browser : waiting'[c] \in {0, waiting[c]}
    BY <1>7 DEF Reply
  <2>2. \A g \in Handler : call'[g] # Idle => call'[g] = call[g]
    BY <1>7 DEF Reply, TypeOK
  <2> QED
    BY <2>1, <2>2, CallKept
<1>8. CASE Crash
  BY <1>8 DEF Crash, CallIsTheirs
<1> QED
  BY <1>1, <1>2, <1>3, <1>4, <1>5, <1>6, <1>7, <1>8
     DEF Next, Dashboard, Serve, vars, copilotVars, Open, NewRun, Expire
\* A panel is as it was, emptied, or gets one more message of its merchant.
Says(b, x) ==
    /\ x.merchant = signedIn[b].user /\ signedIn[b] # SignedOut
    /\ panel'[b] = Append(panel[b], x)
    /\ UNCHANGED signedIn[b]

LEMMA PanelKept ==
    ASSUME TypeOK, PanelIsTheirs,
           \A b \in Browser :
               \/ panel'[b] = <<>>
               \/ panel'[b] = panel[b] /\ signedIn[b] \in {SignedOut, signedIn'[b]}
               \/ \E x \in PanelMessage : Says(b, x)
    PROVE  PanelIsTheirs'
<1> SUFFICES ASSUME NEW b \in Browser, NEW i \in 1..Len(panel'[b])
             PROVE  signedIn'[b] # SignedOut /\ panel'[b][i].merchant = signedIn'[b].user
  BY DEF PanelIsTheirs
<1>1. panel[b] \in Seq(PanelMessage) /\ Len(panel[b]) \in Nat
  BY LenProperties DEF TypeOK, PanelMessage
<1>2. CASE panel'[b] = <<>>
  BY <1>2, EmptySeq
<1>3. CASE panel'[b] = panel[b] /\ signedIn[b] \in {SignedOut, signedIn'[b]}
  BY <1>3 DEF PanelIsTheirs
<1>4. ASSUME NEW x \in PanelMessage, Says(b, x)
      PROVE  signedIn'[b] # SignedOut /\ panel'[b][i].merchant = signedIn'[b].user
  <2>1. CASE i \in 1..Len(panel[b])
    <3>1. panel'[b][i] = panel[b][i]
      BY <1>1, <1>4, <2>1, AppendProperties DEF Says
    <3> QED
      BY <1>4, <2>1, <3>1 DEF Says, PanelIsTheirs
  <2>2. CASE i = Len(panel[b]) + 1
    <3>1. panel'[b][i] = x
      BY <1>1, <1>4, <2>2, AppendProperties DEF Says
    <3> QED
      BY <1>4, <3>1 DEF Says
  <2> QED
    BY <1>1, <1>4, <2>1, <2>2, AppendProperties DEF Says
<1> QED
  BY <1>2, <1>3, <1>4

LEMMA ApologyIsSaid ==
    ASSUME TypeOK, NEW b \in Browser, waiting[b] # 0
    PROVE  /\ Apology(b) \in PanelMessage
           /\ Apology(b).merchant = signedIn[b].user /\ signedIn[b] # SignedOut
<1>1. signedIn[b] \in [user : Merchant, token : Token] /\ signedIn[b] # SignedOut
  BY WaitingIsSignedIn DEF TypeOK
<1>2. waiting[b] \in Nat /\ 0 \in Nat
  BY DEF TypeOK
<1>3. Apology(b) \in PanelMessage
  BY <1>1, <1>2, MessageType DEF Apology, PanelMessage
<1> QED
  BY <1>1, <1>3 DEF Apology, Message

LEMMA GiveUpKept ==
    ASSUME TypeOK, PanelIsTheirs, NEW b \in Browser, waiting[b] # 0, GiveUp(b),
           UNCHANGED signedIn
    PROVE  PanelIsTheirs'
<1>1. panel' = Add(panel, b, Apology(b))
  BY DEF GiveUp
<1>2. Says(b, Apology(b)) /\ Apology(b) \in PanelMessage
  BY <1>1, ApologyIsSaid DEF Says, Add, TypeOK
<1>3. \A c \in Browser \ {b} : panel'[c] = panel[c]
  BY <1>1 DEF Add, TypeOK
<1> QED
  BY <1>2, <1>3, PanelKept

\* What the panel is filled with is the brief, or the server's copy, of the
\* merchant the token belongs to.
LEMMA OpenKept ==
    ASSUME TypeOK, SessionIsTheirs, StoredIsTheirs, PanelIsTheirs,
           NEW b \in Browser, Open(b)
    PROVE  PanelIsTheirs'
<1> DEFINE m == session[signedIn[b].token].user
           shown == IF history[m] = <<>> THEN <<Brief(m)>> ELSE Latest(history[m])
<1>1. m \in Merchant /\ signedIn[b] # SignedOut
  BY WaitingIsSignedIn, AdmittedUser DEF Open, Rendered
<1>2. m = signedIn[b].user
  BY <1>1 DEF SessionIsTheirs
<1>3. ASSUME NEW i \in 1..Len(shown) PROVE shown[i].merchant = m
  <2>1. CASE history[m] = <<>>
    BY <2>1 DEF Brief, Message
  <2>2. CASE history[m] # <<>>
    <3>1. history[m] \in Seq(StoredMessage)
      BY <1>1 DEF TypeOK, StoredMessage
    <3>2. PICK j \in 1..Len(history[m]) : shown[i] = history[m][j]
      BY <2>2, <3>1, LatestMessages
    <3> QED
      BY <1>1, <3>2 DEF StoredIsTheirs
  <2> QED
    BY <2>1, <2>2
<1>4. panel' = [panel EXCEPT ![b] = shown] /\ UNCHANGED signedIn
  BY DEF Open
<1> HIDE DEF m, shown
<1>5. \A c \in Browser : panel'[c] = IF c = b THEN shown ELSE panel[c]
  BY <1>4 DEF TypeOK
<1> QED
  BY <1>1, <1>2, <1>3, <1>4, <1>5 DEF PanelIsTheirs

LEMMA AskKept ==
    ASSUME TypeOK, PanelIsTheirs, NEW b \in Browser, Ask(b)
    PROVE  PanelIsTheirs'
<1> DEFINE question == Message("user", asks + 1, signedIn[b].user, 0)
<1>1. question \in PanelMessage /\ question.merchant = signedIn[b].user
  <2>1. asks + 1 \in Nat /\ signedIn[b].user \in Merchant
    BY WaitingIsSignedIn DEF Ask, TypeOK
  <2> QED
    BY <2>1, MessageType DEF PanelMessage, Message
<1>2. panel' = Add(panel, b, question) /\ UNCHANGED signedIn /\ signedIn[b] # SignedOut
  BY DEF Ask, Rendered
<1> HIDE DEF question
<1>3. Says(b, question) /\ \A c \in Browser \ {b} : panel'[c] = panel[c]
  BY <1>1, <1>2 DEF Says, Add, TypeOK
<1> QED
  BY <1>1, <1>2, <1>3, PanelKept

LEMMA ReplyKept ==
    ASSUME TypeOK, CallIsTheirs, PanelIsTheirs, NEW h \in Handler, Reply(h)
    PROVE  PanelIsTheirs'
<1> DEFINE role == IF call[h].op = "saved" THEN "assistant" ELSE "unsaved"
           message == Message(role, call[h].ask, call[h].merchant, call[h].run)
<1>1. call[h] # Idle
  BY DEF Reply, Idle
<1>2. message \in PanelMessage /\ message.merchant = call[h].merchant
  <2>1. role \in {"user", "assistant", "unsaved", "error", "brief"}
    OBVIOUS
  <2> QED
    BY <1>1, <2>1, CallShape, MessageType DEF PanelMessage, Message
<1>3. \A b \in Browser : panel'[b] = IF waiting[b] = call[h].ask
                                      THEN Append(panel[b], message) ELSE panel[b]
  BY DEF Reply
<1>4. UNCHANGED signedIn
  BY DEF Reply
<1> HIDE DEF message
<1>5. ASSUME NEW b \in Browser, waiting[b] = call[h].ask PROVE Says(b, message)
  <2>1. waiting[b] # 0
    BY <1>1, <1>5, CallShape
  <2>2. signedIn[b] # SignedOut /\ call[h].merchant = signedIn[b].user
    BY <1>1, <1>5, <2>1 DEF TypeOK, CallIsTheirs
  <2> QED
    BY <1>2, <1>3, <1>4, <1>5, <2>2 DEF Says
<1> QED
  BY <1>2, <1>3, <1>4, <1>5, PanelKept

LEMMA CrashKept ==
    ASSUME TypeOK, PanelIsTheirs, Crash
    PROVE  PanelIsTheirs'
<1>1. UNCHANGED signedIn
  BY DEF Crash
<1>2. \A b \in Browser : panel'[b] = IF waiting[b] # 0 /\ Served(b)
                                      THEN Append(panel[b], Apology(b)) ELSE panel[b]
  BY DEF Crash
<1>3. \A b \in Browser : waiting[b] # 0 /\ Served(b) =>
          Says(b, Apology(b)) /\ Apology(b) \in PanelMessage
  BY <1>1, <1>2, ApologyIsSaid DEF Says
<1> QED
  BY <1>1, <1>2, <1>3, PanelKept

LEMMA PanelStep ==
    ASSUME TypeOK, SessionIsTheirs, StoredIsTheirs, CallIsTheirs, PanelIsTheirs, [Next]_vars
    PROVE  PanelIsTheirs'
<1>1. CASE UNCHANGED <<signedIn, panel>>
  BY <1>1 DEF PanelIsTheirs
<1>2. ASSUME NEW b \in Browser, NEW m \in Merchant, NEW t \in Token,
             NEW answered \in BOOLEAN, SignIn(b, m, t, answered), UNCHANGED copilotVars
      PROVE  PanelIsTheirs'
  BY <1>2, PanelKept DEF SignIn, TypeOK, copilotVars
<1>3. ASSUME NEW b \in Browser, SignOut(b) \/ Reload(b) PROVE PanelIsTheirs'
  <2>1. /\ panel' = [panel EXCEPT ![b] = <<>>]
        /\ \A c \in Browser \ {b} : signedIn'[c] = signedIn[c]
    BY <1>3 DEF SignOut, DropToken, Reload, NewDashboardSession, TypeOK
  <2> QED
    BY <2>1, PanelKept DEF TypeOK
<1>4. ASSUME NEW b \in Browser, TimeOut(b) PROVE PanelIsTheirs'
  BY <1>4, GiveUpKept DEF TimeOut
<1>5. ASSUME NEW h \in Handler, NEW b \in Browser, Admit(h, b) PROVE PanelIsTheirs'
  BY <1>1, <1>5, GiveUpKept DEF Admit
<1> QED
  BY <1>1, <1>2, <1>3, <1>4, <1>5, OpenKept, AskKept, ReplyKept, CrashKept
     DEF Next, Dashboard, Serve, vars, copilotVars, StoreQuestion, StoreAnswer, NewRun, Expire

\* Whatever the account before asked, and however late it is answered, a
\* dashboard shows nothing but messages of the merchant signed in on it.
THEOREM PanelIsAlwaysTheirs == Spec => []PanelIsTheirs
<1>1. Init => TypeOK /\ Theirs
  <2>1. Init => Theirs
    BY EmptySeq DEF Init, AccountsInit, Theirs, Numbered, SessionIsTheirs, StoredIsTheirs,
                    CallIsTheirs, PanelIsTheirs
  <2> QED
    BY <2>1, InitType
<1>2. TypeOK /\ Theirs /\ [Next]_vars => (TypeOK /\ Theirs)'
  BY NextType, NumberedStep, SessionStep, StoredStep, CallStep, PanelStep DEF Theirs
<1>3. Theirs => PanelIsTheirs
  BY DEF Theirs
<1> QED
  BY <1>1, <1>2, <1>3, PTL DEF Spec
-----------------------------------------------------------------------------
\* An answer that is shown is remembered.  The two messages of an answer are
\* stored one after the other, and only then is it shown; a run stamp that is
\* the current one says that no new run has wiped them since.

Asked(m, ask, n) ==
    \E j \in 1..n : history[m][j].ask = ask /\ history[m][j].role = "user"

Answered(m, ask) ==
    \E k \in 1..Len(history[m]) :
        history[m][k].ask = ask /\ history[m][k].role = "assistant" /\ Asked(m, ask, k - 1)

StoredInOrder ==
    \A m \in Merchant : \A i \in 1..Len(history[m]) :
        LET stored == history[m][i]
        IN  /\ stored.run <= run
            /\ stored.role = "assistant" /\ stored.run = run => Asked(m, stored.ask, i - 1)

CallBacked(c) ==
    /\ c.run <= run
    /\ c.op = "store" /\ c.run = run => Asked(c.merchant, c.ask, Len(history[c.merchant]))
    /\ c.op = "saved" /\ c.run = run => Answered(c.merchant, c.ask)

Backed(x) ==
    /\ x.run <= run
    /\ x.role = "assistant" /\ x.run = run => Answered(x.merchant, x.ask)

CallsBacked == \A h \in Handler : call[h] # Idle => CallBacked(call[h])

PanelBacked == \A b \in Browser : \A i \in 1..Len(panel[b]) : Backed(panel[b][i])

Backing == StoredInOrder /\ CallsBacked /\ PanelBacked

LEMMA BackingShows ==
    ASSUME TypeOK, PanelBacked
    PROVE  ShownIsRemembered
<1> SUFFICES ASSUME NEW b \in Browser, NEW i \in 1..Len(panel[b]),
                    panel[b][i].role = "assistant", panel[b][i].run = run
             PROVE  LET stored == history[panel[b][i].merchant]
                    IN  \E j, k \in 1..Len(stored) :
                            /\ j < k
                            /\ stored[j].ask = panel[b][i].ask /\ stored[j].role = "user"
                            /\ stored[k].ask = panel[b][i].ask /\ stored[k].role = "assistant"
  BY DEF ShownIsRemembered
<1> DEFINE m == panel[b][i].merchant
           ask == panel[b][i].ask
<1>1. m \in Merchant
  <2>1. panel[b] \in Seq(PanelMessage)
    BY DEF TypeOK, PanelMessage
  <2>2. panel[b][i] \in PanelMessage
    BY <2>1, ElementOfSeq
  <2> QED
    BY <2>2 DEF PanelMessage, Messages
<1>2. Len(history[m]) \in Nat
  BY <1>1, LenProperties DEF TypeOK
<1>3. PICK k \in 1..Len(history[m]) :
          history[m][k].ask = ask /\ history[m][k].role = "assistant" /\ Asked(m, ask, k - 1)
  BY DEF PanelBacked, Backed, Answered
<1>4. PICK j \in 1..(k - 1) : history[m][j].ask = ask /\ history[m][j].role = "user"
  BY <1>3 DEF Asked
<1>5. j \in 1..Len(history[m]) /\ j < k
  BY <1>2, <1>3, <1>4
<1> QED
  BY <1>3, <1>4, <1>5

\* What a conversation has it keeps, until a new run.
Grows ==
    /\ UNCHANGED run
    /\ \A m \in Merchant :
          /\ Len(history[m]) <= Len(history'[m])
          /\ \A i \in 1..Len(history[m]) : history'[m][i] = history[m][i]

LEMMA AskedKept ==
    ASSUME TypeOK, TypeOK', Grows, NEW m \in Merchant, NEW ask, NEW n \in Int,
           n <= Len(history[m]), Asked(m, ask, n), NEW o \in Int, n <= o
    PROVE  Asked(m, ask, o)'
<1>1. PICK j \in 1..n : history[m][j].ask = ask /\ history[m][j].role = "user"
  BY DEF Asked
<1>2. Len(history[m]) \in Nat
  BY LenProperties DEF TypeOK
<1>3. j \in 1..Len(history[m]) /\ j \in 1..o
  BY <1>2
<1> QED
  BY <1>1, <1>3 DEF Asked, Grows

LEMMA AnsweredKept ==
    ASSUME TypeOK, TypeOK', Grows, NEW m \in Merchant, NEW ask, Answered(m, ask)
    PROVE  Answered(m, ask)'
<1>1. PICK k \in 1..Len(history[m]) :
          history[m][k].ask = ask /\ history[m][k].role = "assistant" /\ Asked(m, ask, k - 1)
  BY DEF Answered
<1>2. Len(history[m]) \in Nat /\ Len(history'[m]) \in Nat
  BY LenProperties DEF TypeOK
<1>3. Asked(m, ask, k - 1)'
  BY <1>1, <1>2, AskedKept
<1> QED
  BY <1>1, <1>2, <1>3 DEF Answered, Grows

LEMMA BackedKept ==
    ASSUME TypeOK, TypeOK', Grows \/ NewRun, NEW roles, NEW x \in Messages(roles), Backed(x)
    PROVE  Backed(x)'
<1>1. x.run \in Nat /\ x.merchant \in Merchant /\ run \in Nat
  BY DEF Messages, TypeOK
<1>2. CASE Grows
  BY <1>1, <1>2, AnsweredKept DEF Backed, Grows
<1>3. CASE NewRun
  BY <1>1, <1>3 DEF Backed, NewRun
<1> QED
  BY <1>2, <1>3

LEMMA CallBackedKept ==
    ASSUME TypeOK, TypeOK', Grows \/ NewRun, NEW c, c.run \in Nat, c.merchant \in Merchant,
           CallBacked(c)
    PROVE  CallBacked(c)'
<1>1. run \in Nat
  BY DEF TypeOK
<1>2. CASE Grows
  <2>1. /\ Len(history[c.merchant]) \in Nat /\ Len(history'[c.merchant]) \in Nat
        /\ Len(history[c.merchant]) <= Len(history'[c.merchant])
    BY <1>2, LenProperties DEF TypeOK, Grows
  <2> QED
    BY <1>2, <2>1, AskedKept, AnsweredKept DEF CallBacked, Grows
<1>3. CASE NewRun
  BY <1>1, <1>3 DEF CallBacked, NewRun
<1> QED
  BY <1>2, <1>3

\* Every step but a new run only adds to the conversations.
LEMMA GrowsStep ==
    ASSUME TypeOK, [Next]_vars
    PROVE  Grows \/ NewRun
<1>1. CASE UNCHANGED <<run, history>>
  <2>1. \A m \in Merchant : Len(history[m]) \in Nat
    BY LenProperties DEF TypeOK
  <2> QED
    BY <1>1, <2>1 DEF Grows
<1>2. ASSUME NEW h \in Handler, StoreQuestion(h) \/ StoreAnswer(h) PROVE Grows \/ NewRun
  <2>1. call[h] # Idle /\ run \in Nat /\ UNCHANGED run
    BY <1>2 DEF StoreQuestion, StoreAnswer, Idle, TypeOK
  <2>2. call'[h].run \in Nat
    BY <1>2, <2>1, GoesOn DEF StoreQuestion, StoreAnswer
  <2>3. ASSUME NEW role \in {"user", "assistant"}, Remember(h, role) PROVE Grows
    <3> DEFINE m == call[h].merchant
               n == Len(history[m])
    <3>1. /\ m \in Merchant /\ n \in Nat
          /\ \A o \in Merchant \ {m} : history'[o] = history[o]
          /\ Len(history'[m]) = n + 1
          /\ \A i \in 1..n : history'[m][i] = history[m][i]
      BY <2>1, <2>2, <2>3, Remembering
    <3>2. \A o \in Merchant : Len(history[o]) \in Nat
      BY LenProperties DEF TypeOK
    <3> HIDE DEF m
    <3> QED
      BY <2>1, <3>1, <3>2 DEF Grows
  <2> QED
    BY <1>1, <1>2, <2>1, <2>3 DEF StoreQuestion, StoreAnswer
<1> QED
  BY <1>1, <1>2
     DEF Next, Dashboard, Serve, vars, copilotVars, SignOut, Reload, Open, Ask, TimeOut,
         Admit, Reply, Crash, Expire

\* A question, or the answer to a stored question, keeps a conversation in order.
LEMMA StoringInOrder ==
    ASSUME TypeOK, TypeOK', StoredInOrder, UNCHANGED run, NEW h \in Handler, call[h] # Idle,
           NEW role \in {"user", "assistant"}, Remember(h, role),
           call'[h].run \in Nat, call'[h].run <= run,
           role = "assistant" /\ call'[h].run = run =>
               Asked(call[h].merchant, call[h].ask, Len(history[call[h].merchant]))
    PROVE  StoredInOrder'
<1> DEFINE m == call[h].merchant
           n == Len(history[m])
           new == Message(role, call[h].ask, m, call'[h].run)
<1>1. /\ m \in Merchant /\ n \in Nat
      /\ \A o \in Merchant \ {m} : history'[o] = history[o]
      /\ Len(history'[m]) = n + 1
      /\ \A i \in 1..n : history'[m][i] = history[m][i]
      /\ history'[m][n + 1] = new
  BY Remembering
<1>2. new.role = role /\ new.ask = call[h].ask /\ new.run = call'[h].run
  BY DEF Message
<1>3. new.role = "assistant" /\ new.run = run => Asked(m, new.ask, n)
  BY <1>2
<1>4. new.run <= run
  BY <1>2
<1> HIDE DEF m, new
<1>5. \A o \in Merchant : Len(history[o]) \in Nat
  BY LenProperties DEF TypeOK
<1>6. SUFFICES ASSUME NEW o \in Merchant, NEW i \in 1..Len(history'[o])
               PROVE  LET stored == history'[o][i]
                      IN  /\ stored.run <= run'
                          /\ stored.role = "assistant" /\ stored.run = run' =>
                                 \E j \in 1..(i - 1) : /\ history'[o][j].ask = stored.ask
                                                      /\ history'[o][j].role = "user"
  BY DEF StoredInOrder, Asked
<1>7. CASE i \in 1..Len(history[o])
  <2>1. \A j \in 1..i : history'[o][j] = history[o][j]
    BY <1>1, <1>5, <1>7 DEF n
  <2>2. history[o][i].run <= run
    BY <1>7 DEF StoredInOrder
  <2>3. ASSUME history[o][i].role = "assistant", history[o][i].run = run
        PROVE  \E j \in 1..(i - 1) : /\ history[o][j].ask = history[o][i].ask
                                     /\ history[o][j].role = "user"
    BY <1>7, <2>3 DEF StoredInOrder, Asked
  <2>4. \A j \in 1..(i - 1) : j \in 1..i
    OBVIOUS
  <2>5. i \in 1..i
    BY <1>5, <1>7
  <2> QED
    BY <2>1, <2>2, <2>3, <2>4, <2>5
<1>8. CASE o = m /\ i = n + 1
  <2>1. history'[o][i] = new /\ i - 1 = n /\ \A j \in 1..n : history'[o][j] = history[o][j]
    BY <1>1, <1>8
  <2> QED
    BY <1>3, <1>4, <1>8, <2>1 DEF Asked
<1>9. i \in 1..Len(history[o]) \/ (o = m /\ i = n + 1)
  BY <1>1 DEF n
<1> QED
  BY <1>7, <1>8, <1>9

LEMMA StoredInOrderStep ==
    ASSUME TypeOK, TypeOK', StoredInOrder, CallsBacked, [Next]_vars
    PROVE  StoredInOrder'
<1>1. CASE UNCHANGED <<run, history>>
  BY <1>1 DEF StoredInOrder, Asked
<1>2. CASE NewRun
  BY <1>2 DEF NewRun, StoredInOrder
<1>3. ASSUME NEW h \in Handler, StoreQuestion(h) PROVE StoredInOrder'
  <2>1. call[h] # Idle /\ run \in Nat /\ UNCHANGED run
    BY <1>3 DEF StoreQuestion, Idle, TypeOK
  <2>2. call'[h].run \in Nat /\ call'[h].run \in {run, call[h].run}
    BY <1>3, <2>1, GoesOn DEF StoreQuestion
  <2>3. call'[h].run <= run
    BY <2>1, <2>2 DEF CallsBacked, CallBacked
  <2> QED
    BY <1>1, <1>3, <2>1, <2>2, <2>3, StoringInOrder DEF StoreQuestion
<1>4. ASSUME NEW h \in Handler, StoreAnswer(h) PROVE StoredInOrder'
  <2>1. call[h] # Idle /\ call[h].op = "store" /\ UNCHANGED run
    BY <1>4 DEF StoreAnswer, Idle
  <2>2. call[h].run \in Nat
    BY <2>1, CallShape
  <2>3. call'[h].run = call[h].run
    BY <1>4, <2>1, <2>2, GoesOn DEF StoreAnswer
  <2>4. CallBacked(call[h])
    BY <2>1 DEF CallsBacked
  <2> QED
    BY <1>1, <1>4, <2>1, <2>2, <2>3, <2>4, StoringInOrder DEF StoreAnswer, CallBacked
<1> QED
  BY <1>1, <1>2, <1>3, <1>4
     DEF Next, Dashboard, Serve, vars, copilotVars, SignOut, Reload, Open, Ask, TimeOut,
         Admit, Reply, Crash, Expire

\* What a thread has stored so far, step by step.
LEMMA CallsBackedStep ==
    ASSUME TypeOK, TypeOK', CallsBacked, [Next]_vars
    PROVE  CallsBacked'
<1>1. Grows \/ NewRun
  BY GrowsStep
<1>2. ASSUME NEW g \in Handler, call[g] # Idle PROVE CallBacked(call[g]) /\
          \A c : c = call[g] => CallBacked(c)'
  <2>1. CallBacked(call[g]) /\ call[g].run \in Nat /\ call[g].merchant \in Merchant
    BY <1>2, CallShape DEF CallsBacked
  <2> QED
    BY <1>1, <2>1, CallBackedKept
<1>3. CASE \A g \in Handler : call'[g] # Idle => call'[g] = call[g]
  BY <1>2, <1>3 DEF CallsBacked
<1>4. ASSUME NEW h \in Handler, NEW b \in Browser, Admit(h, b) PROVE CallsBacked'
  <2>1. CASE Admits(signedIn[b].token)
    <3>1. /\ call'[h].op = "answer" /\ call'[h].run = 0 /\ run \in Nat /\ UNCHANGED run
          /\ \A g \in Handler \ {h} : call'[g] = call[g]
      BY <1>4, <2>1 DEF Admit, TypeOK
    <3> QED
      BY <1>2, <3>1 DEF CallsBacked, CallBacked
  <2>2. CASE ~Admits(signedIn[b].token)
    BY <1>3, <1>4, <2>2 DEF Admit
  <2> QED
    BY <2>1, <2>2
<1>5. ASSUME NEW h \in Handler, StoreQuestion(h) PROVE CallsBacked'
  <2> DEFINE m == call[h].merchant
             n == Len(history[m])
  <2>1. call[h] # Idle /\ run \in Nat /\ UNCHANGED run
    BY <1>5 DEF StoreQuestion, Idle, TypeOK
  <2>2. PICK op \in {"store", "unsaved"} :
            /\ call' = [call EXCEPT ![h].op = op, ![h].run = run] \/ Step(h, op)
            /\ op = "store" => Remember(h, "user")
    BY <1>5 DEF StoreQuestion
  <2>3. /\ call'[h].op = op /\ call'[h].run \in Nat /\ call'[h].run \in {run, call[h].run}
        /\ call'[h].ask = call[h].ask /\ call'[h].merchant = m
        /\ \A g \in Handler \ {h} : call'[g] = call[g]
    BY <2>1, <2>2, GoesOn
  <2>4. call'[h].run <= run'
    BY <1>2, <2>1, <2>3 DEF CallBacked
  <2>5. ASSUME op = "store" PROVE Asked(call[h].merchant, call[h].ask, Len(history[call[h].merchant]))'
    <3>1. /\ m \in Merchant /\ n \in Nat /\ Len(history'[m]) = n + 1
          /\ history'[m][n + 1] = Message("user", call[h].ask, m, call'[h].run)
      BY <2>1, <2>2, <2>3, <2>5, Remembering
    <3>2. /\ history'[m][n + 1].ask = call[h].ask /\ history'[m][n + 1].role = "user"
          /\ n + 1 \in 1..Len(history'[m])
      BY <3>1 DEF Message
    <3> QED
      BY <2>3, <3>2 DEF Asked
  <2>6. CallBacked(call[h])'
    BY <2>2, <2>3, <2>4, <2>5 DEF CallBacked
  <2> QED
    BY <1>2, <2>3, <2>6 DEF CallsBacked
<1>6. ASSUME NEW h \in Handler, StoreAnswer(h) PROVE CallsBacked'
  <2> DEFINE m == call[h].merchant
             n == Len(history[m])
  <2>1. /\ call[h] # Idle /\ call[h].op = "store" /\ UNCHANGED run
        /\ call[h].run \in Nat
    BY <1>6, CallShape DEF StoreAnswer, Idle
  <2>2. PICK op \in {"saved", "unsaved"} :
            Step(h, op) /\ (op = "saved" => Remember(h, "assistant"))
    BY <1>6 DEF StoreAnswer
  <2>3. /\ call'[h].op = op /\ call'[h].run = call[h].run
        /\ call'[h].ask = call[h].ask /\ call'[h].merchant = m
        /\ \A g \in Handler \ {h} : call'[g] = call[g]
    BY <2>1, <2>2, GoesOn
  <2>4. call'[h].run <= run'
    BY <1>2, <2>1, <2>3 DEF CallBacked
  <2>5. ASSUME op = "saved", call'[h].run = run' PROVE Answered(call[h].merchant, call[h].ask)'
    <3>1. /\ m \in Merchant /\ n \in Nat /\ Len(history'[m]) = n + 1
          /\ \A i \in 1..n : history'[m][i] = history[m][i]
          /\ history'[m][n + 1] = Message("assistant", call[h].ask, m, call'[h].run)
      BY <2>1, <2>2, <2>3, <2>5, Remembering
    <3>2. Asked(m, call[h].ask, n)
      BY <1>2, <2>1, <2>3, <2>5 DEF CallBacked
    <3>3. /\ history'[m][n + 1].ask = call[h].ask /\ history'[m][n + 1].role = "assistant"
          /\ n + 1 \in 1..Len(history'[m]) /\ (n + 1) - 1 = n
      BY <3>1 DEF Message
    <3>4. \E j \in 1..n : history'[m][j].ask = call[h].ask /\ history'[m][j].role = "user"
      BY <3>1, <3>2 DEF Asked
    <3> QED
      BY <2>3, <3>3, <3>4 DEF Asked, Answered
  <2>6. CallBacked(call[h])'
    BY <2>2, <2>3, <2>4, <2>5 DEF CallBacked
  <2> QED
    BY <1>2, <2>3, <2>6 DEF CallsBacked
<1>7. ASSUME NEW h \in Handler, Reply(h) PROVE CallsBacked'
  BY <1>3, <1>7 DEF Reply, TypeOK
<1>8. CASE Crash
  BY <1>8 DEF Crash, CallsBacked
<1> QED
  BY <1>3, <1>4, <1>5, <1>6, <1>7, <1>8
     DEF Next, Dashboard, Serve, vars, copilotVars, SignOut, Reload, Open, Ask, TimeOut,
         NewRun, Expire

\* What a panel shows stays backed, and so does it with one more backed message.
LEMMA PanelBackedKept ==
    ASSUME TypeOK, TypeOK', PanelBacked, [Next]_vars,
           \A b \in Browser :
               \/ panel'[b] = <<>>
               \/ panel'[b] = panel[b]
               \/ \E x \in PanelMessage : Backed(x)' /\ panel'[b] = Append(panel[b], x)
    PROVE  PanelBacked'
<1>1. SUFFICES ASSUME NEW b \in Browser, NEW i \in 1..Len(panel'[b])
               PROVE  Backed(panel[b][i])'
  BY DEF PanelBacked
<1>2. panel[b] \in Seq(PanelMessage) /\ panel'[b] \in Seq(PanelMessage)
  BY DEF TypeOK, PanelMessage
<1>3. ASSUME NEW j \in 1..Len(panel[b]) PROVE \A x : x = panel[b][j] => Backed(x)'
  <2>1. panel[b][j] \in PanelMessage
    BY <1>2, ElementOfSeq
  <2>2. Backed(panel[b][j])
    BY DEF PanelBacked
  <2> QED
    BY <2>1, <2>2, GrowsStep, BackedKept DEF PanelMessage
<1>4. panel'[b] # <<>>
  BY <1>2, EmptySeq
<1>5. CASE panel'[b] = panel[b]
  BY <1>3, <1>5
<1>6. ASSUME NEW x \in PanelMessage, Backed(x)', panel'[b] = Append(panel[b], x)
      PROVE  Backed(panel[b][i])'
  <2>1. Len(panel[b]) \in Nat /\ Len(panel'[b]) = Len(panel[b]) + 1
    BY <1>2, <1>6, AppendProperties, LenProperties
  <2>2. CASE i \in 1..Len(panel[b])
    BY <1>2, <1>3, <1>6, <2>2, AppendProperties
  <2>3. CASE i = Len(panel[b]) + 1
    <3>1. panel'[b][i] = x
      BY <1>2, <1>6, <2>3, AppendProperties
    <3> QED
      BY <1>6, <3>1
  <2> QED
    BY <2>1, <2>2, <2>3
<1> QED
  BY <1>1, <1>4, <1>5, <1>6

\* What no run is the author of needs no backing.
LEMMA NoAnswerIsBacked ==
    ASSUME TypeOK', NEW x, x.run = 0, x.role # "assistant"
    PROVE  Backed(x)'
<1>1. run' \in Nat
  BY DEF TypeOK
<1> QED
  BY <1>1 DEF Backed

LEMMA GiveUpBacked ==
    ASSUME TypeOK, TypeOK', PanelBacked, [Next]_vars,
           NEW b \in Browser, waiting[b] # 0, GiveUp(b)
    PROVE  PanelBacked'
<1>1. PICK x \in PanelMessage : x = Apology(b)
  BY ApologyIsSaid
<1>2. x.run = 0 /\ x.role = "error"
  BY <1>1 DEF Apology, Message
<1>3. Backed(x)'
  BY <1>2, NoAnswerIsBacked
<1>4. panel' = [panel EXCEPT ![b] = Append(panel[b], x)]
  BY <1>1 DEF GiveUp, Add
<1>5. \A c \in Browser : panel'[c] = IF c = b THEN Append(panel[b], x) ELSE panel[c]
  BY <1>4 DEF TypeOK
<1> QED
  BY <1>3, <1>5, PanelBackedKept

LEMMA CrashBacked ==
    ASSUME TypeOK, TypeOK', PanelBacked, [Next]_vars, Crash
    PROVE  PanelBacked'
<1>1. \A b \in Browser : panel'[b] = IF waiting[b] # 0 /\ Served(b)
                                      THEN Append(panel[b], Apology(b)) ELSE panel[b]
  BY DEF Crash
<1>2. ASSUME NEW b \in Browser, waiting[b] # 0
      PROVE  \E x \in PanelMessage : Backed(x)' /\ x = Apology(b)
  <2>1. PICK x \in PanelMessage : x = Apology(b)
    BY <1>2, ApologyIsSaid
  <2>2. x.run = 0 /\ x.role = "error"
    BY <2>1 DEF Apology, Message
  <2> QED
    BY <2>1, <2>2, NoAnswerIsBacked
<1> QED
  BY <1>1, <1>2, PanelBackedKept

LEMMA AskBacked ==
    ASSUME TypeOK, TypeOK', PanelBacked, [Next]_vars, NEW b \in Browser, Ask(b)
    PROVE  PanelBacked'
<1>1. asks + 1 \in Nat /\ signedIn[b].user \in Merchant /\ 0 \in Nat
  BY WaitingIsSignedIn DEF Ask, TypeOK
<1>2. PICK x \in PanelMessage : x = Message("user", asks + 1, signedIn[b].user, 0)
  BY <1>1, MessageType DEF PanelMessage
<1>3. x.run = 0 /\ x.role = "user"
  BY <1>2 DEF Message
<1>4. Backed(x)'
  BY <1>3, NoAnswerIsBacked
<1>5. \A c \in Browser : panel'[c] = IF c = b THEN Append(panel[b], x) ELSE panel[c]
  BY <1>2 DEF Ask, Add, TypeOK
<1> QED
  BY <1>4, <1>5, PanelBackedKept

\* The server's copy, or the brief.
LEMMA OpenBacked ==
    ASSUME TypeOK, TypeOK', StoredIsTheirs, StoredInOrder, PanelBacked, [Next]_vars,
           NEW b \in Browser, Open(b)
    PROVE  PanelBacked'
<1> DEFINE m == session[signedIn[b].token].user
           shown == IF history[m] = <<>> THEN <<Brief(m)>> ELSE Latest(history[m])
<1>1. m \in Merchant /\ panel' = [panel EXCEPT ![b] = shown] /\ UNCHANGED <<run, history>>
  BY WaitingIsSignedIn, AdmittedUser DEF Open, Rendered
<1>2. ASSUME NEW i \in 1..Len(shown) PROVE Backed(shown[i])
  <2>1. CASE history[m] = <<>>
    <3>1. shown[i].run = 0 /\ shown[i].role = "brief"
      BY <2>1 DEF Brief, Message
    <3>2. run \in Nat
      BY DEF TypeOK
    <3> QED
      BY <3>1, <3>2 DEF Backed
  <2>2. CASE history[m] # <<>>
    <3>1. history[m] \in Seq(StoredMessage)
      BY <1>1 DEF TypeOK, StoredMessage
    <3>2. PICK j \in 1..Len(history[m]) : shown[i] = history[m][j]
      BY <2>2, <3>1, LatestMessages
    <3>3. history[m][j].merchant = m
      BY <1>1 DEF StoredIsTheirs
    <3>4. /\ history[m][j].run <= run
          /\ history[m][j].role = "assistant" /\ history[m][j].run = run =>
                 Answered(m, history[m][j].ask)
      BY <1>1 DEF StoredInOrder, Answered
    <3> QED
      BY <3>2, <3>3, <3>4 DEF Backed
  <2> QED
    BY <2>1, <2>2
<1>3. \A c \in Browser : panel'[c] = IF c = b THEN shown ELSE panel[c]
  BY <1>1 DEF TypeOK
<1> HIDE DEF shown
<1>4. \A c \in Browser : \A i \in 1..Len(panel'[c]) : Backed(panel'[c][i])
  BY <1>2, <1>3 DEF PanelBacked
<1> QED
  BY <1>1, <1>4 DEF PanelBacked, Backed, Answered, Asked

\* A saved answer is backed by what its thread has stored.
LEMMA ReplyBacked ==
    ASSUME TypeOK, TypeOK', CallsBacked, PanelBacked, [Next]_vars,
           NEW h \in Handler, Reply(h)
    PROVE  PanelBacked'
<1> DEFINE role == IF call[h].op = "saved" THEN "assistant" ELSE "unsaved"
<1>1. call[h] # Idle /\ UNCHANGED <<run, history>>
  BY DEF Reply, Idle
<1>2. role \in {"user", "assistant", "unsaved", "error", "brief"}
  OBVIOUS
<1>3. PICK x \in PanelMessage :
          x = Message(role, call[h].ask, call[h].merchant, call[h].run)
  BY <1>1, <1>2, CallShape, MessageType DEF PanelMessage
<1>4. /\ x.role = role /\ x.ask = call[h].ask
      /\ x.merchant = call[h].merchant /\ x.run = call[h].run
  BY <1>3 DEF Message
<1>5. CallBacked(call[h])
  BY <1>1 DEF CallsBacked
<1>6. Backed(x)
  BY <1>4, <1>5 DEF CallBacked, Backed
<1>7. Backed(x)'
  BY <1>1, <1>6 DEF Backed, Answered, Asked
<1>8. \A b \in Browser : panel'[b] = IF waiting[b] = call[h].ask
                                      THEN Append(panel[b], x) ELSE panel[b]
  BY <1>3 DEF Reply
<1> QED
  BY <1>7, <1>8, PanelBackedKept

LEMMA PanelBackedStep ==
    ASSUME TypeOK, TypeOK', StoredIsTheirs, Backing, [Next]_vars
    PROVE  PanelBacked'
<1> USE DEF Backing
<1>1. CASE UNCHANGED panel
  BY <1>1, PanelBackedKept
<1>2. ASSUME NEW b \in Browser, SignOut(b) \/ Reload(b) PROVE PanelBacked'
  <2>1. panel' = [panel EXCEPT ![b] = <<>>]
    BY <1>2 DEF SignOut, Reload
  <2> QED
    BY <2>1, PanelBackedKept DEF TypeOK
<1>3. ASSUME NEW b \in Browser, TimeOut(b) PROVE PanelBacked'
  BY <1>3, GiveUpBacked DEF TimeOut
<1>4. ASSUME NEW h \in Handler, NEW b \in Browser, Admit(h, b) PROVE PanelBacked'
  BY <1>1, <1>4, GiveUpBacked DEF Admit
<1> QED
  BY <1>1, <1>2, <1>3, <1>4, OpenBacked, AskBacked, ReplyBacked, CrashBacked
     DEF Next, Dashboard, Serve, vars, copilotVars, StoreQuestion, StoreAnswer, NewRun, Expire

\* An answer shown as one is stored behind its question, on every dashboard
\* and for every interleaving of threads, timeouts, crashes and new runs.
THEOREM ShownIsAlwaysRemembered == Spec => []ShownIsRemembered
<1>1. Init => TypeOK /\ Theirs /\ Backing
  <2>1. Init => Theirs
    BY EmptySeq DEF Init, AccountsInit, Theirs, Numbered, SessionIsTheirs, StoredIsTheirs,
                    CallIsTheirs, PanelIsTheirs
  <2>2. Init => Backing
    BY EmptySeq DEF Init, Backing, StoredInOrder, CallsBacked, PanelBacked
  <2> QED
    BY <2>1, <2>2, InitType
<1>2. TypeOK /\ Theirs /\ Backing /\ [Next]_vars => (TypeOK /\ Theirs /\ Backing)'
  <2>1. TypeOK /\ Theirs /\ [Next]_vars => (TypeOK /\ Theirs)'
    BY NextType, NumberedStep, SessionStep, StoredStep, CallStep, PanelStep DEF Theirs
  <2> QED
    BY <2>1, StoredInOrderStep, CallsBackedStep, PanelBackedStep DEF Theirs, Backing
<1>3. TypeOK /\ Backing => ShownIsRemembered
  BY BackingShows DEF Backing
<1> QED
  BY <1>1, <1>2, <1>3, PTL DEF Spec
=============================================================================
