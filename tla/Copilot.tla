------------------------------ MODULE Copilot -------------------------------
(***************************************************************************)
(* The merchant copilot: ask_copilot and the conversation it stores, the   *)
(* dashboard panel that shows its own copy of that conversation, and the   *)
(* demo run that wipes the stored one.  The dashboard waits thirty seconds *)
(* for an answer; the server's thread goes on without it.                  *)
(*                                                                         *)
(* What an answer says is left out.  A message names the question it       *)
(* belongs to (`ask`), the merchant whose facts it was made from, and, as  *)
(* a ghost, the demo run in which its question was stored (0 before that). *)
(***************************************************************************)
EXTENDS Accounts, Sequences

CONSTANTS
    Handler,       \* worker threads of the server
    HistoryLimit,  \* messages copilot_history returns: 20
    MaxAsks,       \* bound on the questions asked
    MaxRuns        \* bound on the demo runs created

ASSUME CopilotAssumption ==
    /\ HistoryLimit \in Nat \ {0}
    /\ MaxAsks \in Nat
    /\ MaxRuns \in Nat

VARIABLES
    run,      \* how many demo runs have replaced the first one (ghost)
    asks,     \* how many questions have been asked (ghost)
    history,  \* sre_copilot_messages of each merchant, oldest first
    panel,    \* st.session_state.copilot_messages of each dashboard
    waiting,  \* the question a dashboard waits on, 0 when on none
    call      \* what each worker thread is doing

copilotVars == <<run, asks, history, panel, waiting, call>>
vars == <<session, signedIn, copilotVars>>

Idle == [op |-> "idle"]

Message(role, ask, m, r) == [role |-> role, ask |-> ask, merchant |-> m, run |-> r]

\* The panel's own messages: the morning brief of an empty conversation, and
\* "I could not check that right now".
Brief(m) == Message("brief", 0, m, 0)
Apology(b) == Message("error", waiting[b], signedIn[b].user, 0)

Add(messages, who, message) == [messages EXCEPT ![who] = Append(@, message)]

Served(b) == \E h \in Handler : call[h] # Idle /\ call[h].ask = waiting[b]

-----------------------------------------------------------------------------
Init ==
    /\ AccountsInit
    /\ run = 0
    /\ asks = 0
    /\ history = [m \in Merchant |-> <<>>]
    /\ panel = [b \in Browser |-> <<>>]
    /\ waiting = [b \in Browser |-> 0]
    /\ call = [h \in Handler |-> Idle]

\* Mutant of SignOut: the conversation is not among the keys taken out.
SignOutKeepsPanel(b) ==
    /\ waiting[b] = 0
    /\ \E reached \in BOOLEAN : DropToken(b, reached)
    /\ UNCHANGED copilotVars

\* Mutant of SignOut: the click is handled while the script waits.
SignOutWhileWaiting(b) ==
    /\ \E reached \in BOOLEAN : DropToken(b, reached)
    /\ panel' = [panel EXCEPT ![b] = <<>>]
    /\ UNCHANGED <<run, asks, history, waiting, call>>

\* sign_out takes out the token, the user and the conversation.  A script
\* that waits for an answer handles no click.
SignOut(b) ==
    /\ waiting[b] = 0
    /\ \E reached \in BOOLEAN : DropToken(b, reached)
    /\ panel' = [panel EXCEPT ![b] = <<>>]
    /\ UNCHANGED <<run, asks, history, waiting, call>>

\* The new session state is empty; the old script's answer goes nowhere.
Reload(b) ==
    /\ NewDashboardSession(b)
    /\ panel' = [panel EXCEPT ![b] = <<>>]
    /\ waiting' = [waiting EXCEPT ![b] = 0]
    /\ UNCHANGED <<run, asks, history, call>>

\* copilot_history: the latest messages, oldest of them first.
Latest(messages) ==
    SubSeq(messages, IF Len(messages) > HistoryLimit
                     THEN Len(messages) - HistoryLimit + 1 ELSE 1, Len(messages))

\* copilot_panel fills an empty conversation, from the server or the brief.
Open(b) ==
    /\ Rendered(b)
    /\ panel[b] = <<>>
    /\ LET m == session[signedIn[b].token].user
       IN  panel' = [panel EXCEPT ![b] = IF history[m] = <<>> THEN <<Brief(m)>>
                                                               ELSE Latest(history[m])]
    /\ UNCHANGED <<session, signedIn, run, asks, history, waiting, call>>

\* The merchant types a question; the panel shows it before it is posted.
Ask(b) ==
    /\ Rendered(b)
    /\ panel[b] # <<>>
    /\ waiting[b] = 0
    /\ asks < MaxAsks
    /\ asks' = asks + 1
    /\ waiting' = [waiting EXCEPT ![b] = asks + 1]
    /\ panel' = Add(panel, b, Message("user", asks + 1, signedIn[b].user, 0))
    /\ UNCHANGED <<session, signedIn, run, history, call>>

\* Mutant of GiveUp: the error is shown above the page, not in the panel.
GiveUpSilently(b) ==
    /\ waiting' = [waiting EXCEPT ![b] = 0]
    /\ UNCHANGED panel

\* What the dashboard waited for will not come: it apologises.
GiveUp(b) ==
    /\ panel' = Add(panel, b, Apology(b))
    /\ waiting' = [waiting EXCEPT ![b] = 0]

\* httpx's timeout, with the request still on its way, or being worked on.
\* (One that gets a thread only after this is as one that got it before.)
TimeOut(b) ==
    /\ waiting[b] # 0
    /\ GiveUp(b)
    /\ UNCHANGED <<session, signedIn, run, asks, history, call>>

-----------------------------------------------------------------------------
\* POST /merchant/copilot: the token is looked up again, now by the request.
Admit(h, b) ==
    /\ call[h] = Idle
    /\ waiting[b] # 0 /\ ~Served(b)
    /\ IF Admits(signedIn[b].token)
       THEN /\ call' = [call EXCEPT ![h] =
                  [op |-> "answer", ask |-> waiting[b], run |-> 0,
                   merchant |-> session[signedIn[b].token].user]]
            /\ UNCHANGED <<panel, waiting>>
       ELSE GiveUp(b) /\ UNCHANGED call
    /\ UNCHANGED <<session, signedIn, run, asks, history>>

Step(h, op) == call' = [call EXCEPT ![h].op = op]

Remember(h, role) ==
    history' = Add(history, call[h].merchant,
                   Message(role, call[h].ask, call[h].merchant, call'[h].run))

\* Mutant of StoreQuestion: the question is left to the caller to store.
SkipQuestion(h) ==
    /\ call[h].op = "answer"
    /\ call' = [call EXCEPT ![h].op = "store", ![h].run = run]
    /\ UNCHANGED <<session, signedIn, run, asks, history, panel, waiting>>

\* _remember, twice, in a transaction each: only now, with the answer made
\* (by Gemini, or by rule), is anything stored.  When one fails the answer is
\* returned with a note that it was not saved.
StoreQuestion(h) ==
    /\ call[h].op = "answer"
    /\ \/ /\ call' = [call EXCEPT ![h].op = "store", ![h].run = run]
          /\ Remember(h, "user")
       \/ Step(h, "unsaved") /\ UNCHANGED history
    /\ UNCHANGED <<session, signedIn, run, asks, panel, waiting>>

StoreAnswer(h) ==
    /\ call[h].op = "store"
    /\ \/ Step(h, "saved") /\ Remember(h, "assistant")
       \/ Step(h, "unsaved") /\ UNCHANGED history
    /\ UNCHANGED <<session, signedIn, run, asks, panel, waiting>>

\* The dashboard shows the answer, and not the note, if it still waits.
Reply(h) ==
    /\ call[h].op \in {"saved", "unsaved"}
    /\ call' = [call EXCEPT ![h] = Idle]
    /\ LET c == call[h]
           role == IF c.op = "saved" THEN "assistant" ELSE "unsaved"
           there == {b \in Browser : waiting[b] = c.ask}
       IN  /\ panel' = [b \in Browser |->
                  IF b \in there
                  THEN Append(panel[b], Message(role, c.ask, c.merchant, c.run))
                  ELSE panel[b]]
           /\ waiting' = [b \in Browser |-> IF b \in there THEN 0 ELSE waiting[b]]
    /\ UNCHANGED <<session, signedIn, run, asks, history>>

\* The process dies; those it worked for lose their connection.
Crash ==
    /\ \E h \in Handler : call[h] # Idle
    /\ call' = [h \in Handler |-> Idle]
    /\ panel' = [b \in Browser |->
           IF waiting[b] # 0 /\ Served(b) THEN Append(panel[b], Apology(b)) ELSE panel[b]]
    /\ waiting' = [b \in Browser |-> IF Served(b) THEN 0 ELSE waiting[b]]
    /\ UNCHANGED <<session, signedIn, run, asks, history>>

\* seed_synthetic_data, of which this module sees the conversations deleted.
\* No thread and no dashboard is told.
NewRun ==
    /\ run < MaxRuns
    /\ run' = run + 1
    /\ history' = [m \in Merchant |-> <<>>]
    /\ UNCHANGED <<session, signedIn, asks, panel, waiting, call>>

-----------------------------------------------------------------------------
Dashboard(b) ==
    \/ \E m \in Merchant, t \in Token, answered \in BOOLEAN :
           SignIn(b, m, t, answered) /\ UNCHANGED copilotVars
    \/ SignOut(b) \/ Reload(b) \/ Open(b) \/ Ask(b) \/ TimeOut(b)

Serve(h) ==
    \/ \E b \in Browser : Admit(h, b)
    \/ StoreQuestion(h) \/ StoreAnswer(h) \/ Reply(h)

Next ==
    \/ \E b \in Browser : Dashboard(b)
    \/ \E h \in Handler : Serve(h)
    \/ \E t \in Token : Expire(t) /\ UNCHANGED copilotVars
    \/ Crash
    \/ NewRun

Spec == Init /\ [][Next]_vars

\* The dashboard's thirty seconds pass.  Nothing is assumed of the server.
FairSpec == Spec /\ \A b \in Browser : WF_vars(TimeOut(b))

-----------------------------------------------------------------------------
Messages(roles) ==
    [role : roles, ask : Nat, merchant : Merchant, run : Nat]

Calls == {Idle} \cup
    [op : {"answer", "store", "saved", "unsaved"}, ask : Nat \ {0},
     merchant : Merchant, run : Nat]

\* The stored messages have the roles the table's CHECK allows; a dashboard
\* that waits is signed in and shows a conversation.
TypeOK ==
    /\ session \in [Token -> SessionRow \cup {NoSession}]
    /\ signedIn \in [Browser -> [user : Merchant, token : Token] \cup {SignedOut}]
    /\ run \in Nat /\ asks \in Nat
    /\ history \in [Merchant -> Seq(Messages({"user", "assistant"}))]
    /\ panel \in [Browser ->
           Seq(Messages({"user", "assistant", "unsaved", "error", "brief"}))]
    /\ waiting \in [Browser -> Nat]
    /\ call \in [Handler -> Calls]
    /\ \A b \in Browser :
           waiting[b] # 0 => signedIn[b] # SignedOut /\ panel[b] # <<>>

\* Whoever signs in on a dashboard sees messages of their own account only,
\* whatever the account before them asked and however late it was answered.
PanelIsTheirs ==
    \A b \in Browser : \A i \in 1..Len(panel[b]) :
        signedIn[b] # SignedOut /\ panel[b][i].merchant = signedIn[b].user

\* An answer that is shown as one is in the stored conversation, behind its
\* question, until a new run wipes it: through expiry, crashes and timeouts.
ShownIsRemembered ==
    \A b \in Browser : \A i \in 1..Len(panel[b]) :
        LET shown == panel[b][i]
            stored == history[shown.merchant]
        IN  shown.role = "assistant" /\ shown.run = run =>
                \E j, k \in 1..Len(stored) :
                    /\ j < k
                    /\ stored[j].ask = shown.ask /\ stored[j].role = "user"
                    /\ stored[k].ask = shown.ask /\ stored[k].role = "assistant"

\* A question never stays the last thing a dashboard shows: an answer or an
\* apology follows, or the merchant leaves.
AskedIsAnswered ==
    \A b \in Browser :
        (waiting[b] # 0) ~> (panel[b] = <<>> \/ panel[b][Len(panel[b])].role # "user")
=============================================================================
