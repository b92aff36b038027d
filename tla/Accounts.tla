------------------------------ MODULE Accounts ------------------------------
(***************************************************************************)
(* Merchant sign-in: the session rows the server keeps, and the dashboard  *)
(* sessions (one Streamlit session per browser tab) that hold their        *)
(* tokens.  The two sides change at different times: a session expires or  *)
(* is left behind without its dashboard noticing.  Users and passwords are *)
(* fixed when the server starts; a wrong password changes nothing.         *)
(***************************************************************************)
EXTENDS Naturals

CONSTANTS
    Merchant,  \* merchant owners who can sign in
    Browser,   \* dashboard sessions
    Token      \* the tokens login can hand out, each of them once

VARIABLES
    session,   \* auth_sessions, by token
    signedIn   \* st.session_state's token and user, per dashboard session

NoSession == [state |-> "absent"]
SignedOut == [user |-> "nobody"]

SessionRow == [user : Merchant, state : {"live", "revoked", "expired"}]

\* user_from_token: the row is neither revoked nor expired.
Admits(t) == session[t].state = "live"

\* merchant_home reads the merchant's pages before it draws anything; when
\* that fails the dashboard shows the error and no button, Sign out included.
Rendered(b) == signedIn[b] # SignedOut /\ Admits(signedIn[b].token)

-----------------------------------------------------------------------------
AccountsInit ==
    /\ session = [t \in Token |-> NoSession]
    /\ signedIn = [b \in Browser |-> SignedOut]

\* authenticate, and the dashboard's login form.  The answer may get lost:
\* the row is stored and nobody holds its token.
SignIn(b, m, t, answered) ==
    /\ signedIn[b] = SignedOut
    /\ session[t] = NoSession
    /\ session' = [session EXCEPT ![t] = [user |-> m, state |-> "live"]]
    /\ signedIn' = IF answered
                   THEN [signedIn EXCEPT ![b] = [user |-> m, token |-> t]]
                   ELSE signedIn

Revoke(t) == session' = [session EXCEPT ![t].state = "revoked"]

\* sign_out: the dashboard drops the token whether or not logout got through.
DropToken(b, reached) ==
    /\ Rendered(b)
    /\ IF reached THEN Revoke(signedIn[b].token) ELSE UNCHANGED session
    /\ signedIn' = [signedIn EXCEPT ![b] = SignedOut]

\* The page is loaded again: Streamlit starts a session that knows no token.
NewDashboardSession(b) ==
    /\ signedIn[b] # SignedOut
    /\ signedIn' = [signedIn EXCEPT ![b] = SignedOut]
    /\ UNCHANGED session

\* Eight hours have passed.
Expire(t) ==
    /\ Admits(t)
    /\ session' = [session EXCEPT ![t].state = "expired"]
    /\ UNCHANGED signedIn
=============================================================================
