---------------------------- MODULE BudgetLedger ----------------------------
(***************************************************************************)
(* BudgetRepository: the discount budget all cases share.  The policy gate *)
(* reads a snapshot of it; reserve is what would take the discount of an   *)
(* approved action out of it.  Amounts are paise.                          *)
(*                                                                         *)
(* No code sets spent_paise after the first insert, nor a reservation's    *)
(* status after "reserved", so neither is kept here.                       *)
(***************************************************************************)
EXTENDS Integers, FiniteSets, Functions

CONSTANTS ActionId  \* actions that may need budget: rows of action_executions

ASSUME LedgerAssumption == IsFiniteSet(ActionId)

VARIABLES
    cap,          \* budget_state.cap_paise
    reservation   \* budget_reservations, by action

Free == [paise |-> 0]

BudgetInit(paise) ==
    /\ cap = paise
    /\ reservation = [a \in ActionId |-> Free]

Reserved == SumFunction([a \in ActionId |-> reservation[a].paise])
Available == cap - Reserved

\* Mutant of Remaining: the snapshot gives the budget without reservations.
RemainingForgetsReserved == cap

\* BatchBudgetSnapshot.remaining_paise: never below zero.
Remaining == IF Available < 0 THEN 0 ELSE Available

\* What reserve returns or raises.  An action asks for the same amount again
\* when it is retried; that is granted, and not taken a second time.
Answer(a, c, paise) ==
    LET asked == [case |-> c, paise |-> paise]
    IN  IF reservation[a] # Free THEN IF reservation[a] = asked THEN "granted" ELSE "conflict"
        ELSE IF paise <= Available THEN "granted" ELSE "refused"

Reserve(a, c, paise) ==
    /\ paise > 0
    /\ reservation' = IF Answer(a, c, paise) = "granted"
                      THEN [reservation EXCEPT ![a] = [case |-> c, paise |-> paise]]
                      ELSE reservation
    /\ UNCHANGED cap

\* The program starts, with the cap policy.yaml gives now.
Initialize(paise) == cap' = paise /\ UNCHANGED reservation

\* The demo is reset: delete_all.
Clear == reservation' = [a \in ActionId |-> Free] /\ UNCHANGED cap
=============================================================================
