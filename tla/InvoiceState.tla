----------------------------- MODULE InvoiceState -----------------------------
(***************************************************************************)
(* The invoice state machine: pure rules, no storage.                      *)
(* app/models/invoice.py (InvoiceState, TERMINAL_STATES) and               *)
(* app/services/invoice_state.py (ALLOWED_TRANSITIONS,                     *)
(* assert_transition_allowed).                                             *)
(***************************************************************************)

InvoiceStates == {"draft", "open", "paid", "void", "uncollectible"}

TERMINAL_STATES == {"paid", "void", "uncollectible"}

\* Mutant: a draft can be voided.
DraftCanBeVoided ==
  [s \in InvoiceStates |->
     CASE s = "draft" -> {"open", "void"}
       [] s = "open"  -> {"paid", "void", "uncollectible"}
       [] OTHER       -> {}]

ALLOWED_TRANSITIONS ==
  [s \in InvoiceStates |->
     CASE s = "draft" -> {"open"}
       [] s = "open"  -> {"paid", "void", "uncollectible"}
       [] OTHER       -> {}]

\* assert_transition_allowed(current, target) returns instead of raising
\* InvalidStateTransition.
TransitionAllowed(current, target) ==
  /\ current \notin TERMINAL_STATES
  /\ target \in ALLOWED_TRANSITIONS[current]

===============================================================================
