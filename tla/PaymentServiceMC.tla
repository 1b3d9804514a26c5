--------------------------- MODULE PaymentServiceMC ---------------------------
(***************************************************************************)
(* Small instances of PaymentService for TLC.                              *)
(***************************************************************************)
EXTENDS PaymentService, FiniteSets, TLC

\* All invoices are of one business.
MCOwner == [i \in Invoices |-> CHOOSE b \in Businesses : TRUE]

\* Every request there is.
AnyPay        == PayRequest
AnyTransition == TransitionRequest

\* The owner sends anything that fits the columns, and on an ordinary invoice also a
\* key that does not; a stranger copies the requests an owner can succeed with.
Owned(request) == request.business = Owner[request.invoice]

StrangersToo ==
  {p \in PayRequest :
     IF p.key \in TooLong
     THEN Owned(p) /\ p.invoice \notin ZeroTotal /\ p.card = "tok_success"
     ELSE Owned(p) \/ /\ p.invoice \notin ZeroTotal /\ p.key # NoKey
                      /\ p.card \in {"tok_success", "tok_card_declined"}}

StrangersOpen ==
  {p \in TransitionRequest :
     Owned(p) \/ (p.invoice \notin ZeroTotal /\ p.target = "open")}

\* Calls, keys, invoices and transition calls are interchangeable in every
\* invariant.  Sound for safety only.
Symmetry ==
  Permutations(PayCalls) \cup Permutations(TransitionCalls)
    \cup Permutations(Keys \ TooLong) \cup Permutations(Invoices \ ZeroTotal)

===============================================================================
