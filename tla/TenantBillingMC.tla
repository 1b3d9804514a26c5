--------------------------- MODULE TenantBillingMC ---------------------------
(***************************************************************************)
(* Small instances of TenantBilling for TLC.                               *)
(***************************************************************************)
EXTENDS TenantBilling, FiniteSets, TLC

\* The invoices are of one business.
MCOwner == [i \in Invoices |-> CHOOSE b \in Businesses : TRUE]

\* Every request there is.
AnyPay        == PayRequest
AnyTransition == TransitionRequest

\* Sound for safety only.
Symmetry ==
  Permutations(PayCalls) \cup Permutations(Keys)
    \cup Permutations(TransitionCalls)

===============================================================================
