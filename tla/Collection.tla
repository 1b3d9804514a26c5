------------------------------ MODULE Collection ------------------------------
(***************************************************************************)
(* What the payment path promises about money, with no rows, locks or      *)
(* handlers in it: a request to collect an invoice reserves the invoice,   *)
(* a reserved request may be charged once or refused, and a charge is      *)
(* collected.  A request that was not refused keeps its invoice.           *)
(***************************************************************************)
CONSTANT Requests       (* Requests to collect an invoice.                 *)

VARIABLES
  invoiceOf,  (* the invoice each request is about; it never changes.      *)
  ledger,     (* "none", "pending", "failed" or "succeeded".               *)
  charged     (* the requests whose card was charged.                      *)

vars == <<invoiceOf, ledger, charged>>

Init ==
  /\ ledger  = [r \in Requests |-> "none"]
  /\ charged = {}

Move(r, from, to) ==
  /\ ledger[r] = from
  /\ ledger' = [ledger EXCEPT ![r] = to]
  /\ UNCHANGED <<invoiceOf, charged>>

\* No other request has the invoice, be it undecided or collected.
Reserve(r) ==
  /\ \A s \in Requests :
        s # r /\ invoiceOf[s] = invoiceOf[r] => ledger[s] \in {"none", "failed"}
  /\ Move(r, "none", "pending")

\* Money moves only for a request that has its invoice, whoever still waits.
Charge(r) ==
  /\ ledger[r] = "pending"
  /\ r \notin charged
  /\ charged' = charged \cup {r}
  /\ UNCHANGED <<invoiceOf, ledger>>

Refuse(r)  == r \notin charged /\ Move(r, "pending", "failed")
Collect(r) == r \in charged /\ Move(r, "pending", "succeeded")

Next == \E r \in Requests : Reserve(r) \/ Charge(r) \/ Refuse(r) \/ Collect(r)

Spec == Init /\ [][Next]_vars

===============================================================================
