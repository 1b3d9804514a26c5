-------------------------------- MODULE MockPsp --------------------------------
(***************************************************************************)
(* The mock payment processor, mock_psp/main.py: one endpoint, no state,   *)
(* an answer that depends on the card token alone.  A "charged" decision   *)
(* is the answer status="succeeded": the moment the processor moves money. *)
(***************************************************************************)

Tokens == {"tok_success", "tok_insufficient_funds", "tok_card_declined",
           "tok_timeout", "tok_network_error", "tok_unknown"}

\* What the processor does with a charge request for this token.
\* "refused" is status="failed" with a code, "error" an HTTP status >= 400.
Decision(token) ==
  CASE token \in {"tok_success", "tok_timeout"}                  -> "charged"
    [] token \in {"tok_insufficient_funds", "tok_card_declined"} -> "refused"
    [] OTHER                                                     -> "error"

\* tok_timeout sleeps 30 seconds before it answers; the caller gives up after
\* PSP_TIMEOUT_SECONDS (12), so the decision falls after the caller left.
OutlivesCaller(token) == token = "tok_timeout"

================================================================================
