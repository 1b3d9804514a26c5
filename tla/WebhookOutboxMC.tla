--------------------------- MODULE WebhookOutboxMC ---------------------------
(***************************************************************************)
(* Small instances of WebhookOutbox for TLC.                               *)
(***************************************************************************)
EXTENDS WebhookOutbox, TLC

\* Sound for safety only.
Symmetry ==
  Permutations(Endpoints) \cup Permutations(Events) \cup Permutations(Workers)

===============================================================================
