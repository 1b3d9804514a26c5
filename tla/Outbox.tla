-------------------------------- MODULE Outbox --------------------------------
(***************************************************************************)
(* What the webhook outbox promises, with no rows, locks or clock in it:   *)
(* a set of messages is put in at one moment; a message is sent while it   *)
(* is pending, again and again, and settled once, as delivered only if a   *)
(* receiver took it and as exhausted only after MinSends sends.            *)
(***************************************************************************)
EXTENDS Naturals

CONSTANTS
  Messages,
  MinSends     (* Sends before a message may be given up.                  *)

VARIABLES
  status,      (* "absent", "pending", "delivered" or "exhausted".         *)
  sends,       (* how often a message was sent.                            *)
  taken        (* whether a receiver took it.                              *)

vars == <<status, sends, taken>>

Init ==
  /\ status = [m \in Messages |-> "absent"]
  /\ sends  = [m \in Messages |-> 0]
  /\ taken  = [m \in Messages |-> FALSE]

Enqueue(ms) ==
  /\ ms \subseteq {m \in Messages : status[m] = "absent"}
  /\ status' = [m \in Messages |-> IF m \in ms THEN "pending" ELSE status[m]]
  /\ UNCHANGED <<sends, taken>>

\* The answer may be lost, so a message that was taken may be sent again.
Send(m, took) ==
  /\ status[m] = "pending"
  /\ sends' = [sends EXCEPT ![m] = @ + 1]
  /\ taken' = [taken EXCEPT ![m] = @ \/ took]
  /\ UNCHANGED status

Settle(delivered, exhausted) ==
  /\ delivered \subseteq {m \in Messages : status[m] = "pending" /\ taken[m]}
  /\ exhausted \subseteq {m \in Messages : status[m] = "pending"
                                           /\ sends[m] >= MinSends}
  /\ delivered \cap exhausted = {}
  /\ status' = [m \in Messages |-> IF m \in delivered THEN "delivered"
                                   ELSE IF m \in exhausted THEN "exhausted"
                                   ELSE status[m]]
  /\ UNCHANGED <<sends, taken>>

Next ==
  \/ \E ms \in SUBSET Messages : Enqueue(ms)
  \/ \E m \in Messages, took \in BOOLEAN : Send(m, took)
  \/ \E delivered, exhausted \in SUBSET Messages : Settle(delivered, exhausted)

Spec == Init /\ [][Next]_vars

===============================================================================
