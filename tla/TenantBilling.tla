---------------------------- MODULE TenantBilling ----------------------------
(***************************************************************************)
(* The payment path and the webhook outbox together.  A domain change and  *)
(* its event commit in one transaction: create_invoice and the two known   *)
(* outcomes of process_payment call enqueue_event before their commit,     *)
(* nothing else does.  The outbox is the abstract one, which WebhookOutbox *)
(* implements; the handlers are those of PaymentService.                   *)
(*                                                                         *)
(* enqueue_event reads the active endpoints some statements before its     *)
(* caller's commit.  Endpoints come and go between the two, and the        *)
(* transaction holds rows that other handlers then wait for.               *)
(***************************************************************************)
EXTENDS PaymentService

CONSTANTS
  Endpoints,   (* Webhook endpoints of the business that owns the invoices. *)
  MinSends,    (* MAX_ATTEMPTS of the worker.                              *)
  MaxSends     (* Sends of one message.  Bounds the model.                 *)

ASSUME BillingAssumption ==
  /\ \A i, j \in Invoices : Owner[i] = Owner[j]
  /\ MinSends \in Nat
  /\ MaxSends \in Nat

VARIABLES
  endpoint,    (* "absent", "active" or "inactive".                        *)
  reading,     (* events whose transaction has read the endpoints.         *)
  targets,     (* the endpoints it found active.                           *)
  status,      (* webhook_deliveries.status, "absent" before the INSERT.   *)
  sends,       (* POSTs of a delivery.                                     *)
  taken        (* whether its receiver took one.                           *)

readVars    == <<reading, targets>>
wireVars    == <<status, sends, taken>>
billingVars == <<vars, endpoint, readVars, wireVars>>

Created(i) == [event |-> "invoice.created", of |-> i]
Paid(r)    == [event |-> "invoice.paid", of |-> r]
Failed(r)  == [event |-> "invoice.payment_failed", of |-> r]

Events == {Created(i) : i \in Invoices} \cup {Paid(r) : r \in PayCalls}
            \cup {Failed(r) : r \in PayCalls}

Messages == Events \X Endpoints

Wire == INSTANCE Outbox

BillingTypeOK ==
  /\ TypeOK
  /\ endpoint \in [Endpoints -> {"absent", "active", "inactive"}]
  /\ reading  \in SUBSET Events
  /\ targets  \in [Events -> SUBSET Endpoints]
  /\ status   \in [Messages -> {"absent", "pending", "delivered", "exhausted"}]
  /\ sends    \in [Messages -> Nat]
  /\ taken    \in [Messages -> BOOLEAN]

BillingInit ==
  /\ Init
  /\ endpoint = [p \in Endpoints |-> "absent"]
  /\ reading  = {}
  /\ targets  = [e \in Events |-> {}]
  /\ Wire!Init

-------------------------------------------------------------------------------
(***************************************************************************)
(* Transactions with an event                                              *)
(***************************************************************************)

ActiveEndpoints == {p \in Endpoints : endpoint[p] = "active"}

\* enqueue_event selects the endpoints; the change it announces is flushed, not
\* committed.
ReadEndpoints(e) ==
  /\ e \notin reading
  /\ reading' = reading \cup {e}
  /\ targets' = [targets EXCEPT ![e] = ActiveEndpoints]
  /\ UNCHANGED <<vars, endpoint, wireVars>>

CreationFlushed(i) == state[i] = "absent" /\ ReadEndpoints(Created(i))

PaymentFlushed(r) ==
  /\ pc[r] = "relock"
  /\ lock[call[r].invoice] = NoOne
  /\ TransitionAllowed(seen[r], "paid")
  /\ ReadEndpoints(Paid(r))

FailureFlushed(r) ==
  /\ pc[r] = "waiting"
  /\ psp[r] = "refused"
  /\ ReadEndpoints(Failed(r))

\* Mutant: the endpoints are those of the moment of the commit.
EnqueueEventLate(e) ==
  /\ e \in reading
  /\ Wire!Enqueue({e} \X ActiveEndpoints)
  /\ reading' = reading \ {e}
  /\ targets' = [targets EXCEPT ![e] = {}]
  /\ UNCHANGED endpoint

\* The commit of the change and of one row per endpoint read.
EnqueueEvent(e) ==
  /\ e \in reading
  /\ Wire!Enqueue({e} \X targets[e])
  /\ reading' = reading \ {e}
  /\ targets' = [targets EXCEPT ![e] = {}]
  /\ UNCHANGED endpoint

InvoiceCreated(i) == CreateInvoice(i) /\ EnqueueEvent(Created(i))

PaymentRecorded(r) == RecordPaid(r) /\ EnqueueEvent(Paid(r))

FailureRecorded(r) == RecordFailed(r) /\ EnqueueEvent(Failed(r))

-------------------------------------------------------------------------------
(***************************************************************************)
(* Transactions without one                                                *)
(***************************************************************************)

\* "No webhook event for pending - only fire on known outcomes."
Silently(A) == A /\ UNCHANGED <<endpoint, readVars, wireVars>>

\* Mutant: an unknown outcome is announced as a failure.
OutcomeUnknownTold(r) ==
  /\ RecordUnknown(r)
  /\ Wire!Enqueue({Failed(r)} \X ActiveEndpoints)
  /\ UNCHANGED <<endpoint, readVars>>

OutcomeUnknown(r) == Failed(r) \notin reading /\ Silently(RecordUnknown(r))

\* Mutant: the event has a transaction of its own, before that of the charge.
ChargeKnownTold(r) ==
  /\ FlushSucceeded(r)
  /\ Wire!Enqueue({Paid(r)} \X ActiveEndpoints)
  /\ UNCHANGED <<endpoint, readVars>>

ChargeKnown(r) == Silently(FlushSucceeded(r))

\* A payment about to commit holds the row of its invoice.
RowHeld(i) == \E r \in PayCalls : Paid(r) \in reading /\ call[r].invoice = i

\* A failure about to commit has updated its attempt: an INSERT that conflicts with
\* the old row waits.
InsertHeld(r) ==
  LET rivals == IF AttemptsWithKeyOf(r) # {} THEN AttemptsWithKeyOf(r)
                                             ELSE PendingOnInvoiceOf(r)
  IN  Valid(r) /\ \E a \in rivals : Failed(a) \in reading

RequestStep(r) ==
  Silently(\/ Arrive(r) \/ Lookup(r) \/ Refetch(r) \/ CallPsp(r) \/ PspDecides(r)
           \/ /\ Found(call[r].invoice, call[r].business) => ~RowHeld(call[r].invoice)
              /\ LockInvoice(r)
           \/ ~InsertHeld(r) /\ InsertPending(r)
           \/ \E s \in PayCalls : BreakDeadlock(r, s))

TransitionStep(t) ==
  Silently(\/ TransitionRead(t)
           \/ ~RowHeld(order[t].invoice) /\ TransitionWrite(t))

\* Open transactions roll back, and what they read is lost.
CrashService ==
  /\ Crash
  /\ reading' = {}
  /\ targets' = [e \in Events |-> {}]
  /\ UNCHANGED <<endpoint, wireVars>>

-------------------------------------------------------------------------------
(***************************************************************************)
(* Endpoints and the worker                                                *)
(***************************************************************************)

SetEndpoint(p, value) ==
  /\ endpoint' = [endpoint EXCEPT ![p] = value]
  /\ UNCHANGED <<vars, readVars, wireVars>>

RegisterEndpoint(p)   == endpoint[p] = "absent" /\ SetEndpoint(p, "active")
DeactivateEndpoint(p) == endpoint[p] # "absent" /\ SetEndpoint(p, "inactive")

Post(m, took) ==
  /\ sends[m] < MaxSends
  /\ Wire!Send(m, took)
  /\ UNCHANGED <<vars, endpoint, readVars>>

\* The worker commits a batch.
SettleBatch(delivered, exhausted) ==
  /\ Wire!Settle(delivered, exhausted)
  /\ UNCHANGED <<vars, endpoint, readVars>>

Pending == {m \in Messages : status[m] = "pending"}

Quiescent == AllServed /\ Pending = {} /\ UNCHANGED billingVars

BillingNext ==
  \/ \E i \in Invoices : CreationFlushed(i) \/ InvoiceCreated(i)
  \/ \E r \in PayCalls : PaymentFlushed(r) \/ PaymentRecorded(r)
  \/ \E r \in PayCalls : FailureFlushed(r) \/ FailureRecorded(r)
  \/ \E r \in PayCalls : OutcomeUnknown(r) \/ ChargeKnown(r) \/ RequestStep(r)
  \/ \E t \in TransitionCalls : TransitionStep(t)
  \/ CrashService
  \/ \E p \in Endpoints : RegisterEndpoint(p) \/ DeactivateEndpoint(p)
  \/ \E m \in Messages, took \in BOOLEAN : Post(m, took)
  \/ \E delivered \in SUBSET Pending :
        \E exhausted \in SUBSET (Pending \ delivered) :
           SettleBatch(delivered, exhausted)
  \/ Quiescent

BillingSpec == BillingInit /\ [][BillingNext]_billingVars

\* Clients that never have two finalize calls in flight for one invoice.
BillingSerialSpec ==
  BillingInit /\ [][BillingNext /\ SerialFinalize']_billingVars

-------------------------------------------------------------------------------
(***************************************************************************)
(* Properties                                                              *)
(***************************************************************************)

\* What the database says of the change an event announces.
Happened(e) ==
  CASE e.event = "invoice.created"        -> state[e.of] # "absent"
    [] e.event = "invoice.paid"           -> attempt[e.of] = "succeeded"
    [] e.event = "invoice.payment_failed" -> attempt[e.of] = "failed"

\* No change becomes durable before its transaction has asked which endpoints are
\* active, and it is announced to those, whatever becomes of them until the commit:
\* a message appears in the very step in which its change becomes durable and in no
\* other.  Whatever crashes, deadlocks, waits and lost answers come between, no event
\* is lost, repeated or announced without its change.
ToldAsItHappens ==
  [][\A e \in Events, p \in Endpoints :
        /\ e \in reading' \ reading =>
             ~Happened(e) /\ (p \in targets'[e] <=> endpoint[p] = "active")
        /\ e \in reading' \cap reading => (p \in targets'[e] <=> p \in targets[e])
        /\ ~Happened(e) /\ Happened(e)' => e \in reading
        /\ status[<<e, p>>] = "absent" /\ status'[<<e, p>>] # "absent"
           <=> ~Happened(e) /\ Happened(e)' /\ p \in targets[e]]_billingVars

\* A receiver that took invoice.paid can rely on the processor having charged
\* the card, one that took invoice.payment_failed on its never doing so.
ReceiversToldTruth ==
  \A r \in PayCalls, p \in Endpoints :
     /\ taken[<<Paid(r), p>>]   => psp[r] = "charged"
     /\ taken[<<Failed(r), p>>] => psp[r] = "refused"

PaymentEvents(i) ==
  {e \in Events : e.event # "invoice.created" /\ call[e.of].invoice = i}

\* Once an endpoint has a message that an invoice is paid, no other payment
\* event of that invoice is announced to it: invoice.paid is said once and last.
PaidIsLastWord ==
  [][\A r \in PayCalls, p \in Endpoints :
        status[<<Paid(r), p>>] # "absent" =>
          \A e \in PaymentEvents(call[r].invoice) :
             status'[<<e, p>>] = "absent" <=> status[<<e, p>>] = "absent"]_billingVars

===============================================================================
