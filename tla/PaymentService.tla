---------------------------- MODULE PaymentService ----------------------------
(***************************************************************************)
(* Paying an invoice, and everything that races with it on the same rows:  *)
(*   - POST /invoices/{id}/pay        (process_payment, one PayCall each)  *)
(*   - POST .../finalize|void|uncollectible                                *)
(*                                    (transition_invoice_state)           *)
(*   - POST /invoices                 (create_invoice)                     *)
(*   - the payment processor, and a crash of the service process.          *)
(*                                                                         *)
(* A handler runs on a database session of its own at READ COMMITTED, so   *)
(* handlers interleave between statements.  An action is one stretch of a  *)
(* handler between two points where another handler can get in: a row lock *)
(* it waits for, a commit, or the call to the processor.                   *)
(***************************************************************************)
EXTENDS Naturals, FiniteSets, InvoiceState, MockPsp

CONSTANTS
  Businesses,       (* Businesses whose API keys the calls carry.          *)
  Invoices,         (* Invoice ids.                                        *)
  Owner,            (* invoices.business_id.                               *)
  PayCalls,         (* Calls of the pay endpoint, client retries included. *)
  TransitionCalls,  (* Calls of finalize, void and uncollectible.          *)
  Keys,             (* Idempotency keys a client may send.                 *)
  NoKey,            (* The Idempotency-Key header is missing or empty.     *)
  Cards,            (* Card tokens a client may send.                      *)
  TooLong,          (* Keys over 255 and card tokens over 100 characters.  *)
  ZeroTotal,        (* Invoices whose line items add up to zero cents.     *)
  PayWorkload,      (* What the clients may want: sets of requests.        *)
  TransitionWorkload,
  MaxCrashes,       (* Crashes of the service process.  Bounds the model.  *)
  NoOne             (* No call: the owner of a free lock.                  *)

PayRequest == [business : Businesses, invoice : Invoices,
               key : Keys \cup {NoKey}, card : Cards]
TransitionRequest == [business : Businesses, invoice : Invoices,
                      target : {"open", "void", "uncollectible"}]

ASSUME PaymentAssumption ==
  /\ PayWorkload \subseteq PayRequest
  /\ TransitionWorkload \subseteq TransitionRequest
  /\ Owner \in [Invoices -> Businesses]
  /\ Cards \subseteq Tokens
  /\ ZeroTotal \subseteq Invoices
  /\ MaxCrashes \in Nat
  /\ NoOne \notin PayCalls
  /\ NoKey \notin Keys

VARIABLES
  (* Committed rows of the database. *)
  state,     (* invoices.state, or "absent" before the row exists.         *)
  attempt,   (* status of the payment_attempts row a call inserted.        *)
  lock,      (* the call that holds SELECT ... FOR UPDATE on the invoice.  *)
  (* The payment processor. *)
  psp,       (* what it decided about the charge a call asked for.         *)
  (* Handlers of the pay endpoint. *)
  call,      (* the request: business, invoice, idempotency key and card.  *)
  pc,        (* how far the handler is.                                    *)
  seen,      (* invoice.state on the session's Invoice object.             *)
  reply,     (* the HTTP response.                                         *)
  (* Handlers of finalize, void and uncollectible. *)
  order,     (* the request: business, invoice and target state.           *)
  tpc,       (* how far the handler is.                                    *)
  crashes    (* crashes so far.                                            *)

payVars        == <<call, pc, seen, reply>>
transitionVars == <<order, tpc>>
vars == <<state, attempt, lock, psp, payVars, transitionVars, crashes>>

PaymentStatus == {"pending", "succeeded", "failed"}
Codes         == {200, 202, 402, 404, 409, 422, 500}
Reply         == [code : Codes, attempt : PayCalls \cup {NoOne}]
NoReply       == [code |-> 0, attempt |-> NoOne]

\* Where a pay handler can be; "lost" is a handler the crash killed.
PayLabels == {"new", "lookup", "lock", "insert", "refetch", "call", "waiting",
              "relock", "done", "lost"}

TypeOK ==
  /\ state   \in [Invoices -> InvoiceStates \cup {"absent"}]
  /\ attempt \in [PayCalls -> PaymentStatus \cup {"none"}]
  /\ lock    \in [Invoices -> PayCalls \cup {NoOne}]
  /\ psp     \in [PayCalls -> {"none", "called", "charged", "refused", "error"}]
  /\ call    \in [PayCalls -> PayRequest]
  /\ pc      \in [PayCalls -> PayLabels]
  /\ seen    \in [PayCalls -> InvoiceStates \cup {"absent"}]
  /\ reply   \in [PayCalls -> Reply \cup {NoReply}]
  /\ order   \in [TransitionCalls -> TransitionRequest]
  /\ tpc     \in [TransitionCalls -> {"new", "write", "ok", "rejected", "lost"}]
  /\ crashes \in 0 .. MaxCrashes

\* A database without invoices.  Which requests clients will send is open.
Init ==
  /\ state   = [i \in Invoices |-> "absent"]
  /\ attempt = [r \in PayCalls |-> "none"]
  /\ lock    = [i \in Invoices |-> NoOne]
  /\ psp     = [r \in PayCalls |-> "none"]
  /\ call    \in [PayCalls -> PayWorkload]
  /\ pc      = [r \in PayCalls |-> "new"]
  /\ seen    = [r \in PayCalls |-> "absent"]
  /\ reply   = [r \in PayCalls |-> NoReply]
  /\ order   \in [TransitionCalls -> TransitionWorkload]
  /\ tpc     = [t \in TransitionCalls |-> "new"]
  /\ crashes = 0

-------------------------------------------------------------------------------
(***************************************************************************)
(* Queries and responses                                                   *)
(***************************************************************************)

SameInvoice(r, s) == call[r].invoice = call[s].invoice

\* The committed row exists and assert_transition_allowed lets it through.
MayBecome(i, target) ==
  state[i] # "absent" /\ TransitionAllowed(state[i], target)

\* The WHERE clause of a query for one invoice: its id and the caller's business.
Found(i, business) == state[i] # "absent" /\ Owner[i] = business

\* The WHERE clause of the idempotency lookup, which names no business, and the columns of
\* uq_payment_attempts_invoice_idem_key.
SameKey(r, s) == SameInvoice(r, s) /\ call[r].key = call[s].key

\* Mutant: the request hash is stored and never compared.
SameBodyUnchecked(r, s) == TRUE

\* Equal request_hash: SHA-256 of the card token and nothing else.
SameBody(r, s) == call[r].card = call[s].card

\* The rows with the invoice and idempotency key of r.
AttemptsWithKeyOf(r) == {a \in PayCalls : attempt[a] # "none" /\ SameKey(a, r)}

\* The rows in uq_payment_attempts_one_pending_per_invoice for r's invoice.
PendingOnInvoiceOf(r) ==
  {a \in PayCalls : attempt[a] = "pending" /\ SameInvoice(a, r)}

\* Mutant: a pending attempt gets the default code of a POST.
StatusCodeCreated(status) ==
  CASE status = "succeeded" -> 200
    [] status = "failed"    -> 402
    [] status = "pending"   -> 201

\* Mutant: every attempt that has not failed is a success.
StatusCodeNotFailed(status) == IF status = "failed" THEN 402 ELSE 200

\* pay_invoice maps the status of the attempt to an HTTP code.
StatusCode(status) ==
  CASE status = "succeeded" -> 200
    [] status = "failed"    -> 402
    [] status = "pending"   -> 202

Goto(r, label) ==
  /\ pc' = [pc EXCEPT ![r] = label]
  /\ UNCHANGED reply

Answer(r, code, a) ==
  /\ pc'    = [pc EXCEPT ![r] = "done"]
  /\ reply' = [reply EXCEPT ![r] = [code |-> code, attempt |-> a]]

\* The attempt found under the key of r is served if the bodies agree.
AnswerFrom(r, a) ==
  \/ SameBody(a, r)  /\ Answer(r, StatusCode(attempt[a]), a)
  \/ ~SameBody(a, r) /\ Answer(r, 409, NoOne)

-------------------------------------------------------------------------------
(***************************************************************************)
(* POST /invoices/{id}/pay                                                 *)
(***************************************************************************)

Arrive(r) ==
  /\ pc[r] = "new"
  /\ \/ call[r].key = NoKey /\ Answer(r, 422, NoOne)
     \/ call[r].key # NoKey /\ Goto(r, "lookup")
  /\ UNCHANGED <<state, attempt, lock, psp, call, seen, transitionVars, crashes>>

\* STEP 1: the idempotency lookup, before any lock.
Lookup(r) ==
  /\ pc[r] = "lookup"
  /\ \/ AttemptsWithKeyOf(r) = {} /\ Goto(r, "lock")
     \/ \E a \in AttemptsWithKeyOf(r) : AnswerFrom(r, a)
  /\ UNCHANGED <<state, attempt, lock, psp, call, seen, transitionVars, crashes>>

\* Mutant: the invoice is looked up by its id alone.
LockInvoiceUnscoped(r) ==
  LET i == call[r].invoice IN
  /\ pc[r] = "lock"
  /\ lock[i] = NoOne
  /\ \/ /\ ~MayBecome(i, "paid")
        /\ Answer(r, 422, NoOne)
        /\ UNCHANGED <<lock, seen>>
     \/ /\ MayBecome(i, "paid")
        /\ lock' = [lock EXCEPT ![i] = r]
        /\ seen' = [seen EXCEPT ![r] = state[i]]
        /\ Goto(r, "insert")
  /\ UNCHANGED <<state, attempt, psp, call, transitionVars, crashes>>

\* STEP 2: SELECT ... FOR UPDATE finds an invoice of the caller's business, waits
\* for its row lock and returns the latest committed row, which the session keeps
\* as its Invoice object.  For another business's invoice there is no row to wait for.
LockInvoice(r) ==
  LET i == call[r].invoice IN
  /\ pc[r] = "lock"
  /\ \/ /\ ~Found(i, call[r].business)
        /\ Answer(r, 404, NoOne)
        /\ UNCHANGED <<lock, seen>>
     \/ /\ Found(i, call[r].business)
        /\ lock[i] = NoOne
        /\ ~MayBecome(i, "paid")
        /\ Answer(r, 422, NoOne)
        /\ UNCHANGED <<lock, seen>>
     \/ /\ Found(i, call[r].business)
        /\ lock[i] = NoOne
        /\ MayBecome(i, "paid")
        /\ lock' = [lock EXCEPT ![i] = r]
        /\ seen' = [seen EXCEPT ![r] = state[i]]
        /\ Goto(r, "insert")
  /\ UNCHANGED <<state, attempt, psp, call, transitionVars, crashes>>

\* The row is updated by a transaction that has not committed: a conflicting
\* INSERT waits for that transaction to end.
BeingUpdated(a) == pc[a] = "relock"

\* What the INSERT of r's pending attempt can fail with, in the order PostgreSQL
\* finds it: a value that does not fit its column, which is no IntegrityError, the
\* CHECK, then the indexes as they were made.
DataError(r) == call[r].key \in TooLong \/ call[r].card \in TooLong

AmountViolation(r) == ~DataError(r) /\ call[r].invoice \in ZeroTotal

\* The INSERT gets as far as the indexes.
Valid(r) == ~DataError(r) /\ ~AmountViolation(r)

KeyViolation(r) ==
  /\ Valid(r)
  /\ \E a \in AttemptsWithKeyOf(r) : ~BeingUpdated(a)

PendingViolation(r) ==
  /\ Valid(r)
  /\ AttemptsWithKeyOf(r) = {}
  /\ \E a \in PendingOnInvoiceOf(r) : ~BeingUpdated(a)

\* Mutant: the schema without uq_payment_attempts_one_pending_per_invoice.
NoViolationWithoutIndex(r) ==
  /\ Valid(r)
  /\ AttemptsWithKeyOf(r) = {}

NoViolation(r) ==
  /\ Valid(r)
  /\ AttemptsWithKeyOf(r) = {}
  /\ PendingOnInvoiceOf(r) = {}

\* Mutant: the transaction is not rolled back when the INSERT fails.
InsertPendingNoRollback(r) ==
  /\ pc[r] = "insert"
  /\ \/ /\ AmountViolation(r) \/ KeyViolation(r)
        /\ Goto(r, "refetch")
        /\ UNCHANGED <<attempt, lock>>
     \/ /\ DataError(r)
        /\ Answer(r, 500, NoOne)
        /\ UNCHANGED <<attempt, lock>>
     \/ /\ PendingViolation(r)
        /\ Answer(r, 422, NoOne)
        /\ UNCHANGED <<attempt, lock>>
     \/ /\ NoViolation(r)
        /\ attempt' = [attempt EXCEPT ![r] = "pending"]
        /\ Goto(r, "call")
        /\ lock' = [lock EXCEPT ![call[r].invoice] = NoOne]
  /\ UNCHANGED <<state, psp, call, seen, transitionVars, crashes>>

\* Flush the pending attempt and make commit 1, or roll back.  Either way the
\* row lock on the invoice goes.
InsertPending(r) ==
  /\ pc[r] = "insert"
  /\ \/ /\ AmountViolation(r) \/ KeyViolation(r)
        /\ Goto(r, "refetch")
        /\ UNCHANGED attempt
     \/ /\ DataError(r)
        /\ Answer(r, 500, NoOne)
        /\ UNCHANGED attempt
     \/ /\ PendingViolation(r)
        /\ Answer(r, 422, NoOne)
        /\ UNCHANGED attempt
     \/ /\ NoViolation(r)
        /\ attempt' = [attempt EXCEPT ![r] = "pending"]
        /\ Goto(r, "call")
  /\ lock' = [lock EXCEPT ![call[r].invoice] = NoOne]
  /\ UNCHANGED <<state, psp, call, seen, transitionVars, crashes>>

\* After any violation but that of the pending index, look for a winner.
Refetch(r) ==
  /\ pc[r] = "refetch"
  /\ \/ AttemptsWithKeyOf(r) = {} /\ Answer(r, 409, NoOne)
     \/ \E a \in AttemptsWithKeyOf(r) : AnswerFrom(r, a)
  /\ UNCHANGED <<state, attempt, lock, psp, call, seen, transitionVars, crashes>>

\* STEP 3: the charge request leaves for the processor; no lock is held.
CallPsp(r) ==
  /\ pc[r] = "call"
  /\ psp' = [psp EXCEPT ![r] = "called"]
  /\ Goto(r, "waiting")
  /\ UNCHANGED <<state, attempt, lock, call, seen, transitionVars, crashes>>

\* Mutant: a charge without an answer is recorded as failed.
RecordUnknownAsFailed(r) ==
  /\ pc[r] = "waiting"
  /\ attempt' = [attempt EXCEPT ![r] = "failed"]
  /\ Answer(r, StatusCode("failed"), r)
  /\ UNCHANGED <<state, lock, psp, call, seen, transitionVars, crashes>>

\* STEP 4, no outcome: the request timed out, its connection broke, or the
\* answer has a status >= 400.  It can happen whatever the processor does.
RecordUnknown(r) ==
  /\ pc[r] = "waiting"
  /\ Answer(r, StatusCode(attempt[r]), r)
  /\ UNCHANGED <<state, attempt, lock, psp, call, seen, transitionVars, crashes>>

\* STEP 4, the processor refused the card: commit 2.
RecordFailed(r) ==
  /\ pc[r] = "waiting"
  /\ psp[r] = "refused"
  /\ attempt' = [attempt EXCEPT ![r] = "failed"]
  /\ Answer(r, StatusCode("failed"), r)
  /\ UNCHANGED <<state, lock, psp, call, seen, transitionVars, crashes>>

\* STEP 4, the processor charged the card: autoflush writes the attempt (not
\* yet committed) and the handler queues for the row lock on the invoice.
FlushSucceeded(r) ==
  /\ pc[r] = "waiting"
  /\ psp[r] = "charged"
  /\ Goto(r, "relock")
  /\ UNCHANGED <<state, attempt, lock, psp, call, seen, transitionVars, crashes>>

\* Mutant: the assertion reads a fresh row and its error reaches the caller.
RecordPaidRechecked(r) ==
  LET i == call[r].invoice IN
  /\ pc[r] = "relock"
  /\ lock[i] = NoOne
  /\ \/ /\ MayBecome(i, "paid")
        /\ state'   = [state EXCEPT ![i] = "paid"]
        /\ attempt' = [attempt EXCEPT ![r] = "succeeded"]
        /\ Answer(r, StatusCode("succeeded"), r)
     \/ /\ ~MayBecome(i, "paid")
        /\ Answer(r, 422, NoOne)
        /\ UNCHANGED <<state, attempt>>
  /\ UNCHANGED <<lock, psp, call, seen, transitionVars, crashes>>

\* Mutant: commit 2 saves the invoice and not the attempt.
RecordPaidWithoutAttempt(r) ==
  LET i == call[r].invoice IN
  /\ pc[r] = "relock"
  /\ lock[i] = NoOne
  /\ state' = [state EXCEPT ![i] = "paid"]
  /\ Answer(r, StatusCode("succeeded"), r)
  /\ UNCHANGED <<attempt, lock, psp, call, seen, transitionVars, crashes>>

\* The second SELECT ... FOR UPDATE finds the Invoice object of step 2 in the
\* session's identity map and leaves its attributes alone: the session keeps
\* them over commit 1 (expire_on_commit=False) and the query does not ask for
\* populate_existing.  The assertion reads that object.  Commit 2.
RecordPaid(r) ==
  LET i == call[r].invoice IN
  /\ pc[r] = "relock"
  /\ lock[i] = NoOne
  /\ TransitionAllowed(seen[r], "paid")
  /\ state'   = [state EXCEPT ![i] = "paid"]
  /\ attempt' = [attempt EXCEPT ![r] = "succeeded"]
  /\ Answer(r, StatusCode("succeeded"), r)
  /\ UNCHANGED <<lock, psp, call, seen, transitionVars, crashes>>

\* r holds the invoice and its INSERT waits for s; s waits for the invoice.
DeadlockedOn(r, s) ==
  /\ pc[r] = "insert"
  /\ pc[s] = "relock"
  /\ Valid(r)
  /\ s \in PendingOnInvoiceOf(r)
  /\ AttemptsWithKeyOf(r) \subseteq {s}

\* PostgreSQL breaks the cycle: one transaction fails with an error that is no
\* IntegrityError and that neither the service nor the router catches.
AbortInsert(r, s) ==
  /\ DeadlockedOn(r, s)
  /\ Answer(r, 500, NoOne)
  /\ lock' = [lock EXCEPT ![call[r].invoice] = NoOne]
  /\ UNCHANGED <<state, attempt, psp, call, seen, transitionVars, crashes>>

AbortRecord(r, s) ==
  /\ DeadlockedOn(r, s)
  /\ Answer(s, 500, NoOne)
  /\ UNCHANGED <<state, attempt, lock, psp, call, seen, transitionVars, crashes>>

-------------------------------------------------------------------------------
(***************************************************************************)
(* POST /invoices, and finalize, void and uncollectible                    *)
(***************************************************************************)

CreateInvoice(i) ==
  /\ state[i] = "absent"
  /\ state' = [state EXCEPT ![i] = "draft"]
  /\ UNCHANGED <<attempt, lock, psp, payVars, transitionVars, crashes>>

\* Mutant: transition_invoice_state without assert_transition_allowed.
TransitionReadUnchecked(t) ==
  /\ tpc[t] = "new"
  /\ Found(order[t].invoice, order[t].business)
  /\ tpc' = [tpc EXCEPT ![t] = "write"]
  /\ UNCHANGED <<state, attempt, lock, psp, payVars, order, crashes>>

\* get_invoice is a plain SELECT for an invoice of the caller's business; the
\* assertion runs on what it returned.
TransitionRead(t) ==
  LET i == order[t].invoice
      Allowed == Found(i, order[t].business) /\ MayBecome(i, order[t].target)
  IN
  /\ tpc[t] = "new"
  /\ \/ ~Allowed /\ tpc' = [tpc EXCEPT ![t] = "rejected"]
     \/ Allowed  /\ tpc' = [tpc EXCEPT ![t] = "write"]
  /\ UNCHANGED <<state, attempt, lock, psp, payVars, order, crashes>>

\* UPDATE invoices SET state = target WHERE id = ...: waits for the row lock,
\* then overwrites whatever is there.  Commit.
TransitionWrite(t) ==
  LET i == order[t].invoice IN
  /\ tpc[t] = "write"
  /\ lock[i] = NoOne
  /\ state' = [state EXCEPT ![i] = order[t].target]
  /\ tpc'   = [tpc EXCEPT ![t] = "ok"]
  /\ UNCHANGED <<attempt, lock, psp, payVars, order, crashes>>

-------------------------------------------------------------------------------
(***************************************************************************)
(* The processor and crashes                                               *)
(***************************************************************************)

\* The processor works on a request whether or not the caller still waits.
PspDecides(r) ==
  /\ psp[r] = "called"
  /\ OutlivesCaller(call[r].card) => pc[r] # "waiting"
  /\ psp' = [psp EXCEPT ![r] = Decision(call[r].card)]
  /\ UNCHANGED <<state, attempt, lock, payVars, transitionVars, crashes>>

\* Handlers vanish, their open transactions roll back; commits stay.
Crash ==
  /\ crashes < MaxCrashes
  /\ crashes' = crashes + 1
  /\ pc'   = [r \in PayCalls |->
                IF pc[r] \in {"new", "done"} THEN pc[r] ELSE "lost"]
  /\ tpc'  = [t \in TransitionCalls |->
                IF tpc[t] = "write" THEN "lost" ELSE tpc[t]]
  /\ lock' = [i \in Invoices |-> NoOne]
  /\ UNCHANGED <<state, attempt, psp, call, seen, reply, order>>

-------------------------------------------------------------------------------
(***************************************************************************)
(* Specifications                                                          *)
(***************************************************************************)

\* What the server does for a pay call once it has arrived.
Serve(r) ==
  \/ Lookup(r)
  \/ LockInvoice(r)
  \/ InsertPending(r)
  \/ Refetch(r)
  \/ CallPsp(r)
  \/ RecordUnknown(r)
  \/ RecordFailed(r)
  \/ FlushSucceeded(r)
  \/ RecordPaid(r)

BreakDeadlock(r, s) == AbortInsert(r, s) \/ AbortRecord(r, s)

\* Every call has been made and answered or lost.
AllServed ==
  /\ \A r \in PayCalls : pc[r] \in {"done", "lost"}
  /\ \A t \in TransitionCalls : tpc[t] \in {"ok", "rejected", "lost"}

Terminated == AllServed /\ UNCHANGED vars

Next ==
  \/ \E i \in Invoices : CreateInvoice(i)
  \/ \E t \in TransitionCalls : TransitionRead(t) \/ TransitionWrite(t)
  \/ \E r \in PayCalls : Arrive(r) \/ Serve(r) \/ PspDecides(r)
  \/ \E r, s \in PayCalls : BreakDeadlock(r, s)
  \/ Crash
  \/ Terminated

Spec == Init /\ [][Next]_vars

\* Two finalize calls between their read and their write on one invoice.
SerialFinalize ==
  \A t, u \in TransitionCalls :
     /\ tpc[t] = "write" /\ order[t].target = "open"
     /\ tpc[u] = "write" /\ order[u].target = "open"
     /\ order[t].invoice = order[u].invoice
     => t = u

\* Clients that never have two finalize calls in flight for one invoice.
SpecSerialFinalize == Init /\ [][Next /\ SerialFinalize']_vars

\* A pay call between its first lock on the invoice and its last commit.
Paying(r) == pc[r] \in {"insert", "call", "waiting", "relock"}

\* A transition in flight has the invoice to itself.
ExclusiveTransitions ==
  \A t \in TransitionCalls : tpc[t] = "write" =>
     /\ \A u \in TransitionCalls :
           tpc[u] = "write" /\ order[u].invoice = order[t].invoice => u = t
     /\ \A r \in PayCalls : Paying(r) => call[r].invoice # order[t].invoice

\* Clients that run a transition only while nothing else uses the invoice.
SpecExclusive == Init /\ [][Next /\ ExclusiveTransitions']_vars

\* The server works on every request, the database breaks deadlocks, and the
\* HTTP client gives up after PSP_TIMEOUT_SECONDS (RecordUnknown is in Serve).
\* Clients need not call, the processor need not decide, nothing must crash.
Fairness ==
  /\ \A r \in PayCalls : WF_vars(Serve(r))
  /\ \A r, s \in PayCalls : WF_vars(BreakDeadlock(r, s))
  /\ \A t \in TransitionCalls : WF_vars(TransitionWrite(t))

FairSpec == Spec /\ Fairness

-------------------------------------------------------------------------------
(***************************************************************************)
(* Properties                                                              *)
(***************************************************************************)

\* The partial unique index, the idempotency key and the order of the two
\* commits together let the processor charge an invoice at most once, however
\* many calls, keys, cards, transitions and crashes there are.
NoDoubleCharge ==
  \A r, s \in PayCalls :
     psp[r] = "charged" /\ psp[s] = "charged" /\ SameInvoice(r, s) => r = s

\* The ledger never contradicts the processor: an attempt is final only with
\* the decision it records, and a charged card always has an attempt that says
\* so or is still pending, even if the caller gave up or the service crashed.
LedgerAgreesWithPsp ==
  \A r \in PayCalls :
     /\ attempt[r] = "succeeded" => psp[r] = "charged"
     /\ attempt[r] = "failed"    => psp[r] = "refused"
     /\ psp[r] = "charged"       => attempt[r] \in {"pending", "succeeded"}

\* A paid invoice is settled: the processor was paid through exactly one of its
\* attempts, and no other attempt is still out for it.
PaidIsSettled ==
  \A i \in Invoices : state[i] = "paid" =>
     \E r \in PayCalls :
        /\ call[r].invoice = i
        /\ attempt[r] = "succeeded"
        /\ \A s \in PayCalls :
              s # r /\ SameInvoice(r, s) => attempt[s] \in {"none", "failed"}

\* Calls that share an idempotency key on an invoice and are served an attempt
\* are served the same one, and they asked for the same charge.
IdempotentReplies ==
  \A r, s \in PayCalls :
     /\ reply[r].attempt # NoOne
     /\ reply[s].attempt # NoOne
     /\ SameKey(r, s)
     => reply[r].attempt = reply[s].attempt /\ call[r].card = call[s].card

\* A caller whose card reached the processor is never told that nothing was
\* tried: the answer names its own attempt, or is an internal error.
NoHiddenCharge ==
  \A r \in PayCalls :
     pc[r] = "done" /\ psp[r] # "none"
     => reply[r].attempt = r \/ reply[r].code = 500

\* The HTTP code says what the processor did, for a replayed attempt too: 200
\* after a charge, 402 after a refusal that no later charge can belie.
RepliesMatchPsp ==
  \A r \in PayCalls :
     /\ reply[r].code = 200 => psp[reply[r].attempt] = "charged"
     /\ reply[r].code = 402 => psp[reply[r].attempt] = "refused"

\* invoices.state moves along the documented edges only: draft -> open -> paid,
\* void or uncollectible.  Checked of clients that serialise transitions.
LegalTransitions ==
  [][\A i \in Invoices :
        \/ state'[i] = state[i]
        \/ state[i] = "absent" /\ state'[i] = "draft"
        \/ state[i] = "draft"  /\ state'[i] = "open"
        \/ state[i] = "open"   /\ state'[i] \in TERMINAL_STATES]_vars

\* A customer told 200 has a paid invoice, then and ever after.  Checked of
\* clients that serialise transitions.
SuccessMeansPaid ==
  \A r \in PayCalls :
     reply[r].code = 200 => state[call[r].invoice] = "paid"

\* Every charge of an invoice has a finalize of its own that the server accepted:
\* clients that overlap finalize calls can have a customer charged again, but not
\* more often than they were told that they opened the invoice.
OneChargePerFinalize ==
  \A i \in Invoices :
     Cardinality({r \in PayCalls : call[r].invoice = i /\ psp[r] = "charged"})
       <= Cardinality({t \in TransitionCalls : /\ order[t].invoice = i
                                               /\ order[t].target = "open"
                                               /\ tpc[t] = "ok"})

\* Whatever clients do, an invoice says paid only if the processor charged a card
\* for it and the ledger has that charge.
PaidIsCharged ==
  \A i \in Invoices : state[i] = "paid" =>
     \E r \in PayCalls :
        call[r].invoice = i /\ attempt[r] = "succeeded" /\ psp[r] = "charged"

\* The idempotency lookup names no business, so a call for an invoice of another
\* business can be answered with its attempt.  That is all it can do: it charges
\* nothing, changes nothing, and is told of an attempt only under the key and the card
\* that the owner sent.
StrangersOnlyReplay ==
  /\ \A r \in PayCalls : call[r].business # Owner[call[r].invoice] =>
        /\ attempt[r] = "none" /\ psp[r] = "none"
        /\ reply[r].attempt # NoOne =>
             LET a == reply[r].attempt IN
             /\ SameKey(a, r) /\ SameBody(a, r)
             /\ call[a].business = Owner[call[a].invoice]
  /\ \A t \in TransitionCalls :
        order[t].business # Owner[order[t].invoice] => tpc[t] \in {"new", "rejected"}

\* The handler of r is neither blocked nor at an end.
CanStep(r) ==
  \/ pc[r] \in {"lookup", "refetch", "call", "waiting"}
  \/ pc[r] = "lock"   /\ \/ ~Found(call[r].invoice, call[r].business)
                         \/ lock[call[r].invoice] = NoOne
  \/ pc[r] = "insert" /\ \/ DataError(r)        \/ AmountViolation(r)
                         \/ KeyViolation(r)     \/ PendingViolation(r)
                         \/ NoViolation(r)
  \/ pc[r] = "relock" /\ lock[call[r].invoice] = NoOne
                      /\ TransitionAllowed(seen[r], "paid")

\* It steps, or the database aborts it or the one it waits for.
Moves(r) == CanStep(r) \/ \E s \in PayCalls : DeadlockedOn(r, s)

\* No call waits for one that waits in turn, but where the database ends it: the
\* only circles are those of DeadlockedOn, and the holder of a row lock is never
\* answered, lost or asleep.
EveryWaitEnds ==
  /\ \A r \in PayCalls :
        pc[r] \notin {"new", "done", "lost"} /\ ~Moves(r) =>
          lock[call[r].invoice] # NoOne /\ Moves(lock[call[r].invoice])
  /\ \A t \in TransitionCalls :
        tpc[t] = "write" /\ lock[order[t].invoice] # NoOne =>
          Moves(lock[order[t].invoice])

\* Every pay call the server took up is answered, or lost in a crash: no lock,
\* no conflicting INSERT and no silent processor holds it for ever.
PayAnswered ==
  \A r \in PayCalls : pc[r] = "lookup" ~> pc[r] \in {"done", "lost"}

-------------------------------------------------------------------------------
(***************************************************************************)
(* What it all amounts to                                                  *)
(***************************************************************************)

Money == INSTANCE Collection WITH
  Requests  <- PayCalls,
  invoiceOf <- [r \in PayCalls |-> call[r].invoice],
  ledger    <- attempt,
  charged   <- {r \in PayCalls : psp[r] = "charged"}

\* Two commits, a key, an index, a lock and a processor that may outlive its
\* caller come to this: an invoice is reserved by one attempt at a time, only a
\* reserved attempt is charged, and only a charged one is collected.
ImplementsCollection == Money!Spec

-------------------------------------------------------------------------------
(***************************************************************************)
(* What the repository says and the code does not keep                     *)
(***************************************************************************)

\* The second lock is "Defense in depth against an unlikely concurrent void
\* between commit-1 and now": the charge of a voided invoice is not recorded
\* as a payment of it.
VoidedNeverPaid ==
  [][\A i \in Invoices : state[i] = "void" => state'[i] # "paid"]_vars

\* tests/test_concurrency.py: "All others must be rejected (not 500s)".
NoServerError == \A r \in PayCalls : reply[r].code # 500

\* The docstring of process_payment: "IdempotencyConflict - same key used with
\* a different request body."
ConflictMeansDifferentBody ==
  \A r \in PayCalls : reply[r].code = 409 =>
     \E a \in AttemptsWithKeyOf(r) : ~SameBody(a, r)

===============================================================================
