------------------------ MODULE PaymentServiceProofs ------------------------
(***************************************************************************)
(* The safety of PaymentService, for any number of invoices, calls, keys,  *)
(* cards and crashes.                                                      *)
(*                                                                         *)
(* IInv is inductive for every client (Spec), and AllClientsInv on top of  *)
(* it.  On top of IInv, SerialInv is inductive for clients that do not     *)
(* overlap two finalize calls of one invoice (SpecSerialFinalize), and     *)
(* ExclusiveInv for clients that leave the invoice alone while a           *)
(* transition is in flight (SpecExclusive).                                *)
(***************************************************************************)
EXTENDS PaymentService, FiniteSetTheorems, TLAPS

\* A handler has an attempt once it made commit 1, and has asked the processor
\* once it called it; the second row lock is asked for a charged card only.
HandlerInv ==
  \A r \in PayCalls :
     /\ pc[r] \in {"new", "lookup", "lock", "insert", "refetch"} =>
          attempt[r] = "none" /\ psp[r] = "none"
     /\ pc[r] = "call"    => attempt[r] = "pending" /\ psp[r] = "none"
     /\ pc[r] = "waiting" => attempt[r] = "pending" /\ psp[r] # "none"
     /\ pc[r] = "relock"  => attempt[r] = "pending" /\ psp[r] = "charged"
     /\ psp[r] # "none"   => attempt[r] # "none"

\* The row lock is held between step 2's SELECT and its commit, and while it is
\* held the invoice stays open.
LockInv ==
  /\ \A i \in Invoices : lock[i] # NoOne =>
        pc[lock[i]] = "insert" /\ call[lock[i]].invoice = i /\ state[i] = "open"
  /\ \A r \in PayCalls : pc[r] = "insert" => lock[call[r].invoice] = r

\* uq_payment_attempts_invoice_idem_key.
KeyUnique ==
  \A a, b \in PayCalls :
     attempt[a] # "none" /\ attempt[b] # "none" /\ SameKey(a, b) => a = b

\* uq_payment_attempts_one_pending_per_invoice.
PendingUnique ==
  \A a, b \in PayCalls :
     attempt[a] = "pending" /\ attempt[b] = "pending" /\ SameInvoice(a, b) => a = b

\* What an answer with an attempt says of that attempt.
ReplyInv ==
  \A r \in PayCalls :
     /\ reply[r].attempt # NoOne =>
          /\ attempt[reply[r].attempt] # "none"
          /\ SameKey(reply[r].attempt, r)
          /\ SameBody(reply[r].attempt, r)
     /\ reply[r].code \in {200, 402} => reply[r].attempt # NoOne
     /\ reply[r].code = 200 => attempt[reply[r].attempt] = "succeeded"
     /\ reply[r].code = 402 => attempt[reply[r].attempt] = "failed"

IInv ==
  /\ TypeOK
  /\ HandlerInv
  /\ LockInv
  /\ LedgerAgreesWithPsp
  /\ KeyUnique
  /\ PendingUnique
  /\ ReplyInv
  /\ NoHiddenCharge

\* A transition about to write read a state that still stands in so far as a
\* draft is a draft; an attempt exists only on an invoice that was finalized.
TransitionInv ==
  /\ \A t \in TransitionCalls : tpc[t] = "write" =>
        IF order[t].target = "open"
        THEN state[order[t].invoice] = "draft"
        ELSE state[order[t].invoice] \notin {"absent", "draft"}
  /\ \A r \in PayCalls :
        attempt[r] # "none" => state[call[r].invoice] \notin {"absent", "draft"}

\* A charge that was recorded closed its invoice.
SucceededClosed ==
  \A r \in PayCalls :
     attempt[r] = "succeeded" => state[call[r].invoice] \in TERMINAL_STATES

\* One attempt at most is pending or succeeded.
BlockingUnique ==
  \A a, b \in PayCalls :
     /\ attempt[a] \in {"pending", "succeeded"}
     /\ attempt[b] \in {"pending", "succeeded"}
     /\ SameInvoice(a, b)
     => a = b

PaidHasAttempt ==
  \A i \in Invoices : state[i] = "paid" =>
     \E r \in PayCalls : call[r].invoice = i /\ attempt[r] = "succeeded"

SerialInv ==
  /\ SerialFinalize
  /\ TransitionInv
  /\ SucceededClosed
  /\ BlockingUnique
  /\ PaidHasAttempt

-------------------------------------------------------------------------------
(***************************************************************************)
(* Facts about the pure operators                                          *)
(***************************************************************************)

\* assert_transition_allowed lets exactly the documented edges through.
LEMMA TransitionFacts ==
  ASSUME NEW s \in InvoiceStates
  PROVE  /\ TransitionAllowed(s, "open") <=> s = "draft"
         /\ \A target \in TERMINAL_STATES :
               TransitionAllowed(s, target) <=> s = "open"
BY DEF TransitionAllowed, ALLOWED_TRANSITIONS, TERMINAL_STATES, InvoiceStates

\* Each status of an attempt has a code of its own.
LEMMA StatusCodeFacts ==
  /\ StatusCode("succeeded") = 200
  /\ StatusCode("failed") = 402
  /\ StatusCode("pending") = 202
BY DEF StatusCode

LEMMA DecisionFacts ==
  \A token : Decision(token) \in {"charged", "refused", "error"}
BY DEF Decision

USE DEF PaymentStatus, Codes, Reply, NoReply, InvoiceStates, PayLabels

-------------------------------------------------------------------------------
(***************************************************************************)
(* Types                                                                   *)
(***************************************************************************)

LEMMA TypeInit == Init => TypeOK
BY PaymentAssumption DEF Init, TypeOK

\* An answer keeps the types of pc and reply.
LEMMA AnswerTypes ==
  ASSUME TypeOK, NEW r \in PayCalls, NEW code \in Codes,
         NEW a \in PayCalls \cup {NoOne}, Answer(r, code, a)
  PROVE  pc' \in [PayCalls -> PayLabels] /\ reply' \in [PayCalls -> Reply \cup {NoReply}]
BY DEF TypeOK, Answer

LEMMA AnswerFromTypes ==
  ASSUME TypeOK, NEW r \in PayCalls, NEW a \in AttemptsWithKeyOf(r), AnswerFrom(r, a)
  PROVE  pc' \in [PayCalls -> PayLabels] /\ reply' \in [PayCalls -> Reply \cup {NoReply}]
<1>1. StatusCode(attempt[a]) \in Codes /\ a \in PayCalls
  BY StatusCodeFacts DEF TypeOK, AttemptsWithKeyOf
<1>2. \/ Answer(r, StatusCode(attempt[a]), a)
      \/ Answer(r, 409, NoOne)
  BY DEF AnswerFrom
<1> QED
  BY <1>1, <1>2, AnswerTypes

LEMMA GotoTypes ==
  ASSUME TypeOK, NEW r \in PayCalls, NEW l \in PayLabels, Goto(r, l)
  PROVE  pc' \in [PayCalls -> PayLabels] /\ reply' \in [PayCalls -> Reply \cup {NoReply}]
BY DEF TypeOK, Goto

LEMMA TypeStep == TypeOK /\ HandlerInv /\ [Next]_vars => TypeOK'
<1> SUFFICES ASSUME TypeOK, HandlerInv, [Next]_vars PROVE TypeOK'
  OBVIOUS
<1>1. ASSUME NEW i \in Invoices, CreateInvoice(i) PROVE TypeOK'
  BY <1>1 DEF TypeOK, CreateInvoice, payVars, transitionVars
<1>2. ASSUME NEW t \in TransitionCalls, TransitionRead(t) PROVE TypeOK'
  BY <1>2 DEF TypeOK, TransitionRead, payVars
<1>3. ASSUME NEW t \in TransitionCalls, TransitionWrite(t) PROVE TypeOK'
  BY <1>3 DEF TypeOK, TransitionWrite, payVars, TransitionRequest
<1>4. ASSUME NEW r \in PayCalls, Arrive(r) PROVE TypeOK'
  <2>1. pc' \in [PayCalls -> PayLabels] /\ reply' \in [PayCalls -> Reply \cup {NoReply}]
    BY <1>4, AnswerTypes, GotoTypes DEF Arrive
  <2> QED
    BY <1>4, <2>1 DEF TypeOK, Arrive, transitionVars
<1>5. ASSUME NEW r \in PayCalls, Lookup(r) PROVE TypeOK'
  <2>1. pc' \in [PayCalls -> PayLabels] /\ reply' \in [PayCalls -> Reply \cup {NoReply}]
    BY <1>5, AnswerFromTypes, GotoTypes DEF Lookup
  <2> QED
    BY <1>5, <2>1 DEF TypeOK, Lookup, transitionVars
<1>6. ASSUME NEW r \in PayCalls, LockInvoice(r) PROVE TypeOK'
  <2>1. pc' \in [PayCalls -> PayLabels] /\ reply' \in [PayCalls -> Reply \cup {NoReply}]
    BY <1>6, AnswerTypes, GotoTypes DEF LockInvoice
  <2>2. lock' \in [Invoices -> PayCalls \cup {NoOne}]
    BY <1>6 DEF TypeOK, LockInvoice
  <2>3. seen' \in [PayCalls -> InvoiceStates \cup {"absent"}]
    BY SMTT(40), <1>6 DEF TypeOK, LockInvoice, PayRequest
  <2>4. UNCHANGED <<state, attempt, psp, call, transitionVars, crashes>>
    BY <1>6 DEF LockInvoice
  <2> QED
    BY <2>1, <2>2, <2>3, <2>4 DEF TypeOK, transitionVars
<1>7. ASSUME NEW r \in PayCalls, InsertPending(r) PROVE TypeOK'
  <2>1. pc' \in [PayCalls -> PayLabels] /\ reply' \in [PayCalls -> Reply \cup {NoReply}]
    BY <1>7, AnswerTypes, GotoTypes DEF InsertPending
  <2>2. attempt' \in [PayCalls -> PaymentStatus \cup {"none"}]
    BY <1>7 DEF TypeOK, InsertPending
  <2>3. lock' \in [Invoices -> PayCalls \cup {NoOne}]
    BY ZenonT(60), <1>7 DEF TypeOK, InsertPending
  <2>4. UNCHANGED <<state, psp, call, seen, transitionVars, crashes>>
    BY <1>7 DEF InsertPending
  <2> QED
    BY <2>1, <2>2, <2>3, <2>4 DEF TypeOK, transitionVars
<1>8. ASSUME NEW r \in PayCalls, Refetch(r) PROVE TypeOK'
  <2>1. pc' \in [PayCalls -> PayLabels] /\ reply' \in [PayCalls -> Reply \cup {NoReply}]
    BY <1>8, AnswerFromTypes, AnswerTypes DEF Refetch
  <2> QED
    BY <1>8, <2>1 DEF TypeOK, Refetch, transitionVars
<1>9. ASSUME NEW r \in PayCalls, CallPsp(r) PROVE TypeOK'
  BY <1>9 DEF TypeOK, CallPsp, Goto, transitionVars
<1>10. ASSUME NEW r \in PayCalls, RecordUnknown(r) PROVE TypeOK'
  <2>1. StatusCode(attempt[r]) \in Codes
    BY <1>10, StatusCodeFacts DEF TypeOK, RecordUnknown, HandlerInv
  <2> QED
    BY <1>10, <2>1, AnswerTypes DEF TypeOK, RecordUnknown, transitionVars
<1>11. ASSUME NEW r \in PayCalls, RecordFailed(r) PROVE TypeOK'
  BY <1>11, StatusCodeFacts DEF TypeOK, RecordFailed, Answer, transitionVars
<1>12. ASSUME NEW r \in PayCalls, FlushSucceeded(r) PROVE TypeOK'
  BY <1>12 DEF TypeOK, FlushSucceeded, Goto, transitionVars
<1>13. ASSUME NEW r \in PayCalls, RecordPaid(r) PROVE TypeOK'
  BY <1>13, StatusCodeFacts DEF TypeOK, RecordPaid, Answer, transitionVars, PayRequest
<1>14. ASSUME NEW r \in PayCalls, PspDecides(r) PROVE TypeOK'
  BY <1>14, DecisionFacts DEF TypeOK, PspDecides, payVars, transitionVars
<1>15. ASSUME NEW r \in PayCalls, NEW s \in PayCalls, AbortInsert(r, s) PROVE TypeOK'
  BY <1>15 DEF TypeOK, AbortInsert, Answer, transitionVars, PayRequest
<1>16. ASSUME NEW r \in PayCalls, NEW s \in PayCalls, AbortRecord(r, s) PROVE TypeOK'
  BY <1>16 DEF TypeOK, AbortRecord, Answer, transitionVars
<1>17. CASE Crash
  BY <1>17, PaymentAssumption DEF TypeOK, Crash
<1>18. CASE UNCHANGED vars
  BY <1>18 DEF TypeOK, vars, payVars, transitionVars
<1> QED
  BY <1>1, <1>2, <1>3, <1>4, <1>5, <1>6, <1>7, <1>8, <1>9, <1>10, <1>11, <1>12,
     <1>13, <1>14, <1>15, <1>16, <1>17, <1>18
     DEF Next, Serve, BreakDeadlock, Terminated

-------------------------------------------------------------------------------
(***************************************************************************)
(* The ledger and the processor                                            *)
(***************************************************************************)

\* The steps of a handler before commit 1 or after its last commit: it ends up
\* in "lock", "insert", "refetch" or "done", and no row changes.
LookAround(r) ==
  /\ pc[r] \in {"new", "lookup", "lock", "refetch"}
  /\ \E l \in {"lookup", "lock", "insert", "done"} : pc' = [pc EXCEPT ![r] = l]
  /\ UNCHANGED <<state, attempt, psp, call>>

LEMMA LookAroundSteps ==
  ASSUME NEW r \in PayCalls
  PROVE  Arrive(r) \/ Lookup(r) \/ LockInvoice(r) \/ Refetch(r) => LookAround(r)
BY DEF Arrive, Lookup, LockInvoice, Refetch, LookAround, Goto, Answer, AnswerFrom

LEMMA HandlerStep == TypeOK /\ HandlerInv /\ [Next]_vars => HandlerInv'
<1> SUFFICES ASSUME TypeOK, HandlerInv, [Next]_vars PROVE HandlerInv'
  OBVIOUS
<1>1. ASSUME NEW i \in Invoices, CreateInvoice(i) PROVE HandlerInv'
  BY <1>1 DEF HandlerInv, CreateInvoice, payVars
<1>2. ASSUME NEW t \in TransitionCalls, TransitionRead(t) \/ TransitionWrite(t)
      PROVE  HandlerInv'
  BY <1>2 DEF HandlerInv, TransitionRead, TransitionWrite, payVars
<1>3. ASSUME NEW r \in PayCalls, LookAround(r) PROVE HandlerInv'
  BY <1>3 DEF HandlerInv, LookAround, TypeOK
<1>4. ASSUME NEW r \in PayCalls, InsertPending(r) PROVE HandlerInv'
  BY <1>4 DEF HandlerInv, InsertPending, Goto, Answer, TypeOK
<1>5. ASSUME NEW r \in PayCalls, CallPsp(r) PROVE HandlerInv'
  BY <1>5 DEF HandlerInv, CallPsp, Goto, TypeOK
<1>6. ASSUME NEW r \in PayCalls, RecordUnknown(r) PROVE HandlerInv'
  BY <1>6 DEF HandlerInv, RecordUnknown, Answer, TypeOK
<1>7. ASSUME NEW r \in PayCalls, RecordFailed(r) PROVE HandlerInv'
  BY <1>7 DEF HandlerInv, RecordFailed, Answer, TypeOK
<1>8. ASSUME NEW r \in PayCalls, FlushSucceeded(r) PROVE HandlerInv'
  BY <1>8 DEF HandlerInv, FlushSucceeded, Goto, TypeOK
<1>9. ASSUME NEW r \in PayCalls, RecordPaid(r) PROVE HandlerInv'
  BY <1>9 DEF HandlerInv, RecordPaid, Answer, TypeOK
<1>10. ASSUME NEW r \in PayCalls, PspDecides(r) PROVE HandlerInv'
  BY <1>10, DecisionFacts DEF HandlerInv, PspDecides, payVars, TypeOK
<1>11. ASSUME NEW r \in PayCalls, NEW s \in PayCalls, BreakDeadlock(r, s)
       PROVE  HandlerInv'
  BY <1>11 DEF HandlerInv, BreakDeadlock, AbortInsert, AbortRecord, DeadlockedOn,
               Answer, TypeOK
<1>12. CASE Crash
  BY <1>12 DEF HandlerInv, Crash, TypeOK
<1>13. CASE UNCHANGED vars
  BY <1>13 DEF HandlerInv, vars, payVars
<1> QED
  BY <1>1, <1>2, <1>3, <1>4, <1>5, <1>6, <1>7, <1>8, <1>9, <1>10, <1>11, <1>12,
     <1>13, LookAroundSteps DEF Next, Serve, Terminated

\* The steps that write payment_attempts.
LEMMA AttemptSteps ==
  ASSUME [Next]_vars
  PROVE  \/ UNCHANGED attempt
         \/ \E r \in PayCalls : InsertPending(r) \/ RecordFailed(r) \/ RecordPaid(r)
BY SMTT(40)
  DEF Next, vars, Serve, BreakDeadlock, Terminated, Crash, PspDecides, AbortInsert,
       AbortRecord, CreateInvoice, TransitionRead, TransitionWrite, Arrive, Lookup,
       LockInvoice, Refetch, CallPsp, RecordUnknown, FlushSucceeded

\* The steps that reach the processor or are its own.
LEMMA PspSteps ==
  ASSUME [Next]_vars
  PROVE  \/ UNCHANGED psp
         \/ \E r \in PayCalls : CallPsp(r) \/ PspDecides(r)
BY DEF Next, vars, Serve, BreakDeadlock, Terminated, Crash, RecordPaid, AbortInsert,
       AbortRecord, CreateInvoice, TransitionRead, TransitionWrite, Arrive, Lookup,
       LockInvoice, Refetch, InsertPending, RecordFailed, RecordUnknown, FlushSucceeded

\* The steps that write invoices.
LEMMA StateSteps ==
  ASSUME [Next]_vars
  PROVE  \/ UNCHANGED state
         \/ \E i \in Invoices : CreateInvoice(i)
         \/ \E t \in TransitionCalls : TransitionWrite(t)
         \/ \E r \in PayCalls : RecordPaid(r)
BY DEF Next, vars, Serve, BreakDeadlock, Terminated, Crash, PspDecides, AbortInsert,
       AbortRecord, TransitionRead, Arrive, Lookup, LockInvoice, Refetch, CallPsp,
       InsertPending, RecordFailed, RecordUnknown, FlushSucceeded

\* The requests are what the clients sent.
LEMMA RequestsStay ==
  ASSUME [Next]_vars
  PROVE  call' = call /\ order' = order
BY DEF Next, vars, payVars, transitionVars, Serve, BreakDeadlock, Terminated, Crash,
       PspDecides, AbortInsert, AbortRecord, CreateInvoice, TransitionRead,
       TransitionWrite, Arrive, Lookup, LockInvoice, InsertPending, Refetch, CallPsp,
       RecordUnknown, RecordFailed, FlushSucceeded, RecordPaid

LEMMA LedgerStep ==
  TypeOK /\ HandlerInv /\ LedgerAgreesWithPsp /\ [Next]_vars => LedgerAgreesWithPsp'
<1> SUFFICES ASSUME TypeOK, HandlerInv, LedgerAgreesWithPsp, [Next]_vars
             PROVE  LedgerAgreesWithPsp'
  OBVIOUS
<1>1. CASE UNCHANGED <<attempt, psp>>
  BY <1>1 DEF LedgerAgreesWithPsp
<1>2. ASSUME NEW r \in PayCalls, InsertPending(r) PROVE LedgerAgreesWithPsp'
  BY <1>2 DEF LedgerAgreesWithPsp, HandlerInv, InsertPending, TypeOK
<1>3. ASSUME NEW r \in PayCalls, CallPsp(r) PROVE LedgerAgreesWithPsp'
  BY <1>3 DEF LedgerAgreesWithPsp, HandlerInv, CallPsp, TypeOK
<1>4. ASSUME NEW r \in PayCalls, RecordFailed(r) PROVE LedgerAgreesWithPsp'
  BY <1>4 DEF LedgerAgreesWithPsp, HandlerInv, RecordFailed, TypeOK
<1>5. ASSUME NEW r \in PayCalls, RecordPaid(r) PROVE LedgerAgreesWithPsp'
  BY <1>5 DEF LedgerAgreesWithPsp, HandlerInv, RecordPaid, TypeOK
<1>6. ASSUME NEW r \in PayCalls, PspDecides(r) PROVE LedgerAgreesWithPsp'
  BY <1>6 DEF LedgerAgreesWithPsp, HandlerInv, PspDecides, TypeOK
<1> QED
  BY <1>1, <1>2, <1>3, <1>4, <1>5, <1>6, AttemptSteps, PspSteps

-------------------------------------------------------------------------------
(***************************************************************************)
(* The unique indexes and the row lock                                     *)
(***************************************************************************)

LEMMA KeyUniqueStep == TypeOK /\ HandlerInv /\ KeyUnique /\ [Next]_vars => KeyUnique'
<1> SUFFICES ASSUME TypeOK, HandlerInv, KeyUnique, [Next]_vars PROVE KeyUnique'
  OBVIOUS
<1> USE RequestsStay DEF SameKey, SameInvoice
<1>1. CASE UNCHANGED attempt
  BY <1>1 DEF KeyUnique
<1>2. ASSUME NEW r \in PayCalls, InsertPending(r) PROVE KeyUnique'
  <2>1. CASE UNCHANGED attempt
    BY <1>1, <2>1
  <2>2. CASE NoViolation(r) /\ attempt' = [attempt EXCEPT ![r] = "pending"]
    <3>1. \A a \in PayCalls : SameKey(a, r) => attempt[a] = "none"
      BY <2>2 DEF NoViolation, AttemptsWithKeyOf
    <3>2. \A a \in PayCalls : a # r => attempt'[a] = attempt[a]
      BY <2>2 DEF TypeOK
    <3> SUFFICES ASSUME NEW a \in PayCalls, NEW b \in PayCalls, attempt'[a] # "none",
                        attempt'[b] # "none", SameKey(a, b)
                 PROVE  a = b
      BY DEF KeyUnique
    <3>3. CASE a = r \/ b = r
      BY <3>1, <3>2, <3>3
    <3>4. CASE a # r /\ b # r
      BY <3>2, <3>4 DEF KeyUnique
    <3> QED
      BY <3>3, <3>4
  <2> QED
    BY <1>2, <2>1, <2>2 DEF InsertPending
<1>3. ASSUME NEW r \in PayCalls, RecordFailed(r) \/ RecordPaid(r) PROVE KeyUnique'
  BY <1>3 DEF KeyUnique, HandlerInv, RecordFailed, RecordPaid, TypeOK
<1> QED
  BY <1>1, <1>2, <1>3, AttemptSteps

LEMMA PendingUniqueStep == TypeOK /\ PendingUnique /\ [Next]_vars => PendingUnique'
<1> SUFFICES ASSUME TypeOK, PendingUnique, [Next]_vars PROVE PendingUnique'
  OBVIOUS
<1> USE RequestsStay DEF SameInvoice
<1>1. CASE UNCHANGED attempt
  BY <1>1 DEF PendingUnique
<1>2. ASSUME NEW r \in PayCalls, InsertPending(r) PROVE PendingUnique'
  <2>1. CASE UNCHANGED attempt
    BY <1>1, <2>1
  <2>2. CASE NoViolation(r) /\ attempt' = [attempt EXCEPT ![r] = "pending"]
    <3>1. \A a \in PayCalls : SameInvoice(a, r) => attempt[a] # "pending"
      BY <2>2 DEF NoViolation, PendingOnInvoiceOf
    <3>2. \A a \in PayCalls : a # r => attempt'[a] = attempt[a]
      BY <2>2 DEF TypeOK
    <3> SUFFICES ASSUME NEW a \in PayCalls, NEW b \in PayCalls, attempt'[a] = "pending",
                        attempt'[b] = "pending", SameInvoice(a, b)
                 PROVE  a = b
      BY DEF PendingUnique
    <3>3. CASE a = r \/ b = r
      BY <3>1, <3>2, <3>3
    <3>4. CASE a # r /\ b # r
      BY <3>2, <3>4 DEF PendingUnique
    <3> QED
      BY <3>3, <3>4
  <2> QED
    BY <1>2, <2>1, <2>2 DEF InsertPending
<1>3. ASSUME NEW r \in PayCalls, RecordFailed(r) \/ RecordPaid(r) PROVE PendingUnique'
  BY <1>3 DEF PendingUnique, RecordFailed, RecordPaid, TypeOK
<1> QED
  BY <1>1, <1>2, <1>3, AttemptSteps

LEMMA LockStep == TypeOK /\ LockInv /\ [Next]_vars => LockInv'
<1> SUFFICES ASSUME TypeOK, LockInv, [Next]_vars PROVE LockInv'
  OBVIOUS
<1> USE PaymentAssumption
<1>1. ASSUME NEW i \in Invoices, CreateInvoice(i) PROVE LockInv'
  BY <1>1 DEF LockInv, CreateInvoice, payVars, TypeOK
<1>2. ASSUME NEW t \in TransitionCalls, TransitionRead(t) PROVE LockInv'
  BY <1>2 DEF LockInv, TransitionRead, payVars
<1>3. ASSUME NEW t \in TransitionCalls, TransitionWrite(t) PROVE LockInv'
  BY <1>3 DEF LockInv, TransitionWrite, payVars, TypeOK
<1>4. ASSUME NEW r \in PayCalls, Arrive(r) \/ Lookup(r) \/ Refetch(r) PROVE LockInv'
  BY <1>4 DEF LockInv, Arrive, Lookup, Refetch, Goto, Answer, AnswerFrom, TypeOK
<1>5. ASSUME NEW r \in PayCalls, LockInvoice(r) PROVE LockInv'
  <2>1. CASE UNCHANGED lock /\ \E c \in Codes : Answer(r, c, NoOne)
    BY <1>5, <2>1 DEF LockInv, LockInvoice, Answer, TypeOK
  <2>2. CASE /\ MayBecome(call[r].invoice, "paid")
             /\ lock' = [lock EXCEPT ![call[r].invoice] = r]
             /\ Goto(r, "insert")
    <3>1. state[call[r].invoice] = "open"
      BY SMTT(40), <2>2, TransitionFacts
        DEF MayBecome, TypeOK, TERMINAL_STATES, PayRequest
    <3> QED
      BY <1>5, <2>2, <3>1 DEF LockInv, LockInvoice, Goto, TypeOK, PayRequest
  <2> QED
    BY <1>5, <2>1, <2>2 DEF LockInvoice
<1>6. ASSUME NEW r \in PayCalls, InsertPending(r) PROVE LockInv'
  BY <1>6 DEF LockInv, InsertPending, Goto, Answer, TypeOK
<1>7. ASSUME NEW r \in PayCalls,
             CallPsp(r) \/ RecordUnknown(r) \/ RecordFailed(r) \/ FlushSucceeded(r)
      PROVE  LockInv'
  BY <1>7 DEF LockInv, CallPsp, RecordUnknown, RecordFailed, FlushSucceeded, Goto,
              Answer, TypeOK
<1>8. ASSUME NEW r \in PayCalls, RecordPaid(r) PROVE LockInv'
  BY <1>8 DEF LockInv, RecordPaid, Answer, TypeOK
<1>9. ASSUME NEW r \in PayCalls, PspDecides(r) PROVE LockInv'
  BY <1>9 DEF LockInv, PspDecides, payVars
<1>10. ASSUME NEW r \in PayCalls, NEW s \in PayCalls, BreakDeadlock(r, s) PROVE LockInv'
  BY <1>10 DEF LockInv, BreakDeadlock, AbortInsert, AbortRecord, DeadlockedOn, Answer,
               TypeOK, PayRequest
<1>11. CASE Crash
  BY <1>11 DEF LockInv, Crash, TypeOK
<1>12. CASE UNCHANGED vars
  BY <1>12 DEF LockInv, vars, payVars
<1> QED
  BY <1>1, <1>2, <1>3, <1>4, <1>5, <1>6, <1>7, <1>8, <1>9, <1>10, <1>11, <1>12
     DEF Next, Serve, Terminated

-------------------------------------------------------------------------------
(***************************************************************************)
(* Answers                                                                 *)
(***************************************************************************)

\* An answer taken from the attempt found under the caller's own key.
LEMMA AnswerFromStep ==
  ASSUME TypeOK, ReplyInv, UNCHANGED <<attempt, call>>, NEW r \in PayCalls,
         NEW a \in AttemptsWithKeyOf(r), AnswerFrom(r, a)
  PROVE  ReplyInv'
<1> USE PaymentAssumption DEF SameKey, SameInvoice, SameBody
<1>1. a \in PayCalls /\ attempt[a] \in PaymentStatus /\ SameKey(a, r)
  BY DEF AttemptsWithKeyOf, TypeOK
<1>2. CASE SameBody(a, r) /\ Answer(r, StatusCode(attempt[a]), a)
  BY <1>1, <1>2, StatusCodeFacts DEF ReplyInv, Answer, TypeOK
<1>3. CASE Answer(r, 409, NoOne)
  BY <1>3 DEF ReplyInv, Answer, TypeOK
<1> QED
  BY <1>2, <1>3 DEF AnswerFrom

\* An answer without an attempt.
LEMMA RefusalStep ==
  ASSUME TypeOK, ReplyInv, UNCHANGED <<attempt, call>>, NEW r \in PayCalls,
         NEW code \in {404, 409, 422, 500}, Answer(r, code, NoOne)
  PROVE  ReplyInv'
BY PaymentAssumption DEF SameKey, SameInvoice, SameBody, ReplyInv, Answer, TypeOK

LEMMA ReplyStep == TypeOK /\ HandlerInv /\ ReplyInv /\ [Next]_vars => ReplyInv'
<1> SUFFICES ASSUME TypeOK, HandlerInv, ReplyInv, [Next]_vars PROVE ReplyInv'
  OBVIOUS
<1> USE RequestsStay DEF SameKey, SameInvoice, SameBody
<1>1. CASE UNCHANGED <<attempt, reply>>
  BY <1>1 DEF ReplyInv
<1>2. ASSUME NEW r \in PayCalls, Arrive(r) \/ LockInvoice(r) PROVE ReplyInv'
  BY <1>1, <1>2, RefusalStep DEF Arrive, LockInvoice, Goto
<1>3. ASSUME NEW r \in PayCalls, Lookup(r) \/ Refetch(r) PROVE ReplyInv'
  BY <1>1, <1>3, RefusalStep, AnswerFromStep DEF Lookup, Refetch, Goto
<1>4. ASSUME NEW r \in PayCalls, InsertPending(r) PROVE ReplyInv'
  <2>1. CASE UNCHANGED <<attempt, reply>>
    BY <1>1, <2>1
  <2>2. CASE UNCHANGED attempt /\ (Answer(r, 422, NoOne) \/ Answer(r, 500, NoOne))
    BY <2>2, RefusalStep
  <2>3. CASE attempt' = [attempt EXCEPT ![r] = "pending"] /\ Goto(r, "call")
    BY <1>4, <2>3 DEF InsertPending, Goto, ReplyInv, HandlerInv, TypeOK
  <2> QED
    BY <1>4, <2>1, <2>2, <2>3 DEF InsertPending, Goto
<1>5. ASSUME NEW r \in PayCalls, RecordUnknown(r) PROVE ReplyInv'
  BY <1>5, PaymentAssumption, StatusCodeFacts
     DEF RecordUnknown, Answer, ReplyInv, HandlerInv, TypeOK
<1>6. ASSUME NEW r \in PayCalls, RecordFailed(r) PROVE ReplyInv'
  BY <1>6, PaymentAssumption, StatusCodeFacts
     DEF RecordFailed, Answer, ReplyInv, HandlerInv, TypeOK
<1>7. ASSUME NEW r \in PayCalls, RecordPaid(r) PROVE ReplyInv'
  BY <1>7, PaymentAssumption, StatusCodeFacts
     DEF RecordPaid, Answer, ReplyInv, HandlerInv, TypeOK
<1>8. ASSUME NEW r \in PayCalls, NEW s \in PayCalls, BreakDeadlock(r, s) PROVE ReplyInv'
  BY <1>8, RefusalStep DEF BreakDeadlock, AbortInsert, AbortRecord
<1>9. \/ UNCHANGED <<attempt, reply>>
      \/ \E r \in PayCalls :
            \/ Arrive(r) \/ LockInvoice(r) \/ Lookup(r) \/ Refetch(r) \/ InsertPending(r)
            \/ RecordUnknown(r) \/ RecordFailed(r) \/ RecordPaid(r)
      \/ \E r, s \in PayCalls : BreakDeadlock(r, s)
  BY DEF Next, vars, payVars, Serve, Terminated, Crash, PspDecides, CreateInvoice,
         TransitionRead, TransitionWrite, CallPsp, FlushSucceeded, Goto
<1> QED
  BY <1>1, <1>2, <1>3, <1>4, <1>5, <1>6, <1>7, <1>8, <1>9

LEMMA HiddenStep ==
  TypeOK /\ HandlerInv /\ NoHiddenCharge /\ [Next]_vars => NoHiddenCharge'
<1> SUFFICES ASSUME TypeOK, HandlerInv, NoHiddenCharge, [Next]_vars
             PROVE  NoHiddenCharge'
  OBVIOUS
<1>1. CASE UNCHANGED <<pc, psp, reply>>
  BY <1>1 DEF NoHiddenCharge
<1>2. ASSUME NEW r \in PayCalls,
             Arrive(r) \/ Lookup(r) \/ LockInvoice(r) \/ Refetch(r) \/ InsertPending(r)
      PROVE  NoHiddenCharge'
  BY <1>2 DEF Arrive, Lookup, LockInvoice, Refetch, InsertPending, AnswerFrom, Answer,
              Goto, NoHiddenCharge, HandlerInv, TypeOK
<1>3. ASSUME NEW r \in PayCalls, CallPsp(r) \/ FlushSucceeded(r) PROVE NoHiddenCharge'
  BY <1>3 DEF CallPsp, FlushSucceeded, Goto, NoHiddenCharge, TypeOK
<1>4. ASSUME NEW r \in PayCalls, RecordUnknown(r) \/ RecordFailed(r) \/ RecordPaid(r)
      PROVE  NoHiddenCharge'
  BY <1>4 DEF RecordUnknown, RecordFailed, RecordPaid, Answer, NoHiddenCharge, TypeOK
<1>5. ASSUME NEW r \in PayCalls, PspDecides(r) PROVE NoHiddenCharge'
  BY <1>5 DEF PspDecides, payVars, NoHiddenCharge, TypeOK
<1>6. ASSUME NEW r \in PayCalls, NEW s \in PayCalls, BreakDeadlock(r, s)
      PROVE  NoHiddenCharge'
  <2>1. ASSUME NEW q \in PayCalls, Answer(q, 500, NoOne), UNCHANGED psp
        PROVE  NoHiddenCharge'
    BY <2>1 DEF Answer, NoHiddenCharge, TypeOK
  <2> QED
    BY <1>6, <2>1 DEF BreakDeadlock, AbortInsert, AbortRecord
<1>7. CASE Crash
  BY <1>7 DEF Crash, NoHiddenCharge
<1>8. ASSUME NEW i \in Invoices, CreateInvoice(i) PROVE UNCHANGED <<pc, psp, reply>>
  BY <1>8 DEF CreateInvoice, payVars
<1>9. ASSUME NEW t \in TransitionCalls, TransitionRead(t) \/ TransitionWrite(t)
      PROVE  UNCHANGED <<pc, psp, reply>>
  BY <1>9 DEF TransitionRead, TransitionWrite, payVars
<1>10. UNCHANGED vars => UNCHANGED <<pc, psp, reply>>
  BY DEF vars, payVars
<1> QED
  BY <1>1, <1>2, <1>3, <1>4, <1>5, <1>6, <1>7, <1>8, <1>9, <1>10
     DEF Next, Serve, Terminated

-------------------------------------------------------------------------------
(***************************************************************************)
(* Theorems for every client                                               *)
(***************************************************************************)

LEMMA IInvInit == Init => IInv
<1> SUFFICES ASSUME Init PROVE IInv
  OBVIOUS
<1>1. TypeOK
  BY TypeInit
<1>2. HandlerInv /\ LockInv /\ LedgerAgreesWithPsp /\ KeyUnique /\ PendingUnique
  BY DEF Init, HandlerInv, LockInv, LedgerAgreesWithPsp, KeyUnique, PendingUnique
<1>3. ReplyInv /\ NoHiddenCharge
  BY DEF Init, ReplyInv, NoHiddenCharge
<1> QED
  BY <1>1, <1>2, <1>3 DEF IInv

LEMMA IInvStep == IInv /\ [Next]_vars => IInv'
BY TypeStep, HandlerStep, LockStep, LedgerStep, KeyUniqueStep, PendingUniqueStep,
   ReplyStep, HiddenStep DEF IInv

THEOREM SpecIInv == Spec => []IInv
BY IInvInit, IInvStep, PTL DEF Spec

\* Types, for any number of clients and processor decisions.
THEOREM SpecTypeOK == Spec => []TypeOK
<1>1. IInv => TypeOK
  BY DEF IInv
<1> QED
  BY <1>1, SpecIInv, PTL

\* The ledger never contradicts the processor, whatever transitions race and
\* wherever the service crashes.
THEOREM SpecLedgerAgreesWithPsp == Spec => []LedgerAgreesWithPsp
<1>1. IInv => LedgerAgreesWithPsp
  BY DEF IInv
<1> QED
  BY <1>1, SpecIInv, PTL

\* No caller whose card reached the processor is told that nothing was tried.
THEOREM SpecNoHiddenCharge == Spec => []NoHiddenCharge
<1>1. IInv => NoHiddenCharge
  BY DEF IInv
<1> QED
  BY <1>1, SpecIInv, PTL

\* One idempotency key stands for one attempt in all answers, for one body.
THEOREM SpecIdempotentReplies == Spec => []IdempotentReplies
<1>1. IInv => IdempotentReplies
  <2> SUFFICES ASSUME IInv, NEW r \in PayCalls, NEW s \in PayCalls,
                      reply[r].attempt # NoOne, reply[s].attempt # NoOne, SameKey(r, s)
               PROVE  reply[r].attempt = reply[s].attempt /\ call[r].card = call[s].card
    BY DEF IdempotentReplies
  <2> DEFINE a == reply[r].attempt
             b == reply[s].attempt
  <2>1. a \in PayCalls /\ b \in PayCalls
    BY DEF IInv, TypeOK
  <2>2. /\ attempt[a] # "none" /\ SameKey(a, r) /\ SameBody(a, r)
        /\ attempt[b] # "none" /\ SameKey(b, s) /\ SameBody(b, s)
    BY DEF IInv, ReplyInv
  <2>3. a = b
    BY <2>1, <2>2 DEF IInv, KeyUnique, SameKey, SameInvoice
  <2> QED
    BY <2>2, <2>3 DEF SameBody
<1> QED
  BY <1>1, SpecIInv, PTL

\* 200 means charged and 402 means refused, replays included.
THEOREM SpecRepliesMatchPsp == Spec => []RepliesMatchPsp
<1>1. IInv => RepliesMatchPsp
  BY DEF IInv, TypeOK, ReplyInv, LedgerAgreesWithPsp, RepliesMatchPsp
<1> QED
  BY <1>1, SpecIInv, PTL

-------------------------------------------------------------------------------
(***************************************************************************)
(* More for every client: what charges and waits are bounded by            *)
(***************************************************************************)

\* The steps that move a transition handler.
LEMMA TransitionSteps ==
  ASSUME [Next]_vars
  PROVE  \/ UNCHANGED tpc
         \/ \E t \in TransitionCalls : TransitionRead(t) \/ TransitionWrite(t)
         \/ Crash
BY DEF Next, vars, transitionVars, Serve, BreakDeadlock, Terminated, PspDecides,
       AbortInsert, AbortRecord, CreateInvoice, Arrive, Lookup, LockInvoice,
       InsertPending, Refetch, CallPsp, RecordUnknown, RecordFailed, FlushSucceeded,
       RecordPaid

\* The holder of the row lock finds the invoice open, and so unpaid.
LEMMA HolderFindsOpen ==
  ASSUME IInv, NEW r \in PayCalls, pc[r] = "insert"
  PROVE  state[call[r].invoice] = "open"
BY PaymentAssumption DEF IInv, LockInv, TypeOK, PayRequest

\* From its first lock on, a handler has the invoice in its session as open.
SeenInv ==
  \A r \in PayCalls :
     pc[r] \in {"insert", "call", "waiting", "relock"} => seen[r] = "open"

Succeeded(i) == {r \in PayCalls : call[r].invoice = i /\ attempt[r] = "succeeded"}

Blocking(i) ==
  {r \in PayCalls : call[r].invoice = i /\ attempt[r] \in {"pending", "succeeded"}}

Opened(i) ==
  {t \in TransitionCalls : /\ order[t].invoice = i
                           /\ order[t].target = "open"
                           /\ tpc[t] = "ok"}

\* An attempt that is not failed uses up a finalize; an open invoice has one left
\* besides those of its succeeded attempts.
CountInv ==
  \A i \in Invoices :
     /\ IsFiniteSet(Opened(i))
     /\ IsFiniteSet(Blocking(i))
     /\ Cardinality(Blocking(i)) <= Cardinality(Opened(i))
     /\ state[i] = "open" => Cardinality(Succeeded(i)) < Cardinality(Opened(i))

\* Inductive for every client on top of IInv.
AllClientsInv == SeenInv /\ CountInv /\ PaidHasAttempt

LEMMA SeenStep == TypeOK /\ SeenInv /\ [Next]_vars => SeenInv'
<1> SUFFICES ASSUME TypeOK, SeenInv, [Next]_vars PROVE SeenInv'
  OBVIOUS
<1>1. ASSUME NEW r \in PayCalls, LockInvoice(r) PROVE SeenInv'
  <2>1. CASE UNCHANGED seen /\ \E c \in Codes : Answer(r, c, NoOne)
    BY <1>1, <2>1 DEF SeenInv, Answer, TypeOK
  <2>2. CASE /\ MayBecome(call[r].invoice, "paid")
             /\ seen' = [seen EXCEPT ![r] = state[call[r].invoice]]
             /\ Goto(r, "insert")
    <3>1. state[call[r].invoice] = "open"
      BY SMTT(40), <2>2, TransitionFacts
        DEF MayBecome, TypeOK, TERMINAL_STATES, PayRequest
    <3> QED
      BY <2>2, <3>1 DEF SeenInv, Goto, TypeOK
  <2> QED
    BY <1>1, <2>1, <2>2 DEF LockInvoice
<1>2. ASSUME NEW r \in PayCalls, Arrive(r) \/ Lookup(r) \/ Refetch(r) PROVE SeenInv'
  BY <1>2 DEF SeenInv, Arrive, Lookup, Refetch, Goto, Answer, AnswerFrom, TypeOK
<1>3. ASSUME NEW r \in PayCalls, InsertPending(r) PROVE SeenInv'
  BY <1>3 DEF SeenInv, InsertPending, Goto, Answer, TypeOK
<1>4. ASSUME NEW r \in PayCalls,
             \/ CallPsp(r) \/ RecordUnknown(r) \/ RecordFailed(r) \/ FlushSucceeded(r)
             \/ RecordPaid(r)
      PROVE  SeenInv'
  BY <1>4 DEF SeenInv, CallPsp, RecordUnknown, RecordFailed, FlushSucceeded, RecordPaid,
              Goto, Answer, TypeOK
<1>5. ASSUME NEW r \in PayCalls, NEW s \in PayCalls, BreakDeadlock(r, s) PROVE SeenInv'
  BY <1>5 DEF SeenInv, BreakDeadlock, AbortInsert, AbortRecord, Answer, TypeOK
<1>6. CASE Crash
  BY <1>6 DEF SeenInv, Crash, TypeOK
<1>7. CASE UNCHANGED <<pc, seen>>
  BY <1>7 DEF SeenInv
<1> QED
  BY <1>1, <1>2, <1>3, <1>4, <1>5, <1>6, <1>7
     DEF Next, Serve, Terminated, CreateInvoice, TransitionRead, TransitionWrite,
         PspDecides, vars, payVars

\* A write of a transition adds its handler to Opened, nothing else touches it.
LEMMA OpenedSteps ==
  ASSUME TypeOK, [Next]_vars, NEW i \in Invoices
  PROVE  \/ Opened(i)' = Opened(i)
         \/ \E t \in TransitionCalls :
               /\ TransitionWrite(t)
               /\ order[t].invoice = i
               /\ order[t].target = "open"
               /\ t \notin Opened(i)
               /\ Opened(i)' = Opened(i) \cup {t}
<1>1. order' = order
  BY RequestsStay
<1>2. ASSUME NEW t \in TransitionCalls, TransitionRead(t) PROVE Opened(i)' = Opened(i)
  BY <1>1, <1>2 DEF Opened, TransitionRead, TypeOK
<1>3. ASSUME NEW t \in TransitionCalls, TransitionWrite(t),
             order[t].invoice = i, order[t].target = "open"
      PROVE  t \notin Opened(i) /\ Opened(i)' = Opened(i) \cup {t}
  BY <1>1, <1>3 DEF Opened, TransitionWrite, TypeOK
<1>4. ASSUME NEW t \in TransitionCalls, TransitionWrite(t),
             ~(order[t].invoice = i /\ order[t].target = "open")
      PROVE  Opened(i)' = Opened(i)
  BY <1>1, <1>4 DEF Opened, TransitionWrite, TypeOK
<1>5. CASE Crash
  BY <1>1, <1>5 DEF Opened, Crash, TypeOK
<1>6. CASE UNCHANGED tpc
  BY <1>1, <1>6 DEF Opened
<1> QED
  BY <1>2, <1>3, <1>4, <1>5, <1>6, TransitionSteps

\* An INSERT adds its call to Blocking, and only where nothing is pending.
LEMMA BlockingSteps ==
  ASSUME IInv, [Next]_vars, NEW i \in Invoices
  PROVE  \/ Blocking(i)' \subseteq Blocking(i)
         \/ \E r \in PayCalls :
               /\ InsertPending(r)
               /\ state[i] = "open"
               /\ Blocking(i) = Succeeded(i)
               /\ r \notin Blocking(i)
               /\ Blocking(i)' = Blocking(i) \cup {r}
<1>1. call' = call /\ TypeOK /\ HandlerInv
  BY RequestsStay DEF IInv
<1>2. ASSUME NEW r \in PayCalls, RecordFailed(r) \/ RecordPaid(r)
      PROVE  Blocking(i)' \subseteq Blocking(i)
  BY <1>1, <1>2 DEF Blocking, RecordFailed, RecordPaid, HandlerInv, TypeOK
<1>3. ASSUME NEW r \in PayCalls, InsertPending(r),
             ~(NoViolation(r) /\ call[r].invoice = i)
      PROVE  Blocking(i)' \subseteq Blocking(i)
  BY <1>1, <1>3 DEF Blocking, InsertPending, Goto, Answer, TypeOK,
     AmountViolation, KeyViolation, PendingViolation, NoViolation
<1>4. ASSUME NEW r \in PayCalls, InsertPending(r), NoViolation(r), call[r].invoice = i
      PROVE  /\ state[i] = "open"
             /\ Blocking(i) = Succeeded(i)
             /\ r \notin Blocking(i)
             /\ Blocking(i)' = Blocking(i) \cup {r}
  <2>1. pc[r] = "insert" /\ attempt' = [attempt EXCEPT ![r] = "pending"]
    BY <1>4 DEF InsertPending, Valid, NoViolation, KeyViolation, PendingViolation
  <2>2. state[i] = "open"
    BY <1>4, <2>1, HolderFindsOpen
  <2>3. attempt[r] = "none"
    BY <1>1, <2>1 DEF HandlerInv
  <2>4. \A a \in PayCalls : call[a].invoice = i => attempt[a] # "pending"
    BY <1>4 DEF NoViolation, PendingOnInvoiceOf, SameInvoice
  <2> QED
    BY <1>1, <1>4, <2>1, <2>2, <2>3, <2>4 DEF Blocking, Succeeded, TypeOK
<1>5. CASE UNCHANGED attempt
  BY <1>1, <1>5 DEF Blocking
<1> QED
  BY <1>2, <1>3, <1>4, <1>5, AttemptSteps

\* What a step does to an invoice's state and its succeeded attempts.
LEMMA SucceededSteps ==
  ASSUME IInv, [Next]_vars, NEW i \in Invoices, state'[i] = "open"
  PROVE  /\ Succeeded(i)' \subseteq Succeeded(i)
         /\ \/ state[i] = "open"
            \/ \E t \in TransitionCalls : /\ TransitionWrite(t)
                                          /\ order[t].invoice = i
                                          /\ order[t].target = "open"
<1>1. call' = call /\ TypeOK
  BY RequestsStay DEF IInv
<1>2. Succeeded(i)' \subseteq Succeeded(i)
  <2>1. ASSUME NEW r \in PayCalls, RecordPaid(r) PROVE Succeeded(i)' \subseteq Succeeded(i)
    BY <1>1, <2>1 DEF Succeeded, RecordPaid, TypeOK
  <2>2. ASSUME NEW r \in PayCalls, InsertPending(r) \/ RecordFailed(r)
        PROVE  Succeeded(i)' \subseteq Succeeded(i)
    BY <1>1, <2>2 DEF Succeeded, InsertPending, RecordFailed, TypeOK
  <2>3. CASE UNCHANGED attempt
    BY <1>1, <2>3 DEF Succeeded
  <2> QED
    BY <2>1, <2>2, <2>3, AttemptSteps
<1>3. \/ state[i] = "open"
      \/ \E t \in TransitionCalls : /\ TransitionWrite(t)
                                    /\ order[t].invoice = i
                                    /\ order[t].target = "open"
  BY <1>1, StateSteps DEF CreateInvoice, TransitionWrite, RecordPaid, TypeOK
<1> QED
  BY <1>2, <1>3

\* Counting: B grows by one only while S < O, O grows with every write of "open".
LEMMA CountStep == IInv /\ CountInv /\ [Next]_vars => CountInv'
<1> SUFFICES ASSUME IInv, CountInv, [Next]_vars, NEW i \in Invoices
             PROVE  /\ IsFiniteSet(Opened(i)')
                    /\ IsFiniteSet(Blocking(i)')
                    /\ Cardinality(Blocking(i)') <= Cardinality(Opened(i)')
                    /\ state'[i] = "open" =>
                         Cardinality(Succeeded(i)') < Cardinality(Opened(i)')
  BY DEF CountInv
<1> DEFINE O  == Opened(i)
           B  == Blocking(i)
           S  == Succeeded(i)
           O1 == Opened(i)'
           B1 == Blocking(i)'
           S1 == Succeeded(i)'
<1>1. /\ IsFiniteSet(O) /\ IsFiniteSet(B)
      /\ Cardinality(B) <= Cardinality(O)
      /\ state[i] = "open" => Cardinality(S) < Cardinality(O)
  BY DEF CountInv
<1>2. S \subseteq B
  BY DEF Succeeded, Blocking
<1>3. \/ O1 = O
      \/ \E t \in TransitionCalls : /\ TransitionWrite(t)
                                    /\ order[t].invoice = i /\ order[t].target = "open"
                                    /\ t \notin O
                                    /\ O1 = O \cup {t}
  BY OpenedSteps DEF IInv
<1>4. \/ B1 \subseteq B
      \/ \E r \in PayCalls : /\ InsertPending(r)
                             /\ state[i] = "open"
                             /\ B = S
                             /\ r \notin B
                             /\ B1 = B \cup {r}
  BY BlockingSteps
<1>5. state'[i] = "open" =>
        /\ S1 \subseteq S
        /\ \/ state[i] = "open"
           \/ \E t \in TransitionCalls : /\ TransitionWrite(t)
                                         /\ order[t].invoice = i /\ order[t].target = "open"
  BY SucceededSteps
<1>6. \A t \in TransitionCalls :
         TransitionWrite(t) /\ order[t].invoice = i /\ order[t].target = "open" =>
           \E u \in TransitionCalls : u \notin O /\ O1 = O \cup {u}
  BY RequestsStay DEF Opened, TransitionWrite, IInv, TypeOK
<1> HIDE DEF O, B, S, O1, B1, S1
<1>7. IsFiniteSet(O1) /\ Cardinality(O) \in Nat /\ Cardinality(O1) \in Nat
      /\ \/ O1 = O
         \/ Cardinality(O1) = Cardinality(O) + 1
  BY <1>1, <1>3, FS_AddElement, FS_CardinalityType
<1>8. IsFiniteSet(S) /\ Cardinality(S) \in Nat /\ Cardinality(S) <= Cardinality(B)
      /\ Cardinality(B) \in Nat
  BY <1>1, <1>2, FS_Subset, FS_CardinalityType
<1>9. IsFiniteSet(B1) /\ Cardinality(B1) <= Cardinality(O1)
  <2>1. CASE B1 \subseteq B
    <3>1. IsFiniteSet(B1) /\ Cardinality(B1) <= Cardinality(B) /\ Cardinality(B1) \in Nat
      BY <1>1, <2>1, FS_Subset, FS_CardinalityType
    <3> QED
      BY <1>1, <1>7, <1>8, <3>1
  <2>2. CASE \E r \in PayCalls : /\ state[i] = "open" /\ B = S
                                 /\ r \notin B /\ B1 = B \cup {r}
    <3>1. IsFiniteSet(B1) /\ Cardinality(B1) = Cardinality(B) + 1
      BY <1>1, <2>2, FS_AddElement
    <3> QED
      BY <1>1, <1>7, <1>8, <2>2, <3>1
  <2> QED
    BY <1>4, <2>1, <2>2
<1>10. ASSUME state'[i] = "open" PROVE Cardinality(S1) < Cardinality(O1)
  <2>1. IsFiniteSet(S1) /\ Cardinality(S1) <= Cardinality(S) /\ Cardinality(S1) \in Nat
    BY <1>5, <1>8, <1>10, FS_Subset, FS_CardinalityType
  <2>2. CASE state[i] = "open"
    BY <1>1, <1>7, <1>8, <2>1, <2>2
  <2>3. CASE \E u \in TransitionCalls : u \notin O /\ O1 = O \cup {u}
    <3>1. Cardinality(O1) = Cardinality(O) + 1
      BY <1>1, <2>3, FS_AddElement
    <3> QED
      BY <1>1, <1>7, <1>8, <2>1, <3>1
  <2> QED
    BY <1>5, <1>6, <1>10, <2>2, <2>3
<1> QED
  BY <1>7, <1>9, <1>10 DEF O1, B1, S1

\* The payment of a paid invoice stays in the ledger.
LEMMA PaidHasAttemptStep == IInv /\ PaidHasAttempt /\ [Next]_vars => PaidHasAttempt'
<1> SUFFICES ASSUME IInv, PaidHasAttempt, [Next]_vars,
                    NEW i \in Invoices, state'[i] = "paid"
             PROVE  \E r \in PayCalls :
                       call'[r].invoice = i /\ attempt'[r] = "succeeded"
  BY DEF PaidHasAttempt
<1> USE RequestsStay
<1>a. TypeOK /\ HandlerInv
  BY DEF IInv
<1>1. CASE state[i] = "paid"
  <2>1. PICK r \in PayCalls : call[r].invoice = i /\ attempt[r] = "succeeded"
    BY <1>1 DEF PaidHasAttempt
  <2>2. attempt'[r] = "succeeded"
    BY <1>a, <2>1, AttemptSteps
       DEF InsertPending, RecordFailed, RecordPaid, HandlerInv, TypeOK
  <2> QED
    BY <2>1, <2>2
<1>2. CASE state[i] # "paid"
  <2>1. PICK r \in PayCalls : RecordPaid(r)
    BY <1>a, <1>2, StateSteps DEF CreateInvoice, TransitionWrite, TypeOK,
           TransitionRequest
  <2> QED
    BY <1>a, <1>2, <2>1 DEF RecordPaid, TypeOK
<1> QED
  BY <1>1, <1>2

LEMMA AllClientsInit == Init => AllClientsInv
<1> SUFFICES ASSUME Init PROVE AllClientsInv
  OBVIOUS
<1>1. SeenInv /\ PaidHasAttempt
  BY DEF Init, SeenInv, PaidHasAttempt
<1>2. \A i \in Invoices : Opened(i) = {} /\ Blocking(i) = {} /\ state[i] # "open"
  BY DEF Init, Opened, Blocking
<1>3. CountInv
  BY <1>2, FS_EmptySet DEF CountInv
<1> QED
  BY <1>1, <1>3 DEF AllClientsInv

LEMMA AllClientsStep == IInv /\ AllClientsInv /\ [Next]_vars => AllClientsInv'
BY SeenStep, CountStep, PaidHasAttemptStep DEF AllClientsInv, IInv

THEOREM SpecAllClientsInv == Spec => [](IInv /\ AllClientsInv)
<1>1. Init => IInv /\ AllClientsInv
  BY IInvInit, AllClientsInit
<1>2. IInv /\ AllClientsInv /\ [Next]_vars => (IInv /\ AllClientsInv)'
  BY IInvStep, AllClientsStep
<1> QED
  BY <1>1, <1>2, PTL DEF Spec

\* However finalize calls overlap, each charge of an invoice has one of its own.
THEOREM SpecOneChargePerFinalize == Spec => []OneChargePerFinalize
<1>1. IInv /\ AllClientsInv => OneChargePerFinalize
  <2> SUFFICES ASSUME IInv, CountInv, NEW i \in Invoices
               PROVE  Cardinality({r \in PayCalls : call[r].invoice = i /\ psp[r] = "charged"})
                        <= Cardinality(Opened(i))
    BY DEF OneChargePerFinalize, AllClientsInv, Opened
  <2> DEFINE charged == {r \in PayCalls : call[r].invoice = i /\ psp[r] = "charged"}
  <2>1. charged \subseteq Blocking(i)
    BY DEF IInv, LedgerAgreesWithPsp, Blocking
  <2>2. /\ IsFiniteSet(Blocking(i)) /\ IsFiniteSet(Opened(i))
        /\ Cardinality(Blocking(i)) <= Cardinality(Opened(i))
    BY DEF CountInv
  <2>3. /\ IsFiniteSet(charged)
        /\ Cardinality(charged) <= Cardinality(Blocking(i))
    BY <2>1, <2>2, FS_Subset
  <2> HIDE DEF charged
  <2>4. Cardinality(charged) <= Cardinality(Opened(i))
    BY <2>2, <2>3, FS_CardinalityType
  <2> QED
    BY <2>4 DEF charged
<1> QED
  BY <1>1, SpecAllClientsInv, PTL

\* An invoice is paid only with the money of a charge, whatever clients do.
THEOREM SpecPaidIsCharged == Spec => []PaidIsCharged
<1>1. IInv /\ AllClientsInv => PaidIsCharged
  BY DEF IInv, AllClientsInv, LedgerAgreesWithPsp, PaidHasAttempt, PaidIsCharged
<1> QED
  BY <1>1, SpecAllClientsInv, PTL

\* The holder of a row lock can go on, or waits for an INSERT's rival that waits
\* for it.
LEMMA HolderMoves ==
  ASSUME IInv, NEW h \in PayCalls, pc[h] = "insert"
  PROVE  Moves(h)
<1> DEFINE Ends == \/ DataError(h) \/ AmountViolation(h) \/ KeyViolation(h)
                  \/ PendingViolation(h) \/ NoViolation(h)
<1>1. CASE Ends
  BY <1>1 DEF Moves, CanStep
<1>2. CASE ~Ends
  <2>0. Valid(h)
    BY <1>2 DEF Valid
  <2>1. /\ \A a \in AttemptsWithKeyOf(h) : pc[a] = "relock"
        /\ AttemptsWithKeyOf(h) = {} => \A a \in PendingOnInvoiceOf(h) : pc[a] = "relock"
        /\ AttemptsWithKeyOf(h) # {} \/ PendingOnInvoiceOf(h) # {}
    BY <1>2, <2>0 DEF KeyViolation, PendingViolation, NoViolation, BeingUpdated
  <2>2. \A a \in PayCalls : pc[a] = "relock" => attempt[a] = "pending"
    BY DEF IInv, HandlerInv
  <2>3. AttemptsWithKeyOf(h) \subseteq PendingOnInvoiceOf(h)
    BY <2>1, <2>2 DEF AttemptsWithKeyOf, PendingOnInvoiceOf, SameKey
  <2>4. PICK s \in PendingOnInvoiceOf(h) : pc[s] = "relock"
    BY <2>1, <2>3
  <2>5. AttemptsWithKeyOf(h) \subseteq {s}
    BY <2>3 DEF PendingOnInvoiceOf, SameInvoice, IInv, PendingUnique
  <2>6. s \in PayCalls
    BY DEF PendingOnInvoiceOf
  <2> QED
    BY <2>0, <2>4, <2>5, <2>6 DEF Moves, DeadlockedOn
<1> QED
  BY <1>1, <1>2

\* No chain of waiting calls is longer than one, and no circle of them lasts.
THEOREM SpecEveryWaitEnds == Spec => []EveryWaitEnds
<1>1. IInv /\ AllClientsInv => EveryWaitEnds
  <2> SUFFICES ASSUME IInv, SeenInv PROVE EveryWaitEnds
    BY DEF AllClientsInv
  <2>1. \A i \in Invoices : lock[i] # NoOne => Moves(lock[i])
    BY HolderMoves DEF IInv, LockInv, TypeOK
  <2>2. TransitionAllowed("open", "paid")
    BY TransitionFacts DEF TERMINAL_STATES
  <2>3. ASSUME NEW r \in PayCalls, pc[r] \notin {"new", "done", "lost"}, ~Moves(r)
        PROVE  lock[call[r].invoice] # NoOne
    BY <2>2, <2>3, HolderMoves DEF Moves, CanStep, SeenInv, IInv, TypeOK
  <2> QED
    BY <2>1, <2>3 DEF EveryWaitEnds, IInv, TypeOK, PayRequest, TransitionRequest
<1> QED
  BY <1>1, SpecAllClientsInv, PTL

-------------------------------------------------------------------------------
(***************************************************************************)
(* Callers that name another business's invoice                            *)
(***************************************************************************)

\* The lock query sends them away before they own an attempt, get_invoice before
\* they write.
StrangerInv ==
  /\ \A r \in PayCalls : call[r].business # Owner[call[r].invoice] =>
        pc[r] \in {"new", "lookup", "lock", "done", "lost"} /\ attempt[r] = "none"
  /\ \A t \in TransitionCalls :
        order[t].business # Owner[order[t].invoice] => tpc[t] \in {"new", "rejected"}

LEMMA StrangerStep == IInv /\ StrangerInv /\ [Next]_vars => StrangerInv'
<1> SUFFICES ASSUME IInv, StrangerInv, [Next]_vars PROVE StrangerInv'
  OBVIOUS
<1>a. TypeOK /\ call' = call /\ order' = order
  BY RequestsStay DEF IInv
<1>1. ASSUME NEW r \in PayCalls, call[r].business # Owner[call[r].invoice]
      PROVE  pc'[r] \in {"new", "lookup", "lock", "done", "lost"} /\ attempt'[r] = "none"
  <2>1. pc[r] \in {"new", "lookup", "lock", "done", "lost"} /\ attempt[r] = "none"
    BY <1>1 DEF StrangerInv
  <2> DEFINE Away(p) == p[r] \in {"new", "lookup", "lock", "done", "lost"}
  <2>2. attempt'[r] = "none"
    BY <1>a, <2>1, AttemptSteps DEF InsertPending, RecordFailed, RecordPaid, TypeOK
  <2>3. UNCHANGED pc => Away(pc')
    BY <2>1
  <2>4. ASSUME NEW s \in PayCalls, Arrive(s) \/ Lookup(s) PROVE Away(pc')
    BY <1>a, <2>1, <2>4 DEF Arrive, Lookup, Goto, Answer, AnswerFrom, TypeOK
  <2>5. ASSUME NEW s \in PayCalls, LockInvoice(s) PROVE Away(pc')
    BY <1>1, <1>a, <2>1, <2>5 DEF LockInvoice, Found, Goto, Answer, TypeOK
  <2>6. ASSUME NEW s \in PayCalls, InsertPending(s) \/ Refetch(s) \/ CallPsp(s)
        PROVE  Away(pc')
    BY <1>a, <2>1, <2>6 DEF InsertPending, Refetch, CallPsp, Goto, Answer, AnswerFrom,
       TypeOK
  <2>7. ASSUME NEW s \in PayCalls, \/ RecordUnknown(s) \/ RecordFailed(s)
                                   \/ FlushSucceeded(s) \/ RecordPaid(s)
        PROVE  Away(pc')
    BY <1>a, <2>1, <2>7 DEF RecordUnknown, RecordFailed, FlushSucceeded, RecordPaid, Goto,
       Answer, TypeOK
  <2>8. ASSUME NEW q \in PayCalls, NEW s \in PayCalls, BreakDeadlock(q, s)
        PROVE  Away(pc')
    BY <1>a, <2>1, <2>8 DEF BreakDeadlock, AbortInsert, AbortRecord, Answer, TypeOK
  <2>9. Crash => Away(pc')
    BY <1>a, <2>1 DEF Crash, TypeOK
  <2>10. Away(pc')
    <3> HIDE DEF Away
    <3> QED
      BY <2>3, <2>4, <2>5, <2>6, <2>7, <2>8, <2>9 DEF Next, vars, payVars, Serve,
         CreateInvoice, TransitionRead, TransitionWrite, PspDecides, Terminated
  <2> QED
    BY <2>2, <2>10
<1>2. ASSUME NEW t \in TransitionCalls, order[t].business # Owner[order[t].invoice]
      PROVE  tpc'[t] \in {"new", "rejected"}
  <2>1. tpc[t] \in {"new", "rejected"}
    BY <1>2 DEF StrangerInv
  <2>2. ASSUME NEW u \in TransitionCalls, TransitionRead(u)
        PROVE  tpc'[t] \in {"new", "rejected"}
    BY <1>2, <1>a, <2>1, <2>2 DEF TransitionRead, Found, TypeOK
  <2> QED
    BY <1>a, <2>1, <2>2, TransitionSteps DEF TransitionWrite, Crash, TypeOK
<1> QED
  BY <1>a, <1>1, <1>2 DEF StrangerInv

\* However its calls race with the owner's, a business neither pays nor moves the
\* invoice of another; it can have the owner's answer repeated, and only under the
\* owner's key and card.
THEOREM SpecStrangersOnlyReplay == Spec => []StrangersOnlyReplay
<1>1. Init => StrangerInv
  BY DEF Init, StrangerInv
<1>2. IInv /\ StrangerInv => StrangersOnlyReplay
  <2> SUFFICES ASSUME IInv, StrangerInv PROVE StrangersOnlyReplay
    OBVIOUS
  <2>1. \A a \in PayCalls : attempt[a] # "none" => call[a].business = Owner[call[a].invoice]
    BY DEF StrangerInv
  <2>2. \A r \in PayCalls : call[r].business # Owner[call[r].invoice] =>
           attempt[r] = "none" /\ psp[r] = "none"
    BY DEF StrangerInv, IInv, HandlerInv
  <2>3. \A r \in PayCalls : reply[r].attempt \in PayCalls \cup {NoOne}
    BY DEF IInv, TypeOK
  <2> QED
    BY <2>1, <2>2, <2>3 DEF StrangerInv, IInv, ReplyInv, StrangersOnlyReplay
<1> QED
  BY <1>1, <1>2, StrangerStep, SpecIInv, PTL DEF Spec

-------------------------------------------------------------------------------
(***************************************************************************)
(* Clients that do not overlap finalize calls: an invoice that was settled *)
(* is never reopened, so the pending index covers every charge.            *)
(***************************************************************************)

LEMMA TransitionInvStep ==
  IInv /\ SerialInv /\ [Next]_vars => TransitionInv'
<1> SUFFICES ASSUME IInv, SerialInv, [Next]_vars PROVE TransitionInv'
  OBVIOUS
<1> USE RequestsStay DEF TransitionInv
<1>a. TypeOK /\ HandlerInv /\ TransitionInv
  BY DEF IInv, SerialInv
<1>1. ASSUME NEW i \in Invoices, CreateInvoice(i) PROVE TransitionInv'
  BY <1>a, <1>1 DEF CreateInvoice, transitionVars, TypeOK
<1>2. ASSUME NEW t \in TransitionCalls, TransitionRead(t) PROVE TransitionInv'
  <2>1. CASE MayBecome(order[t].invoice, order[t].target)
    <3>1. IF order[t].target = "open" THEN state[order[t].invoice] = "draft"
                                      ELSE state[order[t].invoice] = "open"
      BY <1>a, <2>1, TransitionFacts DEF MayBecome, TypeOK, TERMINAL_STATES,
         TransitionRequest
    <3> QED
      BY <1>a, <1>2, <3>1 DEF TransitionRead, TypeOK
  <2>2. CASE tpc' = [tpc EXCEPT ![t] = "rejected"]
    BY <1>a, <1>2, <2>2 DEF TransitionRead, TypeOK
  <2> QED
    BY <1>2, <2>1, <2>2 DEF TransitionRead
<1>3. ASSUME NEW t \in TransitionCalls, TransitionWrite(t) PROVE TransitionInv'
  <2>1. /\ state' = [state EXCEPT ![order[t].invoice] = order[t].target]
        /\ tpc' = [tpc EXCEPT ![t] = "ok"]
        /\ UNCHANGED attempt
        /\ tpc[t] = "write"
    BY <1>3 DEF TransitionWrite
  <2>2. CASE order[t].target = "open"
    BY <1>a, <2>1, <2>2 DEF SerialInv, SerialFinalize, TypeOK
  <2>3. CASE order[t].target # "open"
    <3>1. /\ order[t].invoice \in Invoices
          /\ order[t].target \notin {"absent", "draft", "open"}
      BY <1>a, <2>3 DEF TypeOK, TransitionRequest
    <3>2. state \in [Invoices -> InvoiceStates \cup {"absent"}]
      BY <1>a DEF TypeOK
    <3>3. tpc \in [TransitionCalls -> {"new", "write", "ok", "rejected", "lost"}]
      BY <1>a DEF TypeOK
    <3>4. \A u \in TransitionCalls : tpc'[u] = "write" =>
             IF order[u].target = "open"
             THEN state'[order[u].invoice] = "draft"
             ELSE state'[order[u].invoice] \notin {"absent", "draft"}
      BY <1>a, <2>1, <3>1, <3>2, <3>3
    <3>5. \A r \in PayCalls :
             attempt[r] # "none" => state'[call[r].invoice] \notin {"absent", "draft"}
      BY <1>a, <2>1, <3>1, <3>2
    <3> QED
      BY <2>1, <3>4, <3>5
  <2> QED
    BY <2>2, <2>3
<1>4. ASSUME NEW r \in PayCalls, InsertPending(r) PROVE TransitionInv'
  <2>1. state[call[r].invoice] = "open"
    BY <1>4, HolderFindsOpen DEF InsertPending
  <2> QED
    BY <1>a, <1>4, <2>1 DEF InsertPending, transitionVars, TypeOK
<1>5. ASSUME NEW r \in PayCalls, RecordFailed(r) PROVE TransitionInv'
  BY <1>a, <1>5 DEF RecordFailed, HandlerInv, transitionVars, TypeOK
<1>6. ASSUME NEW r \in PayCalls, RecordPaid(r) PROVE TransitionInv'
  BY <1>a, <1>6 DEF RecordPaid, HandlerInv, transitionVars, TypeOK
<1>7. CASE Crash
  BY <1>a, <1>7 DEF Crash, TypeOK
<1>8. CASE UNCHANGED <<state, attempt, tpc>>
  BY <1>a, <1>8
<1> QED
  BY <1>1, <1>2, <1>3, <1>4, <1>5, <1>6, <1>7, <1>8, StateSteps, AttemptSteps,
     TransitionSteps

LEMMA SucceededClosedStep ==
  IInv /\ SerialInv /\ [Next]_vars => SucceededClosed'
<1> SUFFICES ASSUME IInv, SerialInv, [Next]_vars PROVE SucceededClosed'
  OBVIOUS
<1> USE RequestsStay DEF SucceededClosed, TERMINAL_STATES
<1>a. TypeOK /\ TransitionInv /\ SucceededClosed
  BY DEF IInv, SerialInv
<1>1. ASSUME NEW i \in Invoices, CreateInvoice(i) PROVE SucceededClosed'
  BY <1>a, <1>1 DEF CreateInvoice, TypeOK
<1>2. ASSUME NEW t \in TransitionCalls, TransitionWrite(t) PROVE SucceededClosed'
  BY <1>a, <1>2 DEF TransitionWrite, TransitionInv, TypeOK, TransitionRequest
<1>3. ASSUME NEW r \in PayCalls, InsertPending(r) \/ RecordFailed(r)
      PROVE  SucceededClosed'
  BY <1>a, <1>3 DEF InsertPending, RecordFailed, TypeOK
<1>4. ASSUME NEW r \in PayCalls, RecordPaid(r) PROVE SucceededClosed'
  BY <1>a, <1>4 DEF RecordPaid, TypeOK, PayRequest
<1>5. CASE UNCHANGED <<state, attempt>>
  BY <1>a, <1>5
<1> QED
  BY <1>1, <1>2, <1>3, <1>4, <1>5, StateSteps, AttemptSteps

LEMMA BlockingUniqueStep ==
  IInv /\ SerialInv /\ [Next]_vars => BlockingUnique'
<1> SUFFICES ASSUME IInv, SerialInv, [Next]_vars PROVE BlockingUnique'
  OBVIOUS
<1> USE RequestsStay DEF BlockingUnique, SameInvoice
<1>a. TypeOK /\ HandlerInv /\ SucceededClosed /\ BlockingUnique
  BY DEF IInv, SerialInv
<1>1. CASE UNCHANGED attempt
  BY <1>a, <1>1
<1>2. ASSUME NEW r \in PayCalls, InsertPending(r) PROVE BlockingUnique'
  <2>1. CASE NoViolation(r) /\ attempt' = [attempt EXCEPT ![r] = "pending"]
    <3>1. \A a \in PayCalls :
             SameInvoice(a, r) => attempt[a] \notin {"pending", "succeeded"}
      <4>1. state[call[r].invoice] = "open"
        BY <1>2, HolderFindsOpen DEF InsertPending
      <4> QED
        BY <1>a, <2>1, <4>1
           DEF NoViolation, PendingOnInvoiceOf, SucceededClosed, TERMINAL_STATES
    <3> QED
      BY <1>a, <2>1, <3>1 DEF TypeOK
  <2> QED
    BY <1>1, <1>2, <2>1 DEF InsertPending
<1>3. ASSUME NEW r \in PayCalls, RecordFailed(r) \/ RecordPaid(r)
      PROVE  BlockingUnique'
  BY <1>a, <1>3 DEF RecordFailed, RecordPaid, HandlerInv, TypeOK
<1> QED
  BY <1>1, <1>2, <1>3, AttemptSteps

LEMMA SerialInit == Init => SerialInv
BY DEF Init, SerialInv, SerialFinalize, TransitionInv, SucceededClosed, BlockingUnique,
       PaidHasAttempt

LEMMA SerialStep ==
  IInv /\ SerialInv /\ [Next /\ SerialFinalize']_vars => SerialInv'
<1> SUFFICES ASSUME IInv, SerialInv, [Next /\ SerialFinalize']_vars PROVE SerialInv'
  OBVIOUS
<1>1. [Next]_vars
  OBVIOUS
<1>2. SerialFinalize'
  <2>1. CASE UNCHANGED vars
    BY <2>1 DEF SerialInv, SerialFinalize, vars, transitionVars
  <2> QED
    BY <2>1
<1> QED
  BY <1>1, <1>2, TransitionInvStep, SucceededClosedStep, BlockingUniqueStep,
     PaidHasAttemptStep DEF SerialInv

THEOREM SerialSpecInv == SpecSerialFinalize => [](IInv /\ SerialInv)
<1>1. Init => IInv /\ SerialInv
  BY IInvInit, SerialInit
<1>2. IInv /\ SerialInv /\ [Next /\ SerialFinalize']_vars => (IInv /\ SerialInv)'
  BY IInvStep, SerialStep
<1> QED
  BY <1>1, <1>2, PTL DEF SpecSerialFinalize

\* No invoice is charged twice, whatever pay calls, voids and crashes race, if
\* clients do not overlap two finalize calls of it.
THEOREM SerialNoDoubleCharge == SpecSerialFinalize => []NoDoubleCharge
<1>1. IInv /\ SerialInv => NoDoubleCharge
  BY DEF IInv, LedgerAgreesWithPsp, SerialInv, BlockingUnique, NoDoubleCharge
<1> QED
  BY <1>1, SerialSpecInv, PTL

\* Under the same clients a paid invoice has one succeeded attempt, and nothing
\* else is out for it.
THEOREM SerialPaidIsSettled == SpecSerialFinalize => []PaidIsSettled
<1>1. IInv /\ SerialInv => PaidIsSettled
  <2> SUFFICES ASSUME IInv, SerialInv, NEW i \in Invoices, state[i] = "paid"
               PROVE  \E r \in PayCalls :
                         /\ call[r].invoice = i
                         /\ attempt[r] = "succeeded"
                         /\ \A s \in PayCalls : s # r /\ SameInvoice(r, s)
                               => attempt[s] \in {"none", "failed"}
    BY DEF PaidIsSettled
  <2>1. PICK r \in PayCalls : call[r].invoice = i /\ attempt[r] = "succeeded"
    BY DEF SerialInv, PaidHasAttempt
  <2>2. \A s \in PayCalls :
           s # r /\ SameInvoice(r, s) => attempt[s] \in {"none", "failed"}
    BY <2>1 DEF IInv, TypeOK, SerialInv, BlockingUnique
  <2> QED
    BY <2>1, <2>2
<1> QED
  BY <1>1, SerialSpecInv, PTL

-------------------------------------------------------------------------------
(***************************************************************************)
(* Clients that run a transition only while nothing else uses the invoice: *)
(* what a handler read of the invoice is still so when it writes.          *)
(***************************************************************************)

\* A transition that is to write is still allowed.
WriteAllowed ==
  \A t \in TransitionCalls :
     tpc[t] = "write" => MayBecome(order[t].invoice, order[t].target)

\* The invoice stays open while a pay call is between its two commits.
PayingOpen ==
  \A r \in PayCalls :
     pc[r] \in {"call", "waiting", "relock"} => state[call[r].invoice] = "open"

SucceededPaid ==
  \A r \in PayCalls : attempt[r] = "succeeded" => state[call[r].invoice] = "paid"

ExclusiveInv ==
  /\ ExclusiveTransitions
  /\ WriteAllowed
  /\ PayingOpen
  /\ SucceededPaid

\* Under the invariant every write of the state follows an edge.
LegalStep(i) ==
  \/ state'[i] = state[i]
  \/ state[i] = "absent" /\ state'[i] = "draft"
  \/ state[i] = "draft"  /\ state'[i] = "open"
  \/ state[i] = "open"   /\ state'[i] \in TERMINAL_STATES

LEMMA WriteIsLegal ==
  ASSUME IInv, ExclusiveInv, NEW t \in TransitionCalls, TransitionWrite(t)
  PROVE  /\ order[t].target = "open" => state[order[t].invoice] = "draft"
         /\ order[t].target # "open" =>
              state[order[t].invoice] = "open" /\ order[t].target \in TERMINAL_STATES
<1>1. MayBecome(order[t].invoice, order[t].target)
  BY DEF ExclusiveInv, WriteAllowed, TransitionWrite
<1>2. /\ order[t].invoice \in Invoices
      /\ order[t].target \in {"open", "void", "uncollectible"}
      /\ state[order[t].invoice] \in InvoiceStates
  BY <1>1 DEF IInv, TypeOK, MayBecome, TransitionRequest
<1> QED
  BY <1>1, <1>2, TransitionFacts DEF MayBecome, TERMINAL_STATES

LEMMA LegalSteps ==
  ASSUME IInv, ExclusiveInv, [Next]_vars, NEW i \in Invoices
  PROVE  LegalStep(i)
<1>1. ASSUME NEW j \in Invoices, CreateInvoice(j) PROVE LegalStep(i)
  BY <1>1 DEF LegalStep, CreateInvoice, IInv, TypeOK
<1>2. ASSUME NEW t \in TransitionCalls, TransitionWrite(t) PROVE LegalStep(i)
  <2>1. state' = [state EXCEPT ![order[t].invoice] = order[t].target]
    BY <1>2 DEF TransitionWrite
  <2>2. order[t].invoice \in Invoices
    BY DEF IInv, TypeOK, PayRequest, TransitionRequest
  <2>3. CASE i = order[t].invoice
    <3>1. state'[i] = order[t].target
      BY <2>1, <2>3 DEF IInv, TypeOK
    <3> QED
      BY <1>2, <2>3, <3>1, WriteIsLegal DEF LegalStep
  <2>4. CASE i # order[t].invoice
    BY <2>1, <2>4 DEF LegalStep, IInv, TypeOK
  <2> QED
    BY <2>3, <2>4
<1>3. ASSUME NEW r \in PayCalls, RecordPaid(r) PROVE LegalStep(i)
  <2>1. state[call[r].invoice] = "open"
    BY <1>3 DEF RecordPaid, ExclusiveInv, PayingOpen
  <2> QED
    BY <1>3, <2>1 DEF LegalStep, RecordPaid, IInv, TypeOK, TERMINAL_STATES
<1> QED
  BY <1>1, <1>2, <1>3, StateSteps DEF LegalStep

LEMMA WriteAllowedStep ==
  IInv /\ ExclusiveInv /\ [Next]_vars => WriteAllowed'
<1> SUFFICES ASSUME IInv, ExclusiveInv, [Next]_vars, NEW t \in TransitionCalls,
                    tpc'[t] = "write"
             PROVE  MayBecome(order[t].invoice, order[t].target)'
  BY RequestsStay DEF WriteAllowed
<1> USE RequestsStay
<1>a. TypeOK /\ ExclusiveTransitions /\ WriteAllowed
  BY DEF IInv, ExclusiveInv
<1>1. ASSUME UNCHANGED state, MayBecome(order[t].invoice, order[t].target)
      PROVE  MayBecome(order[t].invoice, order[t].target)'
  BY <1>1 DEF MayBecome
<1>2. ASSUME tpc[t] = "write"
      PROVE  /\ MayBecome(order[t].invoice, order[t].target)
             /\ order[t].invoice \in Invoices
             /\ state[order[t].invoice] # "absent"
  BY <1>2, <1>a DEF WriteAllowed, MayBecome, TypeOK, TransitionRequest
<1>3. CASE tpc[t] = "write"
  <2>1. ASSUME state'[order[t].invoice] = state[order[t].invoice]
        PROVE  MayBecome(order[t].invoice, order[t].target)'
    BY <1>2, <1>3, <2>1 DEF MayBecome
  <2>2. ASSUME NEW i \in Invoices, CreateInvoice(i)
        PROVE  state'[order[t].invoice] = state[order[t].invoice]
    BY <1>a, <1>2, <1>3, <2>2 DEF CreateInvoice, TypeOK
  <2>3. ASSUME NEW u \in TransitionCalls, TransitionWrite(u)
        PROVE  state'[order[t].invoice] = state[order[t].invoice]
    <3>1. t # u
      BY <1>a, <2>3 DEF TransitionWrite, TypeOK
    <3> QED
      BY <1>a, <1>3, <2>3, <3>1 DEF TransitionWrite, ExclusiveTransitions, TypeOK
  <2>4. ASSUME NEW r \in PayCalls, RecordPaid(r)
        PROVE  state'[order[t].invoice] = state[order[t].invoice]
    BY <1>a, <1>3, <2>4 DEF RecordPaid, ExclusiveTransitions, Paying, TypeOK
  <2> QED
    BY <2>1, <2>2, <2>3, <2>4, StateSteps
<1>4. CASE tpc[t] # "write"
  <2>1. TransitionRead(t)
    BY <1>a, <1>4, TransitionSteps DEF TransitionRead, TransitionWrite, Crash, TypeOK
  <2> QED
    BY <1>1, <1>a, <2>1 DEF TransitionRead, TypeOK
<1> QED
  BY <1>3, <1>4

LEMMA PayingOpenStep ==
  IInv /\ ExclusiveInv /\ [Next]_vars => PayingOpen'
<1> SUFFICES ASSUME IInv, ExclusiveInv, [Next]_vars PROVE PayingOpen'
  OBVIOUS
<1> USE RequestsStay DEF PayingOpen
<1>a. TypeOK /\ HandlerInv /\ LockInv /\ PendingUnique /\ ExclusiveTransitions
      /\ PayingOpen
  BY DEF IInv, ExclusiveInv
<1>1. ASSUME NEW i \in Invoices, CreateInvoice(i) PROVE PayingOpen'
  BY <1>a, <1>1 DEF CreateInvoice, payVars, TypeOK
<1>2. ASSUME NEW t \in TransitionCalls, TransitionWrite(t) PROVE PayingOpen'
  BY <1>a, <1>2 DEF TransitionWrite, payVars, ExclusiveTransitions, Paying, TypeOK
<1>3. ASSUME NEW r \in PayCalls, RecordPaid(r) PROVE PayingOpen'
  BY <1>a, <1>3 DEF RecordPaid, Answer, HandlerInv, PendingUnique, SameInvoice, TypeOK
<1>4. ASSUME NEW r \in PayCalls, InsertPending(r) PROVE PayingOpen'
  <2>1. state[call[r].invoice] = "open"
    BY <1>4, HolderFindsOpen DEF InsertPending
  <2> QED
    BY <1>a, <1>4, <2>1 DEF InsertPending, Goto, Answer, TypeOK
<1>5. ASSUME NEW r \in PayCalls, CallPsp(r) \/ FlushSucceeded(r) PROVE PayingOpen'
  BY <1>a, <1>5 DEF CallPsp, FlushSucceeded, Goto, TypeOK
<1>6. ASSUME NEW r \in PayCalls, RecordUnknown(r) \/ RecordFailed(r) PROVE PayingOpen'
  BY <1>a, <1>6 DEF RecordUnknown, RecordFailed, Answer, TypeOK
<1>7. ASSUME NEW r \in PayCalls, LookAround(r) PROVE PayingOpen'
  BY <1>a, <1>7 DEF LookAround, TypeOK
<1>8. ASSUME NEW r \in PayCalls, NEW s \in PayCalls, BreakDeadlock(r, s)
      PROVE  PayingOpen'
  BY <1>a, <1>8 DEF BreakDeadlock, AbortInsert, AbortRecord, Answer, TypeOK
<1>9. CASE Crash
  BY <1>a, <1>9 DEF Crash, TypeOK
<1>10. ASSUME NEW r \in PayCalls, PspDecides(r) PROVE PayingOpen'
  BY <1>a, <1>10 DEF PspDecides, payVars
<1>11. ASSUME NEW t \in TransitionCalls, TransitionRead(t) PROVE PayingOpen'
  BY <1>a, <1>11 DEF TransitionRead, payVars
<1>12. CASE UNCHANGED vars
  BY <1>a, <1>12 DEF vars, payVars
<1> QED
  BY <1>1, <1>2, <1>3, <1>4, <1>5, <1>6, <1>7, <1>8, <1>9, <1>10, <1>11, <1>12,
     LookAroundSteps DEF Next, Serve, Terminated

LEMMA SucceededPaidStep ==
  IInv /\ ExclusiveInv /\ [Next]_vars => SucceededPaid'
<1> SUFFICES ASSUME IInv, ExclusiveInv, [Next]_vars PROVE SucceededPaid'
  OBVIOUS
<1> USE RequestsStay DEF SucceededPaid
<1>a. TypeOK /\ SucceededPaid
  BY DEF IInv, ExclusiveInv
<1>1. \A i \in Invoices : state[i] = "paid" => state'[i] = "paid"
  BY LegalSteps DEF LegalStep
<1>2. ASSUME NEW r \in PayCalls, InsertPending(r) \/ RecordFailed(r)
      PROVE  SucceededPaid'
  BY <1>a, <1>1, <1>2 DEF InsertPending, RecordFailed, TypeOK
<1>3. ASSUME NEW r \in PayCalls, RecordPaid(r) PROVE SucceededPaid'
  BY <1>a, <1>1, <1>3 DEF RecordPaid, TypeOK, PayRequest
<1>4. CASE UNCHANGED attempt
  BY <1>a, <1>1, <1>4 DEF TypeOK, PayRequest
<1> QED
  BY <1>2, <1>3, <1>4, AttemptSteps

LEMMA ExclusiveInit == Init => ExclusiveInv
BY DEF Init, ExclusiveInv, ExclusiveTransitions, WriteAllowed, PayingOpen, SucceededPaid

LEMMA ExclusiveStep ==
  IInv /\ ExclusiveInv /\ [Next /\ ExclusiveTransitions']_vars => ExclusiveInv'
<1> SUFFICES ASSUME IInv, ExclusiveInv, [Next /\ ExclusiveTransitions']_vars
             PROVE  ExclusiveInv'
  OBVIOUS
<1>1. [Next]_vars
  OBVIOUS
<1>2. ExclusiveTransitions'
  <2>1. CASE UNCHANGED vars
    BY <2>1 DEF ExclusiveInv, ExclusiveTransitions, Paying, vars, payVars, transitionVars
  <2> QED
    BY <2>1
<1> QED
  BY <1>1, <1>2, WriteAllowedStep, PayingOpenStep, SucceededPaidStep DEF ExclusiveInv

THEOREM ExclusiveSpecInv == SpecExclusive => [](IInv /\ ExclusiveInv)
<1>1. Init => IInv /\ ExclusiveInv
  BY IInvInit, ExclusiveInit
<1>2. IInv /\ ExclusiveInv /\ [Next /\ ExclusiveTransitions']_vars
        => (IInv /\ ExclusiveInv)'
  BY IInvStep, ExclusiveStep
<1> QED
  BY <1>1, <1>2, PTL DEF SpecExclusive

\* A customer told 200 has a paid invoice from then on.
THEOREM ExclusiveSuccessMeansPaid == SpecExclusive => []SuccessMeansPaid
<1>1. IInv /\ ExclusiveInv => SuccessMeansPaid
  BY DEF IInv, TypeOK, ReplyInv, ExclusiveInv, SucceededPaid, SuccessMeansPaid, SameKey,
         SameInvoice
<1> QED
  BY <1>1, ExclusiveSpecInv, PTL

\* invoices.state moves along the documented edges only.
THEOREM ExclusiveLegalTransitions == SpecExclusive => LegalTransitions
<1>1. IInv /\ ExclusiveInv /\ [Next]_vars => \A i \in Invoices : LegalStep(i)
  BY LegalSteps
<1>2. SpecExclusive => [][IInv /\ ExclusiveInv /\ [Next]_vars]_vars
  <2>1. IInv /\ ExclusiveInv /\ [Next /\ ExclusiveTransitions']_vars
          => IInv /\ ExclusiveInv /\ [Next]_vars
    OBVIOUS
  <2> QED
    BY <2>1, ExclusiveSpecInv, PTL DEF SpecExclusive
<1>3. (\A i \in Invoices : LegalStep(i)) =>
        \A i \in Invoices :
          \/ state'[i] = state[i]
          \/ state[i] = "absent" /\ state'[i] = "draft"
          \/ state[i] = "draft"  /\ state'[i] = "open"
          \/ state[i] = "open"   /\ state'[i] \in TERMINAL_STATES
  BY DEF LegalStep
<1> QED
  BY <1>1, <1>2, <1>3, PTL DEF LegalTransitions

-------------------------------------------------------------------------------
(***************************************************************************)
(* The payment path implements Collection                                  *)
(***************************************************************************)

Charged == {r \in PayCalls : psp[r] = "charged"}

\* A step of the ledger is one of Collection's and moves no money.
LEMMA LedgerMoves ==
  ASSUME IInv, SerialInv, IInv', SerialInv', [Next]_vars, attempt' # attempt
  PROVE  Money!Next
<1>1. call' = call
  BY RequestsStay
<1>2. ASSUME NEW r \in PayCalls, InsertPending(r) PROVE Money!Reserve(r)
  <2>1. attempt[r] = "none" /\ attempt' = [attempt EXCEPT ![r] = "pending"] /\ psp' = psp
    BY <1>2 DEF InsertPending, IInv, HandlerInv
  <2>2. ASSUME NEW s \in PayCalls, s # r, call[s].invoice = call[r].invoice
        PROVE  attempt[s] \in {"none", "failed"}
    <3>1. attempt'[r] = "pending" /\ attempt'[s] = attempt[s]
      BY <2>1, <2>2 DEF IInv, TypeOK
    <3>2. ~(attempt'[s] \in {"pending", "succeeded"})
      BY <1>1, <2>2, <3>1 DEF SerialInv, BlockingUnique, SameInvoice
    <3> QED
      BY <3>1, <3>2 DEF IInv, TypeOK
  <2> QED
    BY <1>1, <2>1, <2>2 DEF Money!Reserve, Money!Move
<1>3. ASSUME NEW r \in PayCalls, RecordFailed(r) PROVE Money!Refuse(r)
  BY <1>1, <1>3 DEF RecordFailed, IInv, HandlerInv, Money!Refuse, Money!Move
<1>4. ASSUME NEW r \in PayCalls, RecordPaid(r) PROVE Money!Collect(r)
  BY <1>1, <1>4 DEF RecordPaid, IInv, HandlerInv, Money!Collect, Money!Move
<1> QED
  BY <1>2, <1>3, <1>4, AttemptSteps DEF Money!Next

\* A step of the processor charges a pending attempt or no one.
LEMMA MoneyMoves ==
  ASSUME IInv, [Next]_vars, attempt' = attempt, Charged' # Charged
  PROVE  Money!Next
<1>1. call' = call
  BY RequestsStay
<1>2. \A r \in PayCalls : ~CallPsp(r)
  BY DEF CallPsp, IInv, HandlerInv, TypeOK, Charged
<1>3. PICK r \in PayCalls : PspDecides(r)
  BY <1>2, PspSteps DEF Charged
<1>4. psp[r] = "called" /\ r \notin Charged /\ attempt[r] = "pending"
  BY <1>3 DEF PspDecides, IInv, TypeOK, HandlerInv, LedgerAgreesWithPsp, Charged
<1>5. Charged' = Charged \cup {r}
  BY <1>3 DEF PspDecides, IInv, TypeOK, Charged
<1>6. Money!Charge(r)
  BY <1>1, <1>4, <1>5 DEF Money!Charge, Charged
<1> QED
  BY <1>6 DEF Money!Next

\* For clients that do not overlap two finalize calls of one invoice the whole
\* payment path is a Collection: reserve one attempt at a time, charge only what
\* is reserved, collect only what is charged.
THEOREM SerialImplementsCollection == SpecSerialFinalize => ImplementsCollection
<1>1. Init => Money!Init
  BY DEF Init, Money!Init
<1>2. ASSUME IInv, SerialInv, IInv', SerialInv', [Next /\ SerialFinalize']_vars
      PROVE  [Money!Next]_Money!vars
  <2>1. [Next]_vars
    BY <1>2
  <2>2. CASE attempt' # attempt
    BY <1>2, <2>1, <2>2, LedgerMoves
  <2>3. CASE attempt' = attempt /\ Charged' # Charged
    BY <1>2, <2>1, <2>3, MoneyMoves
  <2>4. CASE attempt' = attempt /\ Charged' = Charged
    BY <2>1, <2>4, RequestsStay DEF Money!vars, Charged
  <2> QED
    BY <2>2, <2>3, <2>4
<1> QED
  BY <1>1, <1>2, SerialSpecInv, PTL
     DEF SpecSerialFinalize, ImplementsCollection, Money!Spec

===============================================================================
