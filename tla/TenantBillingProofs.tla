------------------------- MODULE TenantBillingProofs -------------------------
(***************************************************************************)
(* Safety of payments and outbox together.  A step of the composition is a *)
(* step or a stutter of PaymentService, so what is proved of payments      *)
(* holds here; TellInv adds that a message announces what has happened.    *)
(***************************************************************************)
EXTENDS TenantBilling, PaymentServiceProofs

\* Rows that other rows and handlers refer to are there.
ExistsInv ==
  /\ \A t \in TransitionCalls :
        tpc[t] = "write" => state[order[t].invoice] # "absent"
  /\ \A r \in PayCalls :
        attempt[r] # "none" \/ pc[r] = "insert" => state[call[r].invoice] # "absent"

\* A message announces a change that is durable; only a message is taken.
TellInv ==
  \A e \in Events, p \in Endpoints :
     /\ status[<<e, p>>] # "absent" => Happened(e)
     /\ taken[<<e, p>>] => status[<<e, p>>] # "absent"

BillingInv ==
  /\ IInv
  /\ ExistsInv
  /\ BillingTypeOK
  /\ TellInv

-------------------------------------------------------------------------------
(***************************************************************************)
(* The composition runs PaymentService                                     *)
(***************************************************************************)

LEMMA BillingStepIsPayStep == [BillingNext]_billingVars => [Next]_vars
BY DEF BillingNext, billingVars, CreationFlushed, PaymentFlushed, FailureFlushed,
       ReadEndpoints, InvoiceCreated, PaymentRecorded, FailureRecorded, OutcomeUnknown,
       ChargeKnown, RequestStep, TransitionStep, CrashService,
       Silently, RegisterEndpoint, DeactivateEndpoint, SetEndpoint, Post, SettleBatch,
       Quiescent, Next, Serve, BreakDeadlock

\* Every behaviour of the composition is one of the payment path.
THEOREM BillingRunsPayments == BillingSpec => Spec
BY BillingStepIsPayStep, PTL DEF BillingSpec, BillingInit, Spec

LEMMA BillingSerialRunsPayments == BillingSerialSpec => SpecSerialFinalize
<1>1. [BillingNext /\ SerialFinalize']_billingVars => [Next /\ SerialFinalize']_vars
  BY BillingStepIsPayStep DEF billingVars
<1> QED
  BY <1>1, PTL DEF BillingSerialSpec, BillingInit, SpecSerialFinalize

-------------------------------------------------------------------------------
(***************************************************************************)
(* What each kind of step does to the wire                                 *)
(***************************************************************************)

\* A step reads the endpoints, announces its change, changes payments alone, or moves
\* messages.
LEMMA WireSteps ==
  ASSUME [BillingNext]_billingVars
  PROVE  \/ \E i \in Invoices : CreationFlushed(i)
         \/ \E r \in PayCalls : PaymentFlushed(r) \/ FailureFlushed(r)
         \/ \E i \in Invoices : InvoiceCreated(i)
         \/ \E r \in PayCalls : PaymentRecorded(r) \/ FailureRecorded(r)
         \/ /\ UNCHANGED wireVars
            /\ UNCHANGED readVars \/ readVars' = <<{}, [e \in Events |-> {}]>>
            /\ \/ UNCHANGED <<attempt, state>>
               \/ UNCHANGED state /\ \E r \in PayCalls : InsertPending(r)
               \/ UNCHANGED attempt /\ \E t \in TransitionCalls : TransitionWrite(t)
         \/ /\ UNCHANGED <<attempt, state, readVars>>
            /\ \/ \E m \in Messages, took \in BOOLEAN : Wire!Send(m, took)
               \/ \E delivered, exhausted \in SUBSET Messages :
                     Wire!Settle(delivered, exhausted)
<1>1. ASSUME NEW delivered \in SUBSET Pending,
             NEW exhausted \in SUBSET (Pending \ delivered),
             SettleBatch(delivered, exhausted)
      PROVE  /\ UNCHANGED <<attempt, state, readVars>>
             /\ \E d, x \in SUBSET Messages : Wire!Settle(d, x)
  <2>1. delivered \in SUBSET Messages /\ exhausted \in SUBSET Messages
    BY DEF Pending
  <2> QED
    BY <1>1, <2>1 DEF SettleBatch, vars
<1>2. ASSUME NEW r \in PayCalls, OutcomeUnknown(r) \/ ChargeKnown(r) \/ RequestStep(r)
      PROVE  /\ UNCHANGED <<wireVars, readVars>>
             /\ \/ UNCHANGED <<attempt, state>>
                \/ UNCHANGED state /\ InsertPending(r)
  BY <1>2 DEF OutcomeUnknown, ChargeKnown, RequestStep, Silently, RecordUnknown,
     FlushSucceeded, Arrive, Lookup, LockInvoice, InsertPending, Refetch, CallPsp,
     PspDecides, BreakDeadlock, AbortInsert, AbortRecord
<1>3. ASSUME NEW t \in TransitionCalls, TransitionStep(t)
      PROVE  /\ UNCHANGED <<wireVars, readVars>>
             /\ UNCHANGED attempt
             /\ UNCHANGED state \/ TransitionWrite(t)
  BY <1>3 DEF TransitionStep, Silently, TransitionRead, TransitionWrite
<1>4. CrashService => /\ UNCHANGED <<wireVars, attempt, state>>
                      /\ readVars' = <<{}, [e \in Events |-> {}]>>
  BY DEF CrashService, Crash, readVars
<1>5. ASSUME NEW p \in Endpoints, RegisterEndpoint(p) \/ DeactivateEndpoint(p)
      PROVE  UNCHANGED <<wireVars, readVars, attempt, state>>
  BY <1>5 DEF RegisterEndpoint, DeactivateEndpoint, SetEndpoint, vars
<1>6. ASSUME NEW m \in Messages, NEW took \in BOOLEAN, Post(m, took)
      PROVE  UNCHANGED <<attempt, state, readVars>> /\ Wire!Send(m, took)
  BY <1>6 DEF Post, vars
<1>7. Quiescent \/ UNCHANGED billingVars =>
        UNCHANGED <<wireVars, readVars, attempt, state>>
  BY DEF Quiescent, billingVars, vars
<1> QED
  BY <1>1, <1>2, <1>3, <1>4, <1>5, <1>6, <1>7 DEF BillingNext

LEMMA ExistsStep == IInv /\ ExistsInv /\ [Next]_vars => ExistsInv'
<1> SUFFICES ASSUME IInv, ExistsInv, [Next]_vars PROVE ExistsInv'
  OBVIOUS
<1>1. \A i \in Invoices : state[i] # "absent" => state'[i] # "absent"
  BY StateSteps DEF CreateInvoice, TransitionWrite, RecordPaid, IInv, TypeOK,
         TransitionRequest
<1>2. ASSUME NEW t \in TransitionCalls, tpc'[t] = "write"
      PROVE  state'[order'[t].invoice] # "absent"
  <2>1. order' = order /\ order[t].invoice \in Invoices
    BY RequestsStay DEF IInv, TypeOK, TransitionRequest
  <2>2. state[order[t].invoice] # "absent"
    BY <1>2, TransitionSteps DEF ExistsInv, IInv, TypeOK, TransitionRead,
       TransitionWrite, Crash, MayBecome
  <2> QED
    BY <1>1, <2>1, <2>2
<1>3. ASSUME NEW r \in PayCalls, attempt'[r] # "none" \/ pc'[r] = "insert"
      PROVE  state'[call'[r].invoice] # "absent"
  <2>1. call' = call /\ call[r].invoice \in Invoices
    BY RequestsStay DEF IInv, TypeOK, PayRequest
  <2>2. CASE attempt[r] # "none" \/ pc[r] = "insert"
    BY <1>1, <2>1, <2>2 DEF ExistsInv
  <2>3. CASE pc'[r] = "insert"
    <3>1. LockInv' /\ TypeOK'
      BY IInvStep DEF IInv
    <3>2. lock'[call'[r].invoice] = r
      BY <2>3, <3>1 DEF LockInv
    <3> QED
      BY <2>1, <3>1, <3>2, PaymentAssumption DEF LockInv, TypeOK
  <2>4. CASE attempt[r] = "none" /\ pc[r] # "insert" /\ attempt'[r] # "none"
    BY <2>4, AttemptSteps DEF InsertPending, RecordFailed, RecordPaid, IInv,
       HandlerInv, TypeOK
  <2> QED
    BY <1>3, <2>2, <2>3, <2>4
<1> QED
  BY <1>2, <1>3 DEF ExistsInv

-------------------------------------------------------------------------------
(***************************************************************************)
(* Events and what the database says of them                               *)
(***************************************************************************)

LEMMA EventNames ==
  /\ \A i, j : Created(i) = Created(j) => i = j
  /\ \A r, s : Paid(r) = Paid(s) => r = s
  /\ \A r, s : Failed(r) = Failed(s) => r = s
  /\ \A i, r, s : Created(i) # Paid(r) /\ Created(i) # Failed(s) /\ Paid(r) # Failed(s)
<1>1. /\ \A i : Created(i).event = "invoice.created" /\ Created(i).of = i
      /\ \A r : Paid(r).event = "invoice.paid" /\ Paid(r).of = r
      /\ \A r : Failed(r).event = "invoice.payment_failed" /\ Failed(r).of = r
  BY DEF Created, Paid, Failed
<1> QED
  BY <1>1

\* What the database says of an event, by its kind.
LEMMA EventFacts ==
  /\ \A i \in Invoices : Happened(Created(i)) <=> state[i] # "absent"
  /\ \A r \in PayCalls : Happened(Paid(r)) <=> attempt[r] = "succeeded"
  /\ \A r \in PayCalls : Happened(Failed(r)) <=> attempt[r] = "failed"
  /\ \A i \in Invoices : Happened(Created(i))' <=> state'[i] # "absent"
  /\ \A r \in PayCalls : Happened(Paid(r))' <=> attempt'[r] = "succeeded"
  /\ \A r \in PayCalls : Happened(Failed(r))' <=> attempt'[r] = "failed"
BY DEF Happened, Created, Paid, Failed

\* A change makes its own event happen and no other.
LEMMA OnlyCreated ==
  ASSUME IInv, NEW i \in Invoices, CreateInvoice(i), NEW e \in Events
  PROVE  (Happened(e)' <=> Happened(e) \/ e = Created(i)) /\ ~Happened(Created(i))
<1>1. /\ state[i] = "absent"
      /\ \A j \in Invoices : state'[j] # "absent" <=> state[j] # "absent" \/ j = i
      /\ attempt' = attempt
  BY DEF CreateInvoice, IInv, TypeOK
<1> QED
  BY <1>1, EventFacts, EventNames DEF Events

LEMMA OnlyPaid ==
  ASSUME IInv, ExistsInv, NEW r \in PayCalls, RecordPaid(r), NEW e \in Events
  PROVE  (Happened(e)' <=> Happened(e) \/ e = Paid(r)) /\ ~Happened(Paid(r))
<1>1. attempt[r] = "pending" /\ state[call[r].invoice] # "absent"
  BY DEF RecordPaid, IInv, HandlerInv, ExistsInv
<1>2. \A s \in PayCalls :
         /\ attempt'[s] = "succeeded" <=> attempt[s] = "succeeded" \/ s = r
         /\ attempt'[s] = "failed" <=> attempt[s] = "failed"
  BY <1>1 DEF RecordPaid, IInv, TypeOK
<1>3. \A j \in Invoices : state'[j] # "absent" <=> state[j] # "absent"
  BY <1>1 DEF RecordPaid, IInv, TypeOK
<1> QED
  BY <1>1, <1>2, <1>3, EventFacts, EventNames DEF Events

LEMMA OnlyFailed ==
  ASSUME IInv, NEW r \in PayCalls, RecordFailed(r), NEW e \in Events
  PROVE  (Happened(e)' <=> Happened(e) \/ e = Failed(r)) /\ ~Happened(Failed(r))
<1>1. attempt[r] = "pending" /\ state' = state
  BY DEF RecordFailed, IInv, HandlerInv
<1>2. \A s \in PayCalls :
         /\ attempt'[s] = "succeeded" <=> attempt[s] = "succeeded"
         /\ attempt'[s] = "failed" <=> attempt[s] = "failed" \/ s = r
  BY <1>1 DEF RecordFailed, IInv, TypeOK
<1> QED
  BY <1>1, <1>2, EventFacts, EventNames DEF Events

LEMMA NothingHappens ==
  ASSUME IInv, ExistsInv, NEW e \in Events,
         \/ UNCHANGED <<attempt, state>>
         \/ UNCHANGED state /\ \E r \in PayCalls : InsertPending(r)
         \/ UNCHANGED attempt /\ \E t \in TransitionCalls : TransitionWrite(t)
  PROVE  Happened(e)' <=> Happened(e)
<1>1. CASE UNCHANGED <<attempt, state>>
  BY <1>1 DEF Happened, Events, Created, Paid, Failed
<1>2. ASSUME NEW r \in PayCalls, InsertPending(r), UNCHANGED state
      PROVE  Happened(e)' <=> Happened(e)
  <2>1. attempt[r] = "none" /\ (attempt' = attempt \/ attempt' = [attempt EXCEPT ![r] = "pending"])
    BY <1>2 DEF InsertPending, IInv, HandlerInv
  <2> QED
    BY <1>2, <2>1 DEF IInv, TypeOK, Happened, Events, Created, Paid, Failed
<1>3. ASSUME NEW t \in TransitionCalls, TransitionWrite(t), UNCHANGED attempt
      PROVE  Happened(e)' <=> Happened(e)
  <2>1. /\ state[order[t].invoice] # "absent"
        /\ state' = [state EXCEPT ![order[t].invoice] = order[t].target]
        /\ order[t].target # "absent"
    BY <1>3 DEF TransitionWrite, ExistsInv, IInv, TypeOK, TransitionRequest
  <2> QED
    BY <1>3, <2>1 DEF IInv, TypeOK, Happened, Events, Created, Paid, Failed
<1> QED
  BY <1>1, <1>2, <1>3

\* enqueue_event puts in the event it is given, for the endpoints it has read.
LEMMA EnqueueFacts ==
  ASSUME NEW e \in Events, targets[e] \subseteq Endpoints, EnqueueEvent(e),
         NEW f \in Events, NEW p \in Endpoints
  PROVE  /\ status'[<<f, p>>] = IF f = e /\ p \in targets[e] THEN "pending"
                                ELSE status[<<f, p>>]
         /\ f = e /\ p \in targets[e] => status[<<f, p>>] = "absent"
         /\ taken' = taken
<1>1. <<f, p>> \in Messages /\
      (<<f, p>> \in {e} \X targets[e] <=> f = e /\ p \in targets[e])
  BY DEF Messages
<1> QED
  BY <1>1 DEF EnqueueEvent, Wire!Enqueue

\* What a step may do for one endpoint's message of one event.
Told(e, p) ==
  /\ e \in reading' \ reading =>
       ~Happened(e) /\ (p \in targets'[e] <=> endpoint[p] = "active")
  /\ e \in reading' \cap reading => (p \in targets'[e] <=> p \in targets[e])
  /\ ~Happened(e) /\ Happened(e)' => e \in reading
  /\ status[<<e, p>>] = "absent" /\ status'[<<e, p>>] # "absent"
     <=> ~Happened(e) /\ Happened(e)' /\ p \in targets[e]

\* The three steps of an announcement: its event happens in it, and is told to
\* the endpoints that were read.
LEMMA Announcement ==
  ASSUME BillingInv, NEW e \in Events, EnqueueEvent(e), ~Happened(e),
         \A f \in Events : Happened(f)' <=> Happened(f) \/ f = e
  PROVE  TellInv' /\ \A f \in Events, p \in Endpoints : Told(f, p)
<1> SUFFICES ASSUME NEW f \in Events, NEW p \in Endpoints
             PROVE  /\ status'[<<f, p>>] # "absent" => Happened(f)'
                    /\ taken'[<<f, p>>] => status'[<<f, p>>] # "absent"
                    /\ Told(f, p)
  BY DEF TellInv
<1>1. /\ targets[e] \subseteq Endpoints
      /\ e \in reading /\ reading' = reading \ {e}
      /\ f # e => targets'[f] = targets[f]
  BY DEF EnqueueEvent, BillingInv, BillingTypeOK
<1>2. /\ status'[<<f, p>>] = IF f = e /\ p \in targets[e] THEN "pending"
                             ELSE status[<<f, p>>]
      /\ f = e /\ p \in targets[e] => status[<<f, p>>] = "absent"
      /\ taken' = taken
  BY <1>1, EnqueueFacts
<1>3. /\ status[<<f, p>>] # "absent" => Happened(f)
      /\ taken[<<f, p>>] => status[<<f, p>>] # "absent"
  BY DEF BillingInv, TellInv
<1>4. Told(f, p)
  BY <1>1, <1>2, <1>3 DEF Told
<1> QED
  BY <1>2, <1>3, <1>4

\* A step without an event changes nothing that a message says, and reads nothing.
LEMMA Silence ==
  ASSUME BillingInv,
         UNCHANGED readVars \/ readVars' = <<{}, [e \in Events |-> {}]>>,
         \A f \in Events : Happened(f)' <=> Happened(f),
         \A m \in Messages : status'[m] = "absent" <=> status[m] = "absent",
         \A m \in Messages : taken'[m] => taken[m] \/ status[m] # "absent"
  PROVE  TellInv' /\ \A f \in Events, p \in Endpoints : Told(f, p)
<1>1. \A f \in Events, p \in Endpoints : <<f, p>> \in Messages
  BY DEF Messages
<1>2. TellInv'
  BY <1>1 DEF BillingInv, TellInv
<1>3. \A f \in Events : f \in reading' =>
         f \in reading /\ targets'[f] = targets[f]
  BY DEF readVars
<1> QED
  BY <1>1, <1>2, <1>3 DEF Told

\* A transaction reads the endpoints before the change it announces.
LEMMA ReadFacts ==
  ASSUME BillingInv,
         \/ \E i \in Invoices : CreationFlushed(i)
         \/ \E r \in PayCalls : PaymentFlushed(r) \/ FailureFlushed(r)
  PROVE  \E e \in Events : ReadEndpoints(e) /\ ~Happened(e)
<1>1. ASSUME NEW i \in Invoices, CreationFlushed(i)
      PROVE  \E e \in Events : ReadEndpoints(e) /\ ~Happened(e)
  BY <1>1, EventFacts DEF CreationFlushed, Events
<1>2. ASSUME NEW r \in PayCalls, PaymentFlushed(r)
      PROVE  \E e \in Events : ReadEndpoints(e) /\ ~Happened(e)
  BY <1>2, EventFacts DEF PaymentFlushed, BillingInv, IInv, HandlerInv, Events
<1>3. ASSUME NEW r \in PayCalls, FailureFlushed(r)
      PROVE  \E e \in Events : ReadEndpoints(e) /\ ~Happened(e)
  BY <1>3, EventFacts DEF FailureFlushed, BillingInv, IInv, HandlerInv, Events
<1> QED
  BY <1>1, <1>2, <1>3

LEMMA Reading ==
  ASSUME BillingInv, NEW e \in Events, ReadEndpoints(e), ~Happened(e)
  PROVE  TellInv' /\ \A f \in Events, p \in Endpoints : Told(f, p)
<1>1. /\ reading' = reading \cup {e}
      /\ targets' = [targets EXCEPT ![e] = ActiveEndpoints]
      /\ UNCHANGED <<attempt, state, status, taken>>
  BY DEF ReadEndpoints, vars, wireVars
<1>2. \A f \in Events : Happened(f)' <=> Happened(f)
  BY <1>1, NothingHappens DEF BillingInv
<1>3. \A f \in Events : targets'[f] = IF f = e THEN ActiveEndpoints ELSE targets[f]
  BY <1>1 DEF BillingInv, BillingTypeOK
<1>4. TellInv'
  BY <1>1, <1>2 DEF BillingInv, TellInv
<1>5. \A p \in Endpoints : p \in ActiveEndpoints <=> endpoint[p] = "active"
  BY DEF ActiveEndpoints
<1> QED
  BY <1>1, <1>2, <1>3, <1>4, <1>5 DEF Told, ReadEndpoints

\* The worker and the receivers announce nothing.
LEMMA WorkerIsSilent ==
  ASSUME BillingInv, UNCHANGED <<attempt, state>>,
         \/ UNCHANGED wireVars
         \/ \E m \in Messages, took \in BOOLEAN : Wire!Send(m, took)
         \/ \E delivered, exhausted \in SUBSET Messages : Wire!Settle(delivered, exhausted)
  PROVE  /\ \A m \in Messages : status'[m] = "absent" <=> status[m] = "absent"
         /\ \A m \in Messages : taken'[m] => taken[m] \/ status[m] # "absent"
BY DEF wireVars, Wire!Send, Wire!Settle, BillingInv, BillingTypeOK

LEMMA TellStep ==
  ASSUME BillingInv, [BillingNext]_billingVars
  PROVE  TellInv' /\ \A f \in Events, p \in Endpoints : Told(f, p)
<1> USE DEF BillingInv
<1> DEFINE Goal == TellInv' /\ \A f \in Events, p \in Endpoints : Told(f, p)
<1>1. ASSUME NEW i \in Invoices, InvoiceCreated(i) PROVE Goal
  <2>1. Created(i) \in Events
    BY DEF Events
  <2> QED
    BY <1>1, <2>1, OnlyCreated, Announcement DEF InvoiceCreated
<1>2. ASSUME NEW r \in PayCalls, PaymentRecorded(r) PROVE Goal
  <2>1. Paid(r) \in Events
    BY DEF Events
  <2> QED
    BY <1>2, <2>1, OnlyPaid, Announcement DEF PaymentRecorded
<1>3. ASSUME NEW r \in PayCalls, FailureRecorded(r) PROVE Goal
  <2>1. Failed(r) \in Events
    BY DEF Events
  <2> QED
    BY <1>3, <2>1, OnlyFailed, Announcement DEF FailureRecorded
<1>4. ASSUME /\ UNCHANGED wireVars
             /\ UNCHANGED readVars \/ readVars' = <<{}, [e \in Events |-> {}]>>
             /\ \/ UNCHANGED <<attempt, state>>
                \/ UNCHANGED state /\ \E r \in PayCalls : InsertPending(r)
                \/ UNCHANGED attempt /\ \E t \in TransitionCalls : TransitionWrite(t)
      PROVE  Goal
  <2>1. \A f \in Events : Happened(f)' <=> Happened(f)
    BY <1>4, NothingHappens
  <2> QED
    BY <1>4, <2>1, Silence DEF wireVars
<1>5. ASSUME /\ UNCHANGED <<attempt, state, readVars>>
             /\ \/ \E m \in Messages, took \in BOOLEAN : Wire!Send(m, took)
                \/ \E delivered, exhausted \in SUBSET Messages :
                      Wire!Settle(delivered, exhausted)
      PROVE  Goal
  <2>1. \A f \in Events : Happened(f)' <=> Happened(f)
    BY <1>5, NothingHappens
  <2> QED
    BY <1>5, <2>1, WorkerIsSilent, Silence
<1>6. ASSUME \/ \E i \in Invoices : CreationFlushed(i)
             \/ \E r \in PayCalls : PaymentFlushed(r) \/ FailureFlushed(r)
      PROVE  Goal
  BY <1>6, ReadFacts, Reading
<1>7. Goal
  <2> HIDE DEF Goal
  <2> QED
    BY <1>1, <1>2, <1>3, <1>4, <1>5, <1>6, WireSteps
<1> QED
  BY <1>7

-------------------------------------------------------------------------------
(***************************************************************************)
(* Theorems                                                                *)
(***************************************************************************)

LEMMA BillingInitInv == BillingInit => BillingInv
<1> SUFFICES ASSUME BillingInit PROVE BillingInv
  OBVIOUS
<1>1. IInv
  BY IInvInit DEF BillingInit
<1>2. ExistsInv
  BY DEF BillingInit, Init, ExistsInv
<1>3. BillingTypeOK
  BY <1>1 DEF IInv, BillingInit, BillingTypeOK, Wire!Init
<1>4. TellInv
  <2>1. \A e \in Events, p \in Endpoints : <<e, p>> \in Messages
    BY DEF Messages
  <2> QED
    BY <2>1 DEF BillingInit, TellInv, Wire!Init
<1> QED
  BY <1>1, <1>2, <1>3, <1>4 DEF BillingInv

LEMMA WireTypeStep ==
  BillingTypeOK /\ IInv' /\ [BillingNext]_billingVars => BillingTypeOK'
<1> SUFFICES ASSUME BillingTypeOK, IInv', [BillingNext]_billingVars
             PROVE  BillingTypeOK'
  OBVIOUS
<1> DEFINE EndpointOK == endpoint \in [Endpoints -> {"absent", "active", "inactive"}]
           ReadOK == reading \in SUBSET Events /\ targets \in [Events -> SUBSET Endpoints]
           WireOK ==
             /\ status \in [Messages -> {"absent", "pending", "delivered", "exhausted"}]
             /\ sends  \in [Messages -> Nat]
             /\ taken  \in [Messages -> BOOLEAN]
<1>1. EndpointOK /\ ReadOK /\ WireOK
  BY DEF BillingTypeOK
<1>2. EndpointOK'
  <2>1. UNCHANGED endpoint \/
        \E p \in Endpoints, v \in {"active", "inactive"} :
           endpoint' = [endpoint EXCEPT ![p] = v]
    BY DEF BillingNext, billingVars, CreationFlushed, PaymentFlushed, FailureFlushed,
       ReadEndpoints, InvoiceCreated, PaymentRecorded, FailureRecorded, EnqueueEvent,
       OutcomeUnknown, ChargeKnown, RequestStep, TransitionStep, CrashService, Silently,
       RegisterEndpoint, DeactivateEndpoint, SetEndpoint, Post, SettleBatch, Quiescent
  <2> QED
    BY <1>1, <2>1
<1>a. /\ \A i \in Invoices : Created(i) \in Events
      /\ \A r \in PayCalls : Paid(r) \in Events /\ Failed(r) \in Events
  BY DEF Events
<1>b. ASSUME NEW e \in Events, EnqueueEvent(e) PROVE ReadOK'
  BY <1>1, <1>b DEF EnqueueEvent
<1>c. ASSUME NEW e \in Events, ReadEndpoints(e) PROVE ReadOK' /\ UNCHANGED wireVars
  BY <1>1, <1>c DEF ReadEndpoints, ActiveEndpoints
<1>d. UNCHANGED readVars \/ readVars' = <<{}, [e \in Events |-> {}]>> => ReadOK'
  BY <1>1 DEF readVars
<1>e. ASSUME \/ \E i \in Invoices : CreationFlushed(i)
             \/ \E r \in PayCalls : PaymentFlushed(r) \/ FailureFlushed(r)
      PROVE  ReadOK' /\ UNCHANGED wireVars
  BY <1>a, <1>c, <1>e DEF CreationFlushed, PaymentFlushed, FailureFlushed
<1>3. ASSUME NEW e \in Events, EnqueueEvent(e) PROVE WireOK'
  BY <1>1, <1>3 DEF EnqueueEvent, Wire!Enqueue
<1>4. ASSUME NEW m \in Messages, NEW took \in BOOLEAN, Wire!Send(m, took) PROVE WireOK'
  BY <1>1, <1>4 DEF Wire!Send
<1>5. ASSUME NEW d \in SUBSET Messages, NEW x \in SUBSET Messages, Wire!Settle(d, x)
      PROVE  WireOK'
  BY <1>1, <1>5 DEF Wire!Settle
<1>6. ASSUME UNCHANGED wireVars PROVE WireOK'
  BY <1>1, <1>6 DEF wireVars
<1>7. \A i \in Invoices : InvoiceCreated(i) => ReadOK' /\ WireOK'
  BY <1>a, <1>b, <1>3 DEF InvoiceCreated
<1>8. \A r \in PayCalls : PaymentRecorded(r) \/ FailureRecorded(r) => ReadOK' /\ WireOK'
  BY <1>a, <1>b, <1>3 DEF PaymentRecorded, FailureRecorded
<1>9. ReadOK' /\ WireOK'
  <2> HIDE DEF ReadOK, WireOK
  <2> QED
    BY <1>d, <1>e, <1>4, <1>5, <1>6, <1>7, <1>8, WireSteps
<1> QED
  BY <1>2, <1>9 DEF BillingTypeOK, IInv

LEMMA BillingStep == BillingInv /\ [BillingNext]_billingVars => BillingInv'
BY BillingStepIsPayStep, IInvStep, ExistsStep, WireTypeStep, TellStep DEF BillingInv

\* The inductive invariant of the composition.
THEOREM SpecBillingInv == BillingSpec => []BillingInv
BY BillingInitInv, BillingStep, PTL DEF BillingSpec

\* The tables and the messages keep their types, whatever the clients, the worker
\* and the crashes do.
THEOREM SpecBillingTypeOK == BillingSpec => []BillingTypeOK
<1>1. BillingInv => BillingTypeOK
  BY DEF BillingInv
<1> QED
  BY <1>1, SpecBillingInv, PTL

\* A receiver told of a payment was told what the processor did.
THEOREM SpecReceiversToldTruth == BillingSpec => []ReceiversToldTruth
<1>1. BillingInv => ReceiversToldTruth
  <2> SUFFICES ASSUME BillingInv, NEW r \in PayCalls, NEW p \in Endpoints
               PROVE  /\ taken[<<Paid(r), p>>]   => psp[r] = "charged"
                      /\ taken[<<Failed(r), p>>] => psp[r] = "refused"
    BY DEF ReceiversToldTruth
  <2>1. Paid(r) \in Events /\ Failed(r) \in Events
    BY DEF Events
  <2>2. /\ taken[<<Paid(r), p>>]   => attempt[r] = "succeeded"
        /\ taken[<<Failed(r), p>>] => attempt[r] = "failed"
    BY <2>1, EventFacts DEF BillingInv, TellInv
  <2> QED
    BY <2>2 DEF BillingInv, IInv, LedgerAgreesWithPsp
<1> QED
  BY <1>1, SpecBillingInv, PTL

\* Each change is announced in the step that makes it durable, to the endpoints that
\* its transaction found active when it read them, and in no other step.
THEOREM SpecToldAsItHappens == BillingSpec => ToldAsItHappens
<1>1. BillingInv /\ [BillingNext]_billingVars =>
        [\A e \in Events, p \in Endpoints : Told(e, p)]_billingVars
  BY TellStep
<1>2. BillingSpec => [][\A e \in Events, p \in Endpoints : Told(e, p)]_billingVars
  BY <1>1, SpecBillingInv, PTL DEF BillingSpec
<1> QED
  BY <1>2 DEF ToldAsItHappens, Told

\* No message is taken back.
LEMMA MessagesStay ==
  ASSUME BillingInv, [BillingNext]_billingVars, NEW e \in Events, NEW p \in Endpoints,
         status[<<e, p>>] # "absent"
  PROVE  status'[<<e, p>>] # "absent"
<1>1. <<e, p>> \in Messages
  BY DEF Messages
<1>2. ASSUME NEW f \in Events, EnqueueEvent(f) PROVE status'[<<e, p>>] # "absent"
  BY <1>2, EnqueueFacts DEF BillingInv, BillingTypeOK
<1>3. ASSUME NEW i \in Invoices, InvoiceCreated(i) PROVE status'[<<e, p>>] # "absent"
  BY <1>2, <1>3 DEF InvoiceCreated, Events
<1>4. ASSUME NEW r \in PayCalls, PaymentRecorded(r) \/ FailureRecorded(r)
      PROVE  status'[<<e, p>>] # "absent"
  BY <1>2, <1>4 DEF PaymentRecorded, FailureRecorded, Events
<1>5. ASSUME \/ \E i \in Invoices : CreationFlushed(i)
             \/ \E r \in PayCalls : PaymentFlushed(r) \/ FailureFlushed(r)
      PROVE  UNCHANGED wireVars
  BY <1>5 DEF CreationFlushed, PaymentFlushed, FailureFlushed, ReadEndpoints
<1> QED
  BY <1>1, <1>3, <1>4, <1>5, WireSteps DEF Wire!Send, Wire!Settle, wireVars

\* Next to a charged attempt no other attempt of its invoice is decided.
LEMMA LastWordStep ==
  ASSUME BillingInv, SerialInv, BillingInv', SerialInv', [BillingNext]_billingVars,
         NEW r \in PayCalls, attempt[r] = "succeeded",
         NEW e \in PaymentEvents(call[r].invoice), ~Happened(e)
  PROVE  ~Happened(e)'
<1>1. TypeOK /\ BlockingUnique /\ BlockingUnique' /\ call' = call
  BY RequestsStay, BillingStepIsPayStep DEF BillingInv, IInv, SerialInv
<1> DEFINE Kept == \A s \in PayCalls :
             /\ attempt[s] = "succeeded" => attempt'[s] = "succeeded"
             /\ attempt'[s] = "succeeded" => attempt[s] \in {"pending", "succeeded"}
             /\ attempt'[s] = "failed" => attempt[s] \in {"pending", "failed"}
<1>2. Kept
  <2>1. HandlerInv /\ [Next]_vars
    BY BillingStepIsPayStep DEF BillingInv, IInv
  <2>2. ASSUME NEW q \in PayCalls, InsertPending(q) PROVE Kept
    BY <1>1, <2>1, <2>2 DEF InsertPending, HandlerInv, TypeOK
  <2>3. ASSUME NEW q \in PayCalls, RecordFailed(q) PROVE Kept
    BY <1>1, <2>1, <2>3 DEF RecordFailed, HandlerInv, TypeOK
  <2>4. ASSUME NEW q \in PayCalls, RecordPaid(q) PROVE Kept
    BY <1>1, <2>1, <2>4 DEF RecordPaid, HandlerInv, TypeOK
  <2> QED
    BY <2>1, <2>2, <2>3, <2>4, AttemptSteps
<1>3. ASSUME NEW s \in PayCalls, SameInvoice(r, s)
      PROVE  /\ attempt'[s] = "succeeded" => attempt[s] = "succeeded"
             /\ attempt'[s] = "failed" => attempt[s] = "failed"
  BY <1>1, <1>2, <1>3 DEF BlockingUnique, SameInvoice
<1>4. PICK s \in PayCalls : e \in {Paid(s), Failed(s)} /\ call[s].invoice = call[r].invoice
  BY DEF PaymentEvents, Events, Created, Paid, Failed
<1> QED
  BY <1>3, <1>4, EventFacts DEF SameInvoice

\* A receiver hears of an invoice's payment once, and nothing of its attempts
\* after that.
THEOREM SerialPaidIsLastWord == BillingSerialSpec => PaidIsLastWord
<1> DEFINE IsLast == \A r \in PayCalls, p \in Endpoints :
                       status[<<Paid(r), p>>] # "absent" =>
                         \A e \in PaymentEvents(call[r].invoice) :
                            status'[<<e, p>>] = "absent" <=> status[<<e, p>>] = "absent"
<1>1. ASSUME BillingInv, SerialInv, BillingInv', SerialInv', [BillingNext]_billingVars
      PROVE  IsLast
  <2> SUFFICES ASSUME NEW r \in PayCalls, NEW p \in Endpoints,
                      status[<<Paid(r), p>>] # "absent",
                      NEW e \in PaymentEvents(call[r].invoice)
               PROVE  status'[<<e, p>>] = "absent" <=> status[<<e, p>>] = "absent"
    OBVIOUS
  <2>1. Paid(r) \in Events /\ e \in Events
    BY DEF Events, PaymentEvents
  <2>2. attempt[r] = "succeeded"
    BY <1>1, <2>1, EventFacts DEF BillingInv, TellInv
  <2>3. ~Happened(e) => ~Happened(e)'
    BY <1>1, <2>2, LastWordStep
  <2> QED
    BY <1>1, <2>1, <2>3, TellStep, MessagesStay DEF Told
<1>2. BillingSerialSpec => BillingSpec
  <2>1. [BillingNext /\ SerialFinalize']_billingVars => [BillingNext]_billingVars
    OBVIOUS
  <2> QED
    BY <2>1, PTL DEF BillingSerialSpec, BillingSpec
<1>3. [BillingNext /\ SerialFinalize']_billingVars => [BillingNext]_billingVars
  OBVIOUS
<1>4. BillingInv /\ SerialInv /\ BillingInv' /\ SerialInv' /\ [BillingNext]_billingVars
        => [IsLast]_billingVars
  BY <1>1
<1> HIDE DEF IsLast
<1>5. BillingSerialSpec => [][IsLast]_billingVars
  BY <1>2, <1>3, <1>4, SpecBillingInv, SerialSpecInv, BillingSerialRunsPayments, PTL
     DEF BillingSerialSpec
<1> QED
  BY <1>5 DEF IsLast, PaidIsLastWord

-------------------------------------------------------------------------------
(***************************************************************************)
(* The composition is made of its parts                                    *)
(***************************************************************************)

\* Each step puts messages in, sends one, settles some, or leaves the wire alone.
LEMMA BillingStepIsWireStep ==
  BillingTypeOK /\ [BillingNext]_billingVars => [Wire!Next]_(Wire!vars)
<1> SUFFICES ASSUME BillingTypeOK, [BillingNext]_billingVars PROVE [Wire!Next]_(Wire!vars)
  OBVIOUS
<1>1. ASSUME NEW e \in Events, EnqueueEvent(e) PROVE Wire!Next
  <2>1. {e} \X targets[e] \in SUBSET Messages
    BY DEF Messages, BillingTypeOK
  <2> QED
    BY <1>1, <2>1 DEF EnqueueEvent, Wire!Next
<1>2. ASSUME NEW i \in Invoices, InvoiceCreated(i) PROVE Wire!Next
  BY <1>1, <1>2 DEF InvoiceCreated, Events
<1>3. ASSUME NEW r \in PayCalls, PaymentRecorded(r) \/ FailureRecorded(r)
      PROVE  Wire!Next
  BY <1>1, <1>3 DEF PaymentRecorded, FailureRecorded, Events
<1>4. CASE UNCHANGED wireVars
  BY <1>4 DEF wireVars, Wire!vars
<1>6. ASSUME \/ \E i \in Invoices : CreationFlushed(i)
             \/ \E r \in PayCalls : PaymentFlushed(r) \/ FailureFlushed(r)
      PROVE  UNCHANGED wireVars
  BY <1>6 DEF CreationFlushed, PaymentFlushed, FailureFlushed, ReadEndpoints
<1>5. ASSUME \/ \E m \in Messages, took \in BOOLEAN : Wire!Send(m, took)
             \/ \E delivered, exhausted \in SUBSET Messages :
                   Wire!Settle(delivered, exhausted)
      PROVE  Wire!Next
  BY <1>5 DEF Wire!Next
<1> QED
  BY <1>2, <1>3, <1>4, <1>5, <1>6, WireSteps

\* Every behaviour of the composition is one of the abstract outbox, so the worker of
\* WebhookOutbox may take its place.
THEOREM BillingUsesOutbox == BillingSpec => Wire!Spec
<1>1. BillingInit => Wire!Init
  BY DEF BillingInit
<1> QED
  BY <1>1, BillingStepIsWireStep, SpecBillingTypeOK, PTL DEF BillingSpec, Wire!Spec

\* The guard of Enqueue never holds a handler up: while its change has not happened,
\* no message of its event is there.
THEOREM OutboxNeverBlocks ==
  ASSUME BillingInv, NEW i \in Invoices, NEW r \in PayCalls
  PROVE  LET Insertable(e) ==
               {e} \X targets[e] \subseteq {m \in Messages : status[m] = "absent"}
         IN  /\ CreateInvoice(i) => Insertable(Created(i))
             /\ RecordPaid(r) => Insertable(Paid(r))
             /\ RecordFailed(r) => Insertable(Failed(r))
<1>1. ASSUME NEW e \in Events, ~Happened(e)
      PROVE  {e} \X targets[e] \subseteq {m \in Messages : status[m] = "absent"}
  BY <1>1 DEF BillingInv, TellInv, BillingTypeOK, Messages
<1>2. Created(i) \in Events /\ Paid(r) \in Events /\ Failed(r) \in Events
  BY DEF Events
<1>3. CreateInvoice(i) => ~Happened(Created(i))
  BY <1>2, OnlyCreated DEF BillingInv
<1>4. RecordPaid(r) => ~Happened(Paid(r))
  BY <1>2, OnlyPaid DEF BillingInv
<1>5. RecordFailed(r) => ~Happened(Failed(r))
  BY <1>2, OnlyFailed DEF BillingInv
<1> QED
  BY <1>1, <1>2, <1>3, <1>4, <1>5

\* The money promise of the payment path holds with endpoints, messages and the worker
\* around it.
THEOREM BillingCollects == BillingSerialSpec => ImplementsCollection
BY BillingSerialRunsPayments, SerialImplementsCollection

===============================================================================
