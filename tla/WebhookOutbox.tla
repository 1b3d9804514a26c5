---------------------------- MODULE WebhookOutbox ----------------------------
(***************************************************************************)
(* The webhook outbox: enqueue_event writes one delivery row per active    *)
(* endpoint in the transaction of the domain change, and workers poll the  *)
(* table, POST the due rows and retry what failed.                         *)
(* app/services/webhook_service.py, app/routers/webhooks.py,               *)
(* app/workers/webhook_worker.py.                                          *)
(*                                                                         *)
(* A worker handles a whole batch in one transaction: its rows stay locked *)
(* and its results invisible until the commit, and all of them are undone  *)
(* when the transaction aborts (a crash, stop() cancelling the task, or a  *)
(* database error), though the POSTs have been sent.                       *)
(***************************************************************************)
EXTENDS Integers, FiniteSets, Sequences

CONSTANTS
  Endpoints,    (* Webhook endpoints of one business.                      *)
  Events,       (* Calls of enqueue_event by the services.                 *)
  Workers,      (* Running WebhookWorkers: one per service process.        *)
  BatchLimit,   (* LIMIT of the poll query; 10 in the code.                *)
  MaxAborts     (* Aborted worker transactions.  Bounds the model.         *)

ASSUME OutboxAssumption ==
  /\ BatchLimit \in Nat \ {0}
  /\ MaxAborts \in Nat

MAX_ATTEMPTS == 5
BACKOFF_SECONDS == <<1, 5, 25, 125, 625>>

\* One row per (event, endpoint) pair.
Deliveries == Events \X Endpoints

VARIABLES
  (* Committed rows of the database. *)
  endpoint,  (* "absent", "active" or "inactive".                          *)
  row,       (* webhook_deliveries, status "absent" before the INSERT.     *)
  (* Transactions that call enqueue_event. *)
  phase,     (* "new", "read" (endpoints read), "committed", "undone".     *)
  fanout,    (* the endpoints the transaction read as active.              *)
  stamp,     (* when it read them: next_attempt_at of its rows.            *)
  (* Workers. *)
  claim,     (* the rows whose locks the worker's transaction holds.       *)
  tried,     (* those of them it has POSTed.                               *)
  draft,     (* its uncommitted version of them.                           *)
  now,       (* the clock, in seconds.                                     *)
  (* What receivers see, and history. *)
  posts,     (* POSTs sent for a delivery.                                 *)
  accepted,  (* whether a receiver took one of them (2xx).                 *)
  undone,    (* POSTs whose transaction aborted.                           *)
  aborts     (* aborted worker transactions.                               *)

workerVars == <<claim, tried, draft>>
wireVars   == <<posts, accepted>>
historyVars == <<undone, aborts>>
vars == <<endpoint, row, phase, fanout, stamp, workerVars, now, wireVars, historyVars>>

DeliveryStatus == {"pending", "delivered", "exhausted"}
Row == [status : DeliveryStatus \cup {"absent"}, attempts : 0 .. MAX_ATTEMPTS,
        next : Nat]
NoRow == [status |-> "absent", attempts |-> 0, next |-> 0]

TypeOK ==
  /\ endpoint \in [Endpoints -> {"absent", "active", "inactive"}]
  /\ row      \in [Deliveries -> Row]
  /\ phase    \in [Events -> {"new", "read", "committed", "undone"}]
  /\ fanout   \in [Events -> SUBSET Endpoints]
  /\ stamp    \in [Events -> Nat]
  /\ claim    \in [Workers -> SUBSET Deliveries]
  /\ tried    \in [Workers -> SUBSET Deliveries]
  /\ draft    \in [Workers -> [Deliveries -> Row]]
  /\ now      \in Nat
  /\ posts    \in [Deliveries -> Nat]
  /\ accepted \in [Deliveries -> BOOLEAN]
  /\ undone   \in [Deliveries -> Nat]
  /\ aborts   \in 0 .. MaxAborts

Init ==
  /\ endpoint = [p \in Endpoints |-> "absent"]
  /\ row      = [d \in Deliveries |-> NoRow]
  /\ phase    = [e \in Events |-> "new"]
  /\ fanout   = [e \in Events |-> {}]
  /\ stamp    = [e \in Events |-> 0]
  /\ claim    = [w \in Workers |-> {}]
  /\ tried    = [w \in Workers |-> {}]
  /\ draft    = [w \in Workers |-> [d \in Deliveries |-> NoRow]]
  /\ now      = 0
  /\ posts    = [d \in Deliveries |-> 0]
  /\ accepted = [d \in Deliveries |-> FALSE]
  /\ undone   = [d \in Deliveries |-> 0]
  /\ aborts   = 0

-------------------------------------------------------------------------------
(***************************************************************************)
(* Endpoints                                                               *)
(***************************************************************************)

CreateEndpoint(p) ==
  /\ endpoint[p] = "absent"
  /\ endpoint' = [endpoint EXCEPT ![p] = "active"]
  /\ UNCHANGED <<row, phase, fanout, stamp, workerVars, now, wireVars, historyVars>>

DeactivateEndpoint(p) ==
  /\ endpoint[p] # "absent"
  /\ endpoint' = [endpoint EXCEPT ![p] = "inactive"]
  /\ UNCHANGED <<row, phase, fanout, stamp, workerVars, now, wireVars, historyVars>>

-------------------------------------------------------------------------------
(***************************************************************************)
(* enqueue_event, inside the transaction of its caller                     *)
(***************************************************************************)

\* Mutant: enqueue_event commits its rows in a transaction of its own.
EnqueueReadCommits(e) ==
  /\ phase[e] = "new"
  /\ phase'  = [phase EXCEPT ![e] = "read"]
  /\ fanout' = [fanout EXCEPT ![e] = {p \in Endpoints : endpoint[p] = "active"}]
  /\ stamp'  = [stamp EXCEPT ![e] = now]
  /\ row'    = [d \in Deliveries |->
                  IF d[1] = e /\ endpoint[d[2]] = "active"
                  THEN [status |-> "pending", attempts |-> 0, next |-> now]
                  ELSE row[d]]
  /\ UNCHANGED <<endpoint, workerVars, now, wireVars, historyVars>>

\* The caller's transaction reads the active endpoints ...
EnqueueRead(e) ==
  /\ phase[e] = "new"
  /\ phase'  = [phase EXCEPT ![e] = "read"]
  /\ fanout' = [fanout EXCEPT ![e] = {p \in Endpoints : endpoint[p] = "active"}]
  /\ stamp'  = [stamp EXCEPT ![e] = now]
  /\ UNCHANGED <<endpoint, row, workerVars, now, wireVars, historyVars>>

\* ... and commits its rows with the domain change.
EnqueueCommit(e) ==
  /\ phase[e] = "read"
  /\ phase' = [phase EXCEPT ![e] = "committed"]
  /\ row'   = [d \in Deliveries |->
                 IF d[1] = e /\ d[2] \in fanout[e]
                 THEN [status |-> "pending", attempts |-> 0, next |-> stamp[e]]
                 ELSE row[d]]
  /\ UNCHANGED <<endpoint, fanout, stamp, workerVars, now, wireVars, historyVars>>

\* The caller rolls back, or dies.
EnqueueRollback(e) ==
  /\ phase[e] = "read"
  /\ phase' = [phase EXCEPT ![e] = "undone"]
  /\ UNCHANGED <<endpoint, row, fanout, stamp, workerVars, now, wireVars, historyVars>>

-------------------------------------------------------------------------------
(***************************************************************************)
(* The worker                                                              *)
(***************************************************************************)

\* Mutant: rows of deactivated endpoints are left out.
DueIfActive(d) ==
  /\ endpoint[d[2]] = "active"
  /\ row[d].status = "pending" /\ row[d].next <= now

Due(d) == row[d].status = "pending" /\ row[d].next <= now

\* Mutant: the poll query without FOR UPDATE SKIP LOCKED.
UnlockedAlways(d) == TRUE

Unlocked(d) == \A w \in Workers : d \notin claim[w]

\* What a poll may return: the BatchLimit rows that are longest overdue among
\* the due ones no other transaction has locked.
Batches ==
  LET due == {d \in Deliveries : Due(d) /\ Unlocked(d)} IN
  {b \in SUBSET due :
     /\ b # {}
     /\ Cardinality(b) <= BatchLimit
     /\ Cardinality(b) < BatchLimit => b = due
     /\ \A d \in b, d2 \in due \ b : row[d].next <= row[d2].next}

\* SELECT ... FOR UPDATE SKIP LOCKED.  An empty batch changes nothing.
Poll(w) ==
  /\ claim[w] = {}
  /\ \E b \in Batches : claim' = [claim EXCEPT ![w] = b]
  /\ draft' = [draft EXCEPT ![w] = row]
  /\ UNCHANGED <<endpoint, row, phase, fanout, stamp, tried, now, wireVars, historyVars>>

\* BACKOFF_SECONDS[min(attempts, len - 1)], counted from one here.
Backoff(attempts) ==
  BACKOFF_SECONDS[IF attempts < Len(BACKOFF_SECONDS)
                  THEN attempts + 1 ELSE Len(BACKOFF_SECONDS)]

\* Mutant: one attempt too many.
OutcomeOffByOne(r, success) ==
  LET n == r.attempts + 1 IN
  CASE success -> [r EXCEPT !.attempts = n, !.status = "delivered"]
    [] ~success /\ n > MAX_ATTEMPTS ->
         [r EXCEPT !.attempts = n, !.status = "exhausted"]
    [] OTHER ->
         [r EXCEPT !.attempts = n, !.next = now + Backoff(n)]

\* Mutant: only failed POSTs are counted.
OutcomeFailuresOnly(r, success) ==
  LET n == r.attempts + 1 IN
  CASE success -> [r EXCEPT !.status = "delivered"]
    [] ~success /\ n >= MAX_ATTEMPTS ->
         [r EXCEPT !.attempts = n, !.status = "exhausted"]
    [] OTHER ->
         [r EXCEPT !.attempts = n, !.next = now + Backoff(n)]

\* The row after one more POST.
Outcome(r, success) ==
  LET n == r.attempts + 1 IN
  CASE success -> [r EXCEPT !.attempts = n, !.status = "delivered"]
    [] ~success /\ n >= MAX_ATTEMPTS ->
         [r EXCEPT !.attempts = n, !.status = "exhausted"]
    [] OTHER ->
         [r EXCEPT !.attempts = n, !.next = now + Backoff(n)]

\* Mutant: any answer of the receiver counts as delivered.
DeliverAnyAnswer(w, d, took, success) ==
  /\ d \in claim[w] \ tried[w]
  /\ \A d2 \in claim[w] \ tried[w] : row[d].next <= row[d2].next
  /\ tried'    = [tried EXCEPT ![w] = @ \cup {d}]
  /\ draft'    = [draft EXCEPT ![w][d] = Outcome(@, success)]
  /\ posts'    = [posts EXCEPT ![d] = @ + 1]
  /\ accepted' = [accepted EXCEPT ![d] = @ \/ took]
  /\ UNCHANGED <<endpoint, row, phase, fanout, stamp, claim, now, historyVars>>

\* POST the next row of the batch: longest overdue first.  The receiver may
\* take it (took) and its answer still not arrive in time (~success).
Deliver(w, d, took, success) ==
  /\ d \in claim[w] \ tried[w]
  /\ \A d2 \in claim[w] \ tried[w] : row[d].next <= row[d2].next
  /\ success => took
  /\ tried'    = [tried EXCEPT ![w] = @ \cup {d}]
  /\ draft'    = [draft EXCEPT ![w][d] = Outcome(@, success)]
  /\ posts'    = [posts EXCEPT ![d] = @ + 1]
  /\ accepted' = [accepted EXCEPT ![d] = @ \/ took]
  /\ UNCHANGED <<endpoint, row, phase, fanout, stamp, claim, now, historyVars>>

Released(w) ==
  /\ claim' = [claim EXCEPT ![w] = {}]
  /\ tried' = [tried EXCEPT ![w] = {}]
  /\ draft' = [draft EXCEPT ![w] = [d \in Deliveries |-> NoRow]]

Commit(w) ==
  /\ claim[w] # {}
  /\ tried[w] = claim[w]
  /\ row' = [d \in Deliveries |-> IF d \in claim[w] THEN draft[w][d] ELSE row[d]]
  /\ Released(w)
  /\ UNCHANGED <<endpoint, phase, fanout, stamp, now, wireVars, historyVars>>

Abort(w) ==
  /\ claim[w] # {}
  /\ aborts < MaxAborts
  /\ aborts' = aborts + 1
  /\ undone' = [d \in Deliveries |->
                  IF d \in tried[w] THEN undone[d] + 1 ELSE undone[d]]
  /\ Released(w)
  /\ UNCHANGED <<endpoint, row, phase, fanout, stamp, now, wireVars>>

\* Time matters only when a row falls due: go to the next such moment.
Tick ==
  /\ \E d \in Deliveries :
        /\ row[d].status = "pending"
        /\ row[d].next > now
        /\ \A d2 \in Deliveries :
              row[d2].status = "pending" /\ row[d2].next > now
              => row[d].next <= row[d2].next
        /\ now' = row[d].next
  /\ UNCHANGED <<endpoint, row, phase, fanout, stamp, workerVars, wireVars, historyVars>>

-------------------------------------------------------------------------------
(***************************************************************************)
(* Specifications                                                          *)
(***************************************************************************)

Work(w) ==
  \/ Poll(w)
  \/ \E d \in Deliveries, took, success \in BOOLEAN : Deliver(w, d, took, success)
  \/ Commit(w)

\* Nothing is pending or in flight.
Idle ==
  /\ \A e \in Events : phase[e] \in {"committed", "undone"}
  /\ \A d \in Deliveries : row[d].status # "pending"
  /\ UNCHANGED vars

Next ==
  \/ \E p \in Endpoints : CreateEndpoint(p) \/ DeactivateEndpoint(p)
  \/ \E e \in Events : EnqueueRead(e) \/ EnqueueCommit(e) \/ EnqueueRollback(e)
  \/ \E w \in Workers : Work(w) \/ Abort(w)
  \/ Tick
  \/ Idle

Spec == Init /\ [][Next]_vars

\* Workers poll as long as they run, and time passes.  Nobody need call the
\* API, no transaction need abort, and no receiver need ever answer 2xx.
Fairness == WF_vars(Tick) /\ \A w \in Workers : WF_vars(Work(w))

FairSpec == Spec /\ Fairness

-------------------------------------------------------------------------------
(***************************************************************************)
(* Properties                                                              *)
(***************************************************************************)

\* The POSTs of a delivery that a worker's open transaction stands for.
InFlight(d) == Cardinality({w \in Workers : d \in tried[w]})

\* No POST goes uncounted but those of aborted transactions: two workers never
\* lose an update of attempts, whatever batches they claim.
PostsAccounted ==
  \A d \in Deliveries : posts[d] = row[d].attempts + undone[d] + InFlight(d)

\* A delivery is given up only after MAX_ATTEMPTS POSTs, and delivered only if
\* a receiver took one.
StatusEarned ==
  \A d \in Deliveries :
     /\ row[d].status = "exhausted" => posts[d] >= MAX_ATTEMPTS
     /\ row[d].status = "delivered" => accepted[d]
     /\ row[d].status = "pending"   => row[d].attempts < MAX_ATTEMPTS

\* A committed event has a row for each endpoint its transaction saw active,
\* and for no other; an event that rolled back leaves nothing and sends
\* nothing, even with a worker polling meanwhile.
FanOutAtomic ==
  \A e \in Events, p \in Endpoints :
     /\ row[<<e, p>>].status # "absent"
          <=> phase[e] = "committed" /\ p \in fanout[e]
     /\ posts[<<e, p>>] > 0 => phase[e] = "committed"

\* Once a row is delivered or exhausted it stays so and is never POSTed again.
SettledIsFinal ==
  [][\A d \in Deliveries :
        row[d].status \in {"delivered", "exhausted"} =>
          row'[d] = row[d] /\ posts'[d] = posts[d]]_vars

\* No POST is early, though a batch is read long before its last row is sent and
\* other workers poll meanwhile: a row is POSTed only while its committed version is due, and
\* a failure that is counted moves that version on by at least its backoff.
BackoffKept ==
  [][\A d \in Deliveries :
        /\ posts'[d] # posts[d] => row[d].status = "pending" /\ row[d].next <= now
        /\ row[d].status = "pending" /\ row'[d].status = "pending" /\ row'[d] # row[d] =>
             row'[d].next >= row[d].next + Backoff(row'[d].attempts)]_vars

\* Every row of the outbox is delivered or given up in the end, the rows of an
\* endpoint that was deactivated meanwhile included.
OutboxSettles ==
  \A d \in Deliveries :
     row[d].status = "pending" ~> row[d].status \in {"delivered", "exhausted"}

Promise == INSTANCE Outbox WITH
  Messages <- Deliveries,
  MinSends <- MAX_ATTEMPTS,
  status   <- [d \in Deliveries |-> row[d].status],
  sends    <- posts,
  taken    <- accepted

\* Locks, batches, backoff and aborted transactions come to this: each row is
\* POSTed only while its committed version is pending, and is settled once, as
\* delivered only if a receiver took it, as exhausted only after MAX_ATTEMPTS.
ImplementsOutbox == Promise!Spec

\* DESIGN.md, Retry policy: attempt 2 follows 1 s after attempt 1, attempt 3
\* after 5 s, attempt 4 after 25 s, attempt 5 after 125 s.
DocumentedDelay == <<1, 5, 25, 125>>

RetrySchedule ==
  [][\A w \in Workers, d \in Deliveries :
        draft'[w][d].next > draft[w][d].next /\ d \in tried'[w] =>
          draft'[w][d].next = now + DocumentedDelay[draft'[w][d].attempts]]_vars

===============================================================================
