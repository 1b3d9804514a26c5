------------------------- MODULE WebhookOutboxProofs -------------------------
(***************************************************************************)
(* Safety of the webhook outbox, for any endpoints, events and workers.    *)
(*                                                                         *)
(* The invariant says what a worker's open transaction knows: its rows are *)
(* locked by no other, still pending in the database, and its own version  *)
(* of each is the row as it was, or one POST further.                      *)
(***************************************************************************)
EXTENDS WebhookOutbox, FiniteSetTheorems, TLAPS

\* FOR UPDATE SKIP LOCKED: a row is in one batch at most.
LocksExclusive ==
  \A v, w \in Workers : \A d \in Deliveries :
     d \in claim[v] /\ d \in claim[w] => v = w

\* What a POST may make of a row.
Earned(r, taken) ==
  /\ r.status # "absent"
  /\ r.status = "exhausted" => r.attempts >= MAX_ATTEMPTS
  /\ r.status = "delivered" => taken
  /\ r.status = "pending"   => r.attempts < MAX_ATTEMPTS

\* The rows of a batch in the database and in the worker's transaction.
BatchInv ==
  \A w \in Workers :
     /\ tried[w] \subseteq claim[w]
     /\ \A d \in claim[w] :
          /\ row[d].status = "pending"
          /\ d \notin tried[w] => draft[w][d] = row[d]
     /\ \A d \in tried[w] :
          /\ draft[w][d].attempts = row[d].attempts + 1
          /\ Earned(draft[w][d], accepted[d])

RowInv ==
  \A d \in Deliveries :
     /\ row[d].status # "absent" => Earned(row[d], accepted[d])
     /\ row[d].status = "absent" => row[d].attempts = 0

OutboxInv ==
  /\ TypeOK
  /\ LocksExclusive
  /\ BatchInv
  /\ RowInv
  /\ FanOutAtomic
  /\ PostsAccounted

-------------------------------------------------------------------------------
(***************************************************************************)
(* Facts about the operators                                               *)
(***************************************************************************)

LEMMA BackoffType == \A n \in Nat : n > 0 => Backoff(n) \in Nat
<1> TAKE n \in Nat
<1> HAVE n > 0
<1>1. Len(BACKOFF_SECONDS) = 5
  BY DEF BACKOFF_SECONDS
<1>2. \A k \in 1 .. 5 : BACKOFF_SECONDS[k] \in Nat
  BY DEF BACKOFF_SECONDS
<1> QED
  BY <1>1, <1>2 DEF Backoff

\* One POST counts once, and settles a row only when it earned it.
LEMMA OutcomeFacts ==
  ASSUME now \in Nat, NEW r \in Row, r.status = "pending",
         r.attempts < MAX_ATTEMPTS, NEW success \in BOOLEAN
  PROVE  /\ Outcome(r, success) \in Row
         /\ Outcome(r, success).attempts = r.attempts + 1
         /\ Earned(Outcome(r, success), success)
<1>1. PICK n \in 1 .. MAX_ATTEMPTS : n = r.attempts + 1
  BY DEF Row, MAX_ATTEMPTS
<1>2. n \in 0 .. MAX_ATTEMPTS
  BY DEF MAX_ATTEMPTS
<1>3. PICK later \in Nat : later = now + Backoff(n)
  BY <1>1, BackoffType
<1> DEFINE delivered == [r EXCEPT !.attempts = n, !.status = "delivered"]
           exhausted == [r EXCEPT !.attempts = n, !.status = "exhausted"]
           retried   == [r EXCEPT !.attempts = n, !.next = later]
<1>4. /\ delivered \in Row /\ delivered.attempts = n
      /\ delivered.status = "delivered"
  BY <1>2 DEF Row, DeliveryStatus
<1>5. /\ exhausted \in Row /\ exhausted.attempts = n
      /\ exhausted.status = "exhausted"
  BY <1>2 DEF Row, DeliveryStatus
<1>6. retried \in Row /\ retried.attempts = n /\ retried.status = "pending"
  BY <1>2 DEF Row
<1>7. CASE success
  <2>1. Outcome(r, success) = delivered
    BY <1>1, <1>7 DEF Outcome
  <2> QED
    BY <2>1, <1>1, <1>4, <1>7 DEF Earned
<1>8. CASE ~success /\ n >= MAX_ATTEMPTS
  <2>1. Outcome(r, success) = exhausted
    BY <1>1, <1>8 DEF Outcome
  <2> QED
    BY <2>1, <1>1, <1>5, <1>8 DEF Earned
<1>9. CASE ~success /\ ~(n >= MAX_ATTEMPTS)
  <2>1. Outcome(r, success) = retried
    BY <1>1, <1>3, <1>9 DEF Outcome
  <2> QED
    BY <2>1, <1>1, <1>6, <1>9 DEF Earned, MAX_ATTEMPTS
<1> QED
  BY <1>7, <1>8, <1>9

\* The batch of a poll: due rows that no other transaction has locked.
LEMMA BatchFacts ==
  ASSUME NEW b \in Batches, NEW d \in b
  PROVE  d \in Deliveries /\ row[d].status = "pending" /\ Unlocked(d)
BY DEF Batches, Due

-------------------------------------------------------------------------------
(***************************************************************************)
(* Initial states                                                          *)
(***************************************************************************)

LEMMA OutboxInit == Init => OutboxInv
<1> SUFFICES ASSUME Init PROVE OutboxInv
  OBVIOUS
<1>1. NoRow \in Row
  BY DEF NoRow, Row, MAX_ATTEMPTS, DeliveryStatus
<1>2. TypeOK
  BY <1>1, OutboxAssumption DEF Init, TypeOK
<1>3. LocksExclusive /\ BatchInv
  BY DEF Init, LocksExclusive, BatchInv
<1>4. RowInv
  BY DEF Init, RowInv, NoRow
<1>5. FanOutAtomic
  BY DEF Init, FanOutAtomic, NoRow, Deliveries
<1>6. PostsAccounted
  <2> SUFFICES ASSUME NEW d \in Deliveries
               PROVE  posts[d] = row[d].attempts + undone[d] + InFlight(d)
    BY DEF PostsAccounted
  <2>1. {w \in Workers : d \in tried[w]} = {}
    BY DEF Init
  <2>2. InFlight(d) = 0
    BY <2>1, FS_EmptySet DEF InFlight
  <2> QED
    BY <2>2 DEF Init, NoRow
<1> QED
  BY <1>2, <1>3, <1>4, <1>5, <1>6 DEF OutboxInv

-------------------------------------------------------------------------------
(***************************************************************************)
(* Steps                                                                   *)
(***************************************************************************)

\* Only a commit of an event or of a batch writes rows.
LEMMA RowSteps ==
  ASSUME [Next]_vars
  PROVE  \/ UNCHANGED row
         \/ \E e \in Events : EnqueueCommit(e)
         \/ \E w \in Workers : Commit(w)
BY DEF Next, vars, Idle, Work, CreateEndpoint, DeactivateEndpoint, EnqueueRead,
       EnqueueRollback, Poll, Deliver, Abort, Tick

\* Only workers touch their transactions.
LEMMA WorkerSteps ==
  ASSUME [Next]_vars
  PROVE  \/ UNCHANGED workerVars
         \/ \E w \in Workers : Poll(w) \/ Commit(w) \/ Abort(w)
         \/ \E w \in Workers, d \in Deliveries, took, success \in BOOLEAN :
               Deliver(w, d, took, success)
BY DEF Next, vars, Idle, Work, CreateEndpoint, DeactivateEndpoint, EnqueueRead,
       EnqueueCommit, EnqueueRollback, Tick, workerVars

\* Only a POST reaches a receiver.
LEMMA WireSteps ==
  ASSUME [Next]_vars
  PROVE  \/ UNCHANGED wireVars
         \/ \E w \in Workers, d \in Deliveries, took, success \in BOOLEAN :
               Deliver(w, d, took, success)
BY DEF Next, vars, Idle, Work, CreateEndpoint, DeactivateEndpoint, EnqueueRead,
       EnqueueCommit, EnqueueRollback, Poll, Commit, Abort, Tick, wireVars

LEMMA TypeStep == OutboxInv /\ [Next]_vars => TypeOK'
<1> SUFFICES ASSUME OutboxInv, [Next]_vars PROVE TypeOK'
  OBVIOUS
<1> USE DEF OutboxInv
<1>1. ASSUME NEW p \in Endpoints, CreateEndpoint(p) \/ DeactivateEndpoint(p)
      PROVE  TypeOK'
  BY ZenonT(60), <1>1
    DEF TypeOK, CreateEndpoint, DeactivateEndpoint, workerVars, wireVars,
              historyVars
<1>2. ASSUME NEW e \in Events, EnqueueRead(e) \/ EnqueueRollback(e) PROVE TypeOK'
  BY ZenonT(60), <1>2
    DEF TypeOK, EnqueueRead, EnqueueRollback, workerVars, wireVars, historyVars
<1>3. ASSUME NEW e \in Events, EnqueueCommit(e) PROVE TypeOK'
  <2>1. [status |-> "pending", attempts |-> 0, next |-> stamp[e]] \in Row
    BY DEF TypeOK, Row, DeliveryStatus, MAX_ATTEMPTS
  <2>2. row' \in [Deliveries -> Row]
    BY <1>3, <2>1 DEF TypeOK, EnqueueCommit
  <2> QED
    BY <1>3, <2>2 DEF TypeOK, EnqueueCommit, workerVars, wireVars, historyVars
<1>4. ASSUME NEW w \in Workers, Poll(w) PROVE TypeOK'
  <2>1. PICK b \in Batches : claim' = [claim EXCEPT ![w] = b]
    BY <1>4 DEF Poll
  <2>2. b \in SUBSET Deliveries
    BY BatchFacts
  <2> QED
    BY <1>4, <2>1, <2>2 DEF TypeOK, Poll, wireVars, historyVars
<1>5. ASSUME NEW w \in Workers, NEW d \in Deliveries, NEW took \in BOOLEAN,
             NEW success \in BOOLEAN, Deliver(w, d, took, success)
      PROVE  TypeOK'
  <2>1. draft[w][d] = row[d] /\ row[d].status = "pending" /\ row[d] \in Row
    BY <1>5 DEF Deliver, BatchInv, TypeOK
  <2>2. row[d].attempts < MAX_ATTEMPTS
    BY <2>1 DEF RowInv, Earned
  <2>3. Outcome(draft[w][d], success) \in Row
    BY <2>1, <2>2, OutcomeFacts DEF TypeOK
  <2>4. draft' \in [Workers -> [Deliveries -> Row]]
    BY <1>5, <2>3 DEF Deliver, TypeOK
  <2>5. tried' \in [Workers -> SUBSET Deliveries] /\ posts' \in [Deliveries -> Nat]
    BY <1>5 DEF Deliver, TypeOK
  <2>6. accepted' \in [Deliveries -> BOOLEAN]
    BY <1>5 DEF Deliver, TypeOK
  <2> QED
    BY <1>5, <2>4, <2>5, <2>6 DEF Deliver, TypeOK, historyVars
<1>6. ASSUME NEW w \in Workers, Commit(w) \/ Abort(w) PROVE TypeOK'
  <2>1. NoRow \in Row
    BY DEF NoRow, Row, DeliveryStatus, MAX_ATTEMPTS
  <2>2. /\ claim' \in [Workers -> SUBSET Deliveries]
        /\ tried' \in [Workers -> SUBSET Deliveries]
        /\ draft' \in [Workers -> [Deliveries -> Row]]
    <3>1. Released(w)
      BY <1>6 DEF Commit, Abort
    <3>2. [d \in Deliveries |-> NoRow] \in [Deliveries -> Row]
      BY <2>1
    <3> QED
      BY <3>1, <3>2 DEF Released, TypeOK
  <2>3. CASE Commit(w)
    BY <2>2, <2>3 DEF Commit, TypeOK, wireVars, historyVars
  <2>4. CASE Abort(w)
    <3>1. undone' \in [Deliveries -> Nat] /\ aborts' \in 0 .. MaxAborts
      BY <2>4, OutboxAssumption DEF Abort, TypeOK
    <3> QED
      BY <2>2, <2>4, <3>1 DEF Abort, TypeOK, wireVars
  <2> QED
    BY <1>6, <2>3, <2>4
<1>7. CASE Tick
  <2>1. now' \in Nat
    BY <1>7 DEF Tick, TypeOK, Row
  <2> QED
    BY <1>7, <2>1 DEF Tick, TypeOK, workerVars, wireVars, historyVars
<1>8. CASE UNCHANGED vars
  BY <1>8 DEF TypeOK, vars, workerVars, wireVars, historyVars
<1> QED
  BY <1>1, <1>2, <1>3, <1>4, <1>5, <1>6, <1>7, <1>8 DEF Next, Work, Idle

LEMMA LocksStep == OutboxInv /\ [Next]_vars => LocksExclusive'
<1> SUFFICES ASSUME OutboxInv, [Next]_vars PROVE LocksExclusive'
  OBVIOUS
<1> USE DEF OutboxInv
<1>1. CASE UNCHANGED workerVars
  BY <1>1 DEF LocksExclusive, workerVars
<1>2. ASSUME NEW w \in Workers, Poll(w) PROVE LocksExclusive'
  <2>1. PICK b \in Batches : claim' = [claim EXCEPT ![w] = b]
    BY <1>2 DEF Poll
  <2>2. \A d \in b : \A v \in Workers : d \notin claim[v]
    BY BatchFacts DEF Unlocked
  <2> QED
    BY <2>1, <2>2 DEF LocksExclusive, TypeOK
<1>3. ASSUME NEW w \in Workers, Commit(w) \/ Abort(w) PROVE LocksExclusive'
  <2>1. claim' = [claim EXCEPT ![w] = {}]
    BY <1>3 DEF Commit, Abort, Released
  <2> QED
    BY <2>1 DEF LocksExclusive, TypeOK
<1>4. ASSUME NEW w \in Workers, NEW d \in Deliveries, NEW took \in BOOLEAN,
             NEW success \in BOOLEAN, Deliver(w, d, took, success)
      PROVE  LocksExclusive'
  BY <1>4 DEF LocksExclusive, Deliver
<1> QED
  BY <1>1, <1>2, <1>3, <1>4, WorkerSteps

\* No event enqueues rows twice, and no worker holds a row that is not there.
LEMMA CommitIsFresh ==
  ASSUME OutboxInv, NEW e \in Events, EnqueueCommit(e), NEW d \in Deliveries
  PROVE  \/ row'[d] = row[d]
         \/ /\ row[d].status = "absent"
            /\ d = <<e, d[2]>> /\ d[2] \in fanout[e]
            /\ row'[d] = [status |-> "pending", attempts |-> 0, next |-> stamp[e]]
<1>1. CASE d[1] = e /\ d[2] \in fanout[e]
  <2>1. d = <<e, d[2]>> /\ d[2] \in Endpoints
    BY <1>1 DEF Deliveries
  <2>2. row[<<e, d[2]>>].status = "absent"
    BY <2>1 DEF EnqueueCommit, OutboxInv, FanOutAtomic
  <2> QED
    BY <1>1, <2>1, <2>2 DEF EnqueueCommit
<1> QED
  BY <1>1 DEF EnqueueCommit

LEMMA BatchStep == OutboxInv /\ [Next]_vars => BatchInv'
<1> SUFFICES ASSUME OutboxInv, [Next]_vars PROVE BatchInv'
  OBVIOUS
<1> USE DEF OutboxInv
<1>1. CASE UNCHANGED <<row, workerVars, wireVars>>
  BY <1>1 DEF BatchInv, workerVars, wireVars
<1>2. ASSUME NEW e \in Events, EnqueueCommit(e) PROVE BatchInv'
  <2>1. \A d \in Deliveries : row[d].status = "pending" => row'[d] = row[d]
    BY <1>2, CommitIsFresh
  <2> QED
    BY <1>2, <2>1 DEF BatchInv, EnqueueCommit, workerVars, wireVars, TypeOK
<1>3. ASSUME NEW w \in Workers, Poll(w) PROVE BatchInv'
  <2>1. PICK b \in Batches : claim' = [claim EXCEPT ![w] = b]
    BY <1>3 DEF Poll
  <2>2. tried[w] = {}
    BY <1>3 DEF Poll, BatchInv
  <2>3. \A d \in b : row[d].status = "pending"
    BY BatchFacts
  <2> QED
    BY <1>3, <2>1, <2>2, <2>3 DEF BatchInv, Poll, wireVars, TypeOK
<1>4. ASSUME NEW w \in Workers, NEW d \in Deliveries, NEW took \in BOOLEAN,
             NEW success \in BOOLEAN, Deliver(w, d, took, success)
      PROVE  BatchInv'
  <2>1. draft[w][d] = row[d] /\ row[d].status = "pending" /\ row[d] \in Row
    BY <1>4 DEF Deliver, BatchInv, TypeOK
  <2>2. row[d].attempts < MAX_ATTEMPTS
    BY <2>1 DEF RowInv, Earned
  <2>3. /\ Outcome(draft[w][d], success).attempts = row[d].attempts + 1
        /\ Earned(Outcome(draft[w][d], success), success)
    BY <2>1, <2>2, OutcomeFacts DEF TypeOK
  <2>4. draft'[w][d] = Outcome(draft[w][d], success)
    BY <1>4 DEF Deliver, TypeOK
  <2>5. success => accepted'[d]
    BY <1>4 DEF Deliver, TypeOK
  <2>6. Earned(draft'[w][d], accepted'[d])
    BY <2>3, <2>4, <2>5 DEF Earned
  <2>7. \A d2 \in Deliveries : accepted[d2] => accepted'[d2]
    BY <1>4 DEF Deliver, TypeOK
  <2>8. ASSUME NEW v \in Workers, NEW d2 \in Deliveries, v # w \/ d2 # d
        PROVE  draft'[v][d2] = draft[v][d2] /\ (d2 \in tried'[v] => d2 \in tried[v])
               /\ (d2 \in tried[v] => d2 \in tried'[v])
    BY <1>4, <2>8 DEF Deliver, TypeOK
  <2> SUFFICES ASSUME NEW v \in Workers
               PROVE  /\ tried'[v] \subseteq claim'[v]
                      /\ \A d2 \in claim'[v] :
                           /\ row'[d2].status = "pending"
                           /\ d2 \notin tried'[v] => draft'[v][d2] = row'[d2]
                      /\ \A d2 \in tried'[v] :
                           /\ draft'[v][d2].attempts = row'[d2].attempts + 1
                           /\ Earned(draft'[v][d2], accepted'[d2])
    BY DEF BatchInv, Earned
  <2>9. claim' = claim /\ row' = row
    BY <1>4 DEF Deliver
  <2>10. tried'[v] \subseteq claim'[v]
    BY <1>4, <2>9 DEF Deliver, BatchInv, TypeOK
  <2>11. ASSUME NEW d2 \in claim'[v]
         PROVE  /\ row'[d2].status = "pending"
                /\ d2 \notin tried'[v] => draft'[v][d2] = row'[d2]
    <3>1. d2 \in Deliveries
      BY <2>9, <2>11 DEF TypeOK
    <3>2. d \in tried'[w]
      BY <1>4 DEF Deliver, TypeOK
    <3>3. /\ row[d2].status = "pending"
          /\ d2 \notin tried[v] => draft[v][d2] = row[d2]
      BY <2>9, <2>11 DEF BatchInv
    <3>4. CASE v = w /\ d2 = d
      BY <2>9, <3>2, <3>3, <3>4
    <3>5. CASE v # w \/ d2 # d
      BY <2>8, <2>9, <3>1, <3>3, <3>5
    <3> QED
      BY <3>4, <3>5
  <2>12. ASSUME NEW d2 \in tried'[v]
         PROVE  /\ draft'[v][d2].attempts = row'[d2].attempts + 1
                /\ Earned(draft'[v][d2], accepted'[d2])
    <3>1. d2 \in Deliveries
      BY <2>9, <2>10 DEF TypeOK
    <3>2. CASE v = w /\ d2 = d
      BY <2>3, <2>4, <2>6, <2>9, <3>2
    <3>3. CASE v # w \/ d2 # d
      <4>1. d2 \in tried[v] /\ draft'[v][d2] = draft[v][d2]
        BY <2>8, <2>12, <3>1, <3>3
      <4>2. draft[v][d2].attempts = row[d2].attempts + 1
        BY <4>1 DEF BatchInv
      <4>3. Earned(draft[v][d2], accepted[d2])
        BY <4>1 DEF BatchInv
      <4> QED
        BY <2>7, <2>9, <3>1, <4>1, <4>2, <4>3 DEF Earned
    <3> QED
      BY <3>2, <3>3
  <2> QED
    BY <2>10, <2>11, <2>12
<1>5. ASSUME NEW w \in Workers, Commit(w) PROVE BatchInv'
  <2>1. \A v \in Workers : v # w =>
           claim'[v] = claim[v] /\ tried'[v] = tried[v] /\ draft'[v] = draft[v]
    BY <1>5 DEF Commit, Released, TypeOK
  <2>2. claim'[w] = {} /\ tried'[w] = {}
    BY <1>5 DEF Commit, Released, TypeOK
  <2>3. \A v \in Workers, d \in Deliveries :
           v # w /\ d \in claim[v] => row'[d] = row[d]
    BY <1>5 DEF Commit, LocksExclusive
  <2>4. accepted' = accepted
    BY <1>5 DEF Commit, wireVars
  <2> SUFFICES ASSUME NEW v \in Workers
               PROVE  /\ tried'[v] \subseteq claim'[v]
                      /\ \A d \in claim'[v] :
                           /\ row'[d].status = "pending"
                           /\ d \notin tried'[v] => draft'[v][d] = row'[d]
                      /\ \A d \in tried'[v] :
                           /\ draft'[v][d].attempts = row'[d].attempts + 1
                           /\ Earned(draft'[v][d], accepted'[d])
    BY DEF BatchInv, Earned
  <2>5. CASE v = w
    BY <2>2, <2>5
  <2>6. CASE v # w
    <3>1. /\ claim'[v] = claim[v] /\ tried'[v] = tried[v] /\ draft'[v] = draft[v]
          /\ claim[v] \subseteq Deliveries /\ tried[v] \subseteq claim[v]
      BY <2>1, <2>6 DEF BatchInv, TypeOK
    <3>2. \A d \in claim[v] : row'[d] = row[d]
      BY <2>3, <2>6, <3>1
    <3>3. /\ \A d \in claim[v] :
               /\ row[d].status = "pending"
               /\ d \notin tried[v] => draft[v][d] = row[d]
          /\ \A d \in tried[v] :
               /\ draft[v][d].attempts = row[d].attempts + 1
               /\ Earned(draft[v][d], accepted[d])
      BY DEF BatchInv
    <3> QED
      BY <2>4, <3>1, <3>2, <3>3
  <2> QED
    BY <2>5, <2>6
<1>6. ASSUME NEW w \in Workers, Abort(w) PROVE BatchInv'
  <2>1. \A v \in Workers : v # w =>
           claim'[v] = claim[v] /\ tried'[v] = tried[v] /\ draft'[v] = draft[v]
    BY <1>6 DEF Abort, Released, TypeOK
  <2>2. claim'[w] = {} /\ tried'[w] = {}
    BY <1>6 DEF Abort, Released, TypeOK
  <2> QED
    BY <1>6, <2>1, <2>2 DEF BatchInv, Abort, wireVars
<1> QED
  BY <1>1, <1>2, <1>3, <1>4, <1>5, <1>6, WorkerSteps, RowSteps, WireSteps

LEMMA RowInvStep == OutboxInv /\ [Next]_vars => RowInv'
<1> SUFFICES ASSUME OutboxInv, [Next]_vars, NEW d \in Deliveries
             PROVE  /\ row'[d].status # "absent" => Earned(row'[d], accepted'[d])
                    /\ row'[d].status = "absent" => row'[d].attempts = 0
  BY DEF RowInv
<1> USE DEF OutboxInv
<1>1. accepted[d] => accepted'[d]
  BY WireSteps DEF wireVars, Deliver, TypeOK
<1>2. CASE row'[d] = row[d]
  BY <1>1, <1>2 DEF RowInv, Earned
<1>3. ASSUME NEW e \in Events, EnqueueCommit(e)
      PROVE  row'[d] = row[d] \/ Earned(row'[d], accepted'[d])
  <2>1. CASE row'[d] = [status |-> "pending", attempts |-> 0, next |-> stamp[e]]
    BY <2>1 DEF Earned, MAX_ATTEMPTS
  <2> QED
    BY <1>2, <1>3, <2>1, CommitIsFresh
<1>4. ASSUME NEW w \in Workers, Commit(w)
      PROVE  row'[d] = row[d] \/ Earned(row'[d], accepted'[d])
  <2>1. CASE d \in claim[w]
    <3>1. row'[d] = draft[w][d] /\ d \in tried[w] /\ accepted' = accepted
      BY <1>4, <2>1 DEF Commit, wireVars
    <3> QED
      BY <3>1 DEF BatchInv
  <2>2. CASE d \notin claim[w]
    BY <1>2, <1>4, <2>2 DEF Commit
  <2> QED
    BY <2>1, <2>2
<1> QED
  BY <1>2, <1>3, <1>4, RowSteps DEF Earned

LEMMA FanOutStep == OutboxInv /\ [Next]_vars => FanOutAtomic'
<1> SUFFICES ASSUME OutboxInv, [Next]_vars PROVE FanOutAtomic'
  OBVIOUS
<1> USE DEF OutboxInv
<1>1. CASE UNCHANGED <<row, phase, fanout, posts>>
  BY <1>1 DEF FanOutAtomic
<1>2. ASSUME NEW x \in Events, EnqueueRead(x) PROVE FanOutAtomic'
  BY <1>2 DEF FanOutAtomic, EnqueueRead, wireVars, TypeOK
<1>3. ASSUME NEW x \in Events, EnqueueRollback(x) PROVE FanOutAtomic'
  BY <1>3 DEF FanOutAtomic, EnqueueRollback, wireVars, TypeOK
<1>4. ASSUME NEW x \in Events, EnqueueCommit(x) PROVE FanOutAtomic'
  <2> SUFFICES ASSUME NEW y \in Events, NEW q \in Endpoints
               PROVE  /\ row'[<<y, q>>].status # "absent"
                           <=> phase'[y] = "committed" /\ q \in fanout'[y]
                      /\ posts'[<<y, q>>] > 0 => phase'[y] = "committed"
    BY DEF FanOutAtomic
  <2>1. <<y, q>> \in Deliveries /\ <<y, q>>[1] = y /\ <<y, q>>[2] = q
    BY DEF Deliveries
  <2>2. /\ row[<<y, q>>].status # "absent" <=> phase[y] = "committed" /\ q \in fanout[y]
        /\ posts[<<y, q>>] > 0 => phase[y] = "committed"
    BY DEF FanOutAtomic
  <2>3. fanout' = fanout /\ posts' = posts
    BY <1>4 DEF EnqueueCommit, wireVars
  <2>4. CASE y = x
    <3>1. phase[y] = "read" /\ phase'[y] = "committed"
      BY <1>4, <2>4 DEF EnqueueCommit, TypeOK
    <3>2. CASE q \in fanout[y]
      BY <1>4, <2>1, <2>3, <2>4, <3>1, <3>2 DEF EnqueueCommit
    <3>3. CASE q \notin fanout[y]
      BY <1>4, <2>1, <2>2, <2>3, <2>4, <3>1, <3>3 DEF EnqueueCommit
    <3> QED
      BY <3>2, <3>3
  <2>5. CASE y # x
    <3>1. row'[<<y, q>>] = row[<<y, q>>] /\ phase'[y] = phase[y]
      BY <1>4, <2>1, <2>5 DEF EnqueueCommit, TypeOK
    <3> QED
      BY <2>2, <2>3, <3>1
  <2> QED
    BY <2>4, <2>5
<1>5. ASSUME NEW w \in Workers, Commit(w) PROVE FanOutAtomic'
  <2> SUFFICES \A x \in Deliveries :
                  row'[x].status # "absent" <=> row[x].status # "absent"
    BY <1>5 DEF Commit, wireVars, FanOutAtomic, Deliveries
  <2>1. ASSUME NEW x \in Deliveries
        PROVE  row'[x].status # "absent" <=> row[x].status # "absent"
    <3>1. CASE x \in claim[w]
      <4>1. row[x].status = "pending" /\ row'[x] = draft[w][x] /\ x \in tried[w]
        BY <1>5, <3>1 DEF Commit, BatchInv
      <4> QED
        BY <4>1 DEF BatchInv, Earned
    <3>2. CASE x \notin claim[w]
      BY <1>5, <3>2 DEF Commit
    <3> QED
      BY <3>1, <3>2
  <2> QED
    BY <2>1
<1>6. ASSUME NEW w \in Workers, NEW x \in Deliveries, NEW took \in BOOLEAN,
             NEW success \in BOOLEAN, Deliver(w, x, took, success)
      PROVE  FanOutAtomic'
  <2>1. row[x].status = "pending"
    BY <1>6 DEF Deliver, BatchInv
  <2> SUFFICES ASSUME NEW y \in Events, NEW q \in Endpoints, posts'[<<y, q>>] > 0
               PROVE  phase[y] = "committed"
    BY <1>6 DEF Deliver, FanOutAtomic
  <2>2. CASE x = <<y, q>>
    BY <2>1, <2>2 DEF FanOutAtomic
  <2>3. CASE x # <<y, q>>
    <3>1. posts'[<<y, q>>] = posts[<<y, q>>]
      BY <1>6, <2>3 DEF Deliver, TypeOK, Deliveries
    <3> QED
      BY <3>1 DEF FanOutAtomic
  <2> QED
    BY <2>2, <2>3
<1>7. CASE Tick \/ UNCHANGED vars
  BY <1>1, <1>7 DEF Tick, vars, wireVars
<1>8. ASSUME NEW x \in Endpoints, CreateEndpoint(x) \/ DeactivateEndpoint(x)
       PROVE  UNCHANGED <<row, phase, fanout, posts>>
  BY <1>8 DEF CreateEndpoint, DeactivateEndpoint, wireVars
<1>9. ASSUME NEW w \in Workers, Poll(w) \/ Abort(w)
       PROVE  UNCHANGED <<row, phase, fanout, posts>>
  BY <1>9 DEF Poll, Abort, wireVars
<1> QED
  BY <1>1, <1>2, <1>3, <1>4, <1>5, <1>6, <1>7, <1>8, <1>9
  DEF Next, Work, Idle, FanOutAtomic

\* A row is in flight for one worker at most, so InFlight is 0 or 1.
LEMMA CountOfOne ==
  ASSUME NEW W, NEW f, NEW d,
         \A v, w \in W : d \in f[v] /\ d \in f[w] => v = w
  PROVE  /\ (\E w \in W : d \in f[w]) => Cardinality({w \in W : d \in f[w]}) = 1
         /\ (\A w \in W : d \notin f[w]) => Cardinality({w \in W : d \in f[w]}) = 0
<1>1. ASSUME NEW w \in W, d \in f[w]
      PROVE  Cardinality({x \in W : d \in f[x]}) = 1
  <2>1. {x \in W : d \in f[x]} = {w}
    BY <1>1
  <2> QED
    BY <2>1, FS_Singleton
<1>2. ASSUME \A w \in W : d \notin f[w]
      PROVE  Cardinality({x \in W : d \in f[x]}) = 0
  <2>1. {x \in W : d \in f[x]} = {}
    BY <1>2
  <2> QED
    BY <2>1, FS_EmptySet
<1> QED
  BY <1>1, <1>2

LEMMA AttemptsAreNat == \A r \in Row : r.attempts \in Nat
BY DEF Row, MAX_ATTEMPTS

LEMMA PostsStep ==
  OutboxInv /\ TypeOK' /\ LocksExclusive' /\ BatchInv' /\ [Next]_vars => PostsAccounted'
<1> SUFFICES ASSUME OutboxInv, TypeOK', LocksExclusive', BatchInv', [Next]_vars,
                    NEW d \in Deliveries
             PROVE  posts'[d] = row'[d].attempts + undone'[d] + InFlight(d)'
  BY DEF PostsAccounted
<1> USE DEF OutboxInv
<1>1. /\ (\E w \in Workers : d \in tried[w]) => InFlight(d) = 1
      /\ (\A w \in Workers : d \notin tried[w]) => InFlight(d) = 0
  <2>1. \A v, w \in Workers : d \in tried[v] /\ d \in tried[w] => v = w
    BY DEF LocksExclusive, BatchInv
  <2> QED
    BY <2>1, CountOfOne DEF InFlight
<1>2. /\ (\E w \in Workers : d \in tried'[w]) => InFlight(d)' = 1
      /\ (\A w \in Workers : d \notin tried'[w]) => InFlight(d)' = 0
  <2>1. \A v, w \in Workers : d \in tried'[v] /\ d \in tried'[w] => v = w
    BY DEF LocksExclusive, BatchInv
  <2> QED
    BY <2>1, CountOfOne DEF InFlight
<1>3. posts[d] = row[d].attempts + undone[d] + InFlight(d)
  BY DEF PostsAccounted
<1>4. /\ posts[d] \in Nat /\ row[d].attempts \in Nat /\ undone[d] \in Nat
      /\ row'[d].attempts \in Nat
  BY AttemptsAreNat DEF TypeOK
<1>5. CASE /\ posts'[d] = posts[d] /\ row'[d].attempts = row[d].attempts
           /\ undone'[d] = undone[d] /\ tried' = tried
  BY <1>3, <1>5 DEF InFlight
<1>6. ASSUME NEW e \in Events, EnqueueCommit(e)
      PROVE  posts'[d] = row'[d].attempts + undone'[d] + InFlight(d)'
  <2>1. ASSUME row'[d] = [status |-> "pending", attempts |-> 0, next |-> stamp[e]],
               row[d].status = "absent"
        PROVE  row'[d].attempts = row[d].attempts
    BY <2>1 DEF RowInv
  <2>2. row'[d].attempts = row[d].attempts
    BY <1>6, <2>1, CommitIsFresh
  <2> QED
    BY <1>5, <1>6, <2>2 DEF EnqueueCommit, wireVars, workerVars, historyVars
<1>7. ASSUME NEW w \in Workers, NEW x \in Deliveries, NEW took \in BOOLEAN,
             NEW success \in BOOLEAN, Deliver(w, x, took, success)
      PROVE  posts'[d] = row'[d].attempts + undone'[d] + InFlight(d)'
  <2>1. CASE x = d
    <3>1. posts'[d] = posts[d] + 1 /\ row' = row /\ undone' = undone /\ d \in tried'[w]
      BY <1>7, <2>1 DEF Deliver, TypeOK, historyVars
    <3>2. \A v \in Workers : d \notin tried[v]
      BY <1>7, <2>1 DEF Deliver, LocksExclusive, BatchInv
    <3> QED
      BY <1>1, <1>2, <1>3, <1>4, <3>1, <3>2
  <2>2. CASE x # d
    <3>1. posts'[d] = posts[d] /\ row' = row /\ undone' = undone
      BY <1>7, <2>2 DEF Deliver, TypeOK, historyVars
    <3>2. \A v \in Workers : d \in tried'[v] <=> d \in tried[v]
      BY <1>7, <2>2 DEF Deliver, TypeOK
    <3> QED
      BY <1>1, <1>2, <1>3, <3>1, <3>2
  <2> QED
    BY <2>1, <2>2
<1>8. ASSUME NEW w \in Workers, Commit(w)
      PROVE  posts'[d] = row'[d].attempts + undone'[d] + InFlight(d)'
  <2>1. posts' = posts /\ undone' = undone /\ tried' = [tried EXCEPT ![w] = {}]
    BY <1>8 DEF Commit, Released, wireVars, historyVars
  <2>2. CASE d \in claim[w]
    <3>1. d \in tried[w] /\ row'[d].attempts = row[d].attempts + 1
      BY <1>8, <2>2 DEF Commit, BatchInv
    <3>2. \A v \in Workers : d \notin tried'[v]
      BY <2>1, <2>2 DEF LocksExclusive, BatchInv, TypeOK
    <3> QED
      BY <1>1, <1>2, <1>3, <1>4, <2>1, <3>1, <3>2
  <2>3. CASE d \notin claim[w]
    <3>1. row'[d] = row[d] /\ d \notin tried[w]
      BY <1>8, <2>3 DEF Commit, BatchInv
    <3>2. \A v \in Workers : d \in tried'[v] <=> d \in tried[v]
      BY <2>1, <3>1 DEF TypeOK
    <3> QED
      BY <1>1, <1>2, <1>3, <2>1, <3>1, <3>2
  <2> QED
    BY <2>2, <2>3
<1>9. ASSUME NEW w \in Workers, Abort(w)
      PROVE  posts'[d] = row'[d].attempts + undone'[d] + InFlight(d)'
  <2>1. /\ posts' = posts /\ row' = row /\ tried' = [tried EXCEPT ![w] = {}]
        /\ undone'[d] = IF d \in tried[w] THEN undone[d] + 1 ELSE undone[d]
    BY <1>9 DEF Abort, Released, wireVars
  <2>2. CASE d \in tried[w]
    <3>1. \A v \in Workers : d \notin tried'[v]
      BY <2>1, <2>2 DEF LocksExclusive, BatchInv, TypeOK
    <3> QED
      BY <1>1, <1>2, <1>3, <1>4, <2>1, <2>2, <3>1
  <2>3. CASE d \notin tried[w]
    <3>1. \A v \in Workers : d \in tried'[v] <=> d \in tried[v]
      BY <2>1, <2>3 DEF TypeOK
    <3> QED
      BY <1>1, <1>2, <1>3, <2>1, <2>3, <3>1
  <2> QED
    BY <2>2, <2>3
<1>10. ASSUME NEW w \in Workers, Poll(w)
       PROVE  UNCHANGED <<posts, row, undone, tried>>
  BY <1>10 DEF Poll, wireVars, historyVars
<1>11. ASSUME NEW p \in Endpoints, CreateEndpoint(p) \/ DeactivateEndpoint(p)
       PROVE  UNCHANGED <<posts, row, undone, tried>>
  BY <1>11 DEF CreateEndpoint, DeactivateEndpoint, wireVars, historyVars, workerVars
<1>12. ASSUME NEW e \in Events, EnqueueRead(e) \/ EnqueueRollback(e)
       PROVE  UNCHANGED <<posts, row, undone, tried>>
  BY <1>12 DEF EnqueueRead, EnqueueRollback, wireVars, historyVars, workerVars
<1>13. Tick \/ UNCHANGED vars => UNCHANGED <<posts, row, undone, tried>>
  BY DEF Tick, vars, wireVars, historyVars, workerVars
<1> QED
  BY <1>5, <1>6, <1>7, <1>8, <1>9, <1>10, <1>11, <1>12, <1>13 DEF Next, Work, Idle

LEMMA OutboxStep == OutboxInv /\ [Next]_vars => OutboxInv'
BY TypeStep, LocksStep, BatchStep, RowInvStep, FanOutStep, PostsStep DEF OutboxInv

-------------------------------------------------------------------------------
(***************************************************************************)
(* Theorems                                                                *)
(***************************************************************************)

\* The invariant of the outbox: types, exclusive locks, what batches hold,
\* earned statuses, atomic fan-out and the count of POSTs.
THEOREM SpecOutboxInv == Spec => []OutboxInv
BY OutboxInit, OutboxStep, PTL DEF Spec

\* Types, for any endpoints, events and workers.
THEOREM SpecTypeOK == Spec => []TypeOK
<1>1. OutboxInv => TypeOK
  BY DEF OutboxInv
<1> QED
  BY <1>1, SpecOutboxInv, PTL

\* No POST is lost from the count, however batches of workers interleave and
\* abort.
THEOREM SpecPostsAccounted == Spec => []PostsAccounted
<1>1. OutboxInv => PostsAccounted
  BY DEF OutboxInv
<1> QED
  BY <1>1, SpecOutboxInv, PTL

\* A row is given up only after MAX_ATTEMPTS POSTs and delivered only if a
\* receiver took one.
THEOREM SpecStatusEarned == Spec => []StatusEarned
<1>1. OutboxInv => StatusEarned
  <2> SUFFICES ASSUME OutboxInv, NEW d \in Deliveries
               PROVE  /\ row[d].status = "exhausted" => posts[d] >= MAX_ATTEMPTS
                      /\ row[d].status = "delivered" => accepted[d]
                      /\ row[d].status = "pending"   => row[d].attempts < MAX_ATTEMPTS
    BY DEF StatusEarned
  <2>1. row[d].status # "absent" => Earned(row[d], accepted[d])
    BY DEF OutboxInv, RowInv
  <2>2. posts[d] >= row[d].attempts
    <3>1. \A v, w \in Workers : d \in tried[v] /\ d \in tried[w] => v = w
      BY DEF OutboxInv, LocksExclusive, BatchInv
    <3>2. InFlight(d) = 1 \/ InFlight(d) = 0
      <4>1. CASE \E w \in Workers : d \in tried[w]
        BY <3>1, <4>1, CountOfOne DEF InFlight
      <4>2. CASE \A w \in Workers : d \notin tried[w]
        BY <3>1, <4>2, CountOfOne DEF InFlight
      <4> QED
        BY <4>1, <4>2
    <3>3. posts[d] = row[d].attempts + undone[d] + InFlight(d)
      BY DEF OutboxInv, PostsAccounted
    <3>4. undone[d] \in Nat /\ row[d].attempts \in Nat
      BY AttemptsAreNat DEF OutboxInv, TypeOK
    <3> QED
      BY <3>2, <3>3, <3>4
  <2>3. posts[d] \in Nat /\ row[d].attempts \in Nat
    BY AttemptsAreNat DEF OutboxInv, TypeOK
  <2> QED
    BY <2>1, <2>2, <2>3 DEF Earned, MAX_ATTEMPTS
<1> QED
  BY <1>1, SpecOutboxInv, PTL

\* A committed event has its rows, an event that rolled back has none.
THEOREM SpecFanOutAtomic == Spec => []FanOutAtomic
<1>1. OutboxInv => FanOutAtomic
  BY DEF OutboxInv
<1> QED
  BY <1>1, SpecOutboxInv, PTL

\* A settled row is in no batch, and nothing but a batch writes or sends it.
THEOREM SpecSettledIsFinal == Spec => SettledIsFinal
<1> DEFINE Settled(d) == row[d].status \in {"delivered", "exhausted"}
           Final == \A d \in Deliveries :
                       Settled(d) => row'[d] = row[d] /\ posts'[d] = posts[d]
<1>1. OutboxInv /\ [Next]_vars => Final
  <2> SUFFICES ASSUME OutboxInv, [Next]_vars, NEW d \in Deliveries, Settled(d)
               PROVE  row'[d] = row[d] /\ posts'[d] = posts[d]
    OBVIOUS
  <2>1. \A w \in Workers : d \notin claim[w]
    BY DEF OutboxInv, BatchInv
  <2>2. row'[d] = row[d]
    <3>1. ASSUME NEW w \in Workers, Commit(w) PROVE row'[d] = row[d]
      BY <2>1, <3>1 DEF Commit
    <3> QED
      BY <3>1, RowSteps, CommitIsFresh
  <2>3. posts'[d] = posts[d]
    BY <2>1, WireSteps DEF wireVars, Deliver, OutboxInv, TypeOK
  <2> QED
    BY <2>2, <2>3
<1>2. Spec => [][OutboxInv /\ [Next]_vars]_vars
  BY SpecOutboxInv, PTL DEF Spec
<1> QED
  BY <1>1, <1>2, PTL DEF SettledIsFinal

-------------------------------------------------------------------------------
(***************************************************************************)
(* The schedule of a row                                                   *)
(***************************************************************************)

\* A claimed row is due, and stays so; a failed POST reschedules it past that.
ScheduleInv ==
  \A w \in Workers :
     /\ \A d \in claim[w] : row[d].next <= now
     /\ \A d \in tried[w] : draft[w][d].status = "pending" =>
          draft[w][d].next >= row[d].next + Backoff(draft[w][d].attempts)

LEMMA ClockSteps ==
  ASSUME TypeOK, [Next]_vars
  PROVE  now \in Nat /\ now' \in Nat /\ now' >= now
<1>1. now \in Nat
  BY DEF TypeOK
<1>2. CASE Tick
  BY <1>1, <1>2 DEF Tick, TypeOK, Row
<1>3. CASE now' = now
  BY <1>1, <1>3
<1> QED
  BY <1>2, <1>3 DEF Next, vars, Idle, Work, CreateEndpoint, DeactivateEndpoint,
     EnqueueRead, EnqueueCommit, EnqueueRollback, Poll, Deliver, Commit, Abort

\* A POST that leaves the row pending puts it off by its backoff.
LEMMA OutcomeWaits ==
  ASSUME now \in Nat, NEW r \in Row, NEW success \in BOOLEAN,
         Outcome(r, success).status = "pending"
  PROVE  Outcome(r, success).next = now + Backoff(Outcome(r, success).attempts)
<1> DEFINE n == r.attempts + 1
<1>1. CASE success
  <2>1. Outcome(r, success) = [r EXCEPT !.attempts = n, !.status = "delivered"]
    BY <1>1 DEF Outcome
  <2>2. Outcome(r, success).status = "delivered"
    BY <2>1 DEF Row
  <2> QED
    BY <2>2
<1>2. CASE ~success /\ n >= MAX_ATTEMPTS
  <2>1. Outcome(r, success) = [r EXCEPT !.attempts = n, !.status = "exhausted"]
    BY <1>2 DEF Outcome
  <2>2. Outcome(r, success).status = "exhausted"
    BY <2>1 DEF Row
  <2> QED
    BY <2>2
<1>3. CASE ~success /\ ~(n >= MAX_ATTEMPTS)
  <2>1. Outcome(r, success) = [r EXCEPT !.attempts = n, !.next = now + Backoff(n)]
    BY <1>3 DEF Outcome
  <2>2. Outcome(r, success).attempts = n /\ Outcome(r, success).next = now + Backoff(n)
    BY <2>1 DEF Row
  <2> QED
    BY <2>2
<1> QED
  BY <1>1, <1>2, <1>3

\* No step writes a row that is in a batch, but the commit of that batch.
LEMMA ClaimedStays ==
  ASSUME OutboxInv, [Next]_vars, NEW w \in Workers, NEW d \in claim[w], d \in claim'[w]
  PROVE  row'[d] = row[d]
<1>1. d \in Deliveries /\ row[d].status = "pending"
  BY DEF OutboxInv, TypeOK, BatchInv
<1>2. ASSUME NEW v \in Workers, Commit(v) PROVE row'[d] = row[d]
  <2>1. v # w
    BY <1>2 DEF Commit, Released, OutboxInv, TypeOK
  <2>2. d \notin claim[v]
    BY <1>1, <2>1 DEF OutboxInv, LocksExclusive
  <2> QED
    BY <1>1, <1>2, <2>2 DEF Commit
<1> QED
  BY <1>1, <1>2, RowSteps, CommitIsFresh

\* A row is POSTed by its own worker once, and its version is then left alone.
LEMMA TriedSteps ==
  ASSUME OutboxInv, [Next]_vars, NEW w \in Workers, NEW d \in tried'[w]
  PROVE  \/ d \in tried[w] /\ draft'[w][d] = draft[w][d]
         \/ d \notin tried[w]
            /\ \E took, success \in BOOLEAN : Deliver(w, d, took, success)
<1> USE DEF OutboxInv
<1>1. CASE UNCHANGED workerVars
  BY <1>1 DEF workerVars
<1>2. ASSUME NEW v \in Workers, Poll(v)
      PROVE  d \in tried[w] /\ draft'[w][d] = draft[w][d]
  <2>1. d \in tried[w] /\ tried[w] \subseteq claim[w]
    BY <1>2 DEF Poll, BatchInv
  <2>2. v # w
    BY <1>2, <2>1 DEF Poll
  <2> QED
    BY <1>2, <2>1, <2>2 DEF Poll, TypeOK
<1>3. ASSUME NEW v \in Workers, Commit(v) \/ Abort(v)
      PROVE  d \in tried[w] /\ draft'[w][d] = draft[w][d]
  <2>1. v # w
    BY <1>3 DEF Commit, Abort, Released, TypeOK
  <2> QED
    BY <1>3, <2>1 DEF Commit, Abort, Released, TypeOK
<1>4. ASSUME NEW v \in Workers, NEW e \in Deliveries, NEW took \in BOOLEAN,
             NEW success \in BOOLEAN, Deliver(v, e, took, success)
      PROVE  \/ d \in tried[w] /\ draft'[w][d] = draft[w][d]
             \/ d \notin tried[w] /\ Deliver(w, d, took, success)
  <2>1. CASE v # w
    BY <1>4, <2>1 DEF Deliver, TypeOK
  <2>2. CASE v = w /\ d = e
    BY <1>4, <2>2 DEF Deliver
  <2>3. CASE v = w /\ d # e
    BY <1>4, <2>3 DEF Deliver, TypeOK
  <2> QED
    BY <2>1, <2>2, <2>3
<1> QED
  BY <1>1, <1>2, <1>3, <1>4, WorkerSteps

LEMMA ScheduleStep == OutboxInv /\ ScheduleInv /\ [Next]_vars => ScheduleInv'
<1> SUFFICES ASSUME OutboxInv, ScheduleInv, [Next]_vars, NEW w \in Workers
             PROVE  /\ \A d \in claim'[w] : row'[d].next <= now'
                    /\ \A d \in tried'[w] : draft'[w][d].status = "pending" =>
                         draft'[w][d].next >= row'[d].next + Backoff(draft'[w][d].attempts)
  BY DEF ScheduleInv, Backoff
<1>1. TypeOK /\ BatchInv /\ BatchInv'
  BY BatchStep DEF OutboxInv
<1>2. now \in Nat /\ now' \in Nat /\ now' >= now
  BY <1>1, ClockSteps
<1>3. claim[w] \subseteq Deliveries /\ tried[w] \subseteq claim[w]
      /\ tried'[w] \subseteq claim'[w]
  BY <1>1 DEF TypeOK, BatchInv
<1>4. \A d \in Deliveries : row[d].next \in Nat
  BY <1>1 DEF TypeOK, Row
<1>5. ASSUME NEW d \in claim'[w] PROVE row'[d].next <= now'
  <2>1. CASE d \in claim[w]
    <3>1. row'[d] = row[d]
      BY <1>5, <2>1, ClaimedStays
    <3>2. row[d].next <= now
      BY <2>1 DEF ScheduleInv
    <3> QED
      BY <1>2, <1>3, <1>4, <2>1, <3>1, <3>2
  <2>2. CASE d \notin claim[w]
    <3>1. Poll(w) /\ \E b \in Batches : d \in b
      BY <1>1, <1>5, <2>2, WorkerSteps
         DEF TypeOK, workerVars, Poll, Deliver, Commit, Abort, Released
    <3>2. row[d].next <= now /\ row' = row /\ now' = now
      BY <3>1 DEF Poll, Batches, Due
    <3> QED
      BY <3>2
  <2> QED
    BY <2>1, <2>2
<1>6. ASSUME NEW d \in tried'[w], draft'[w][d].status = "pending"
      PROVE  draft'[w][d].next >= row'[d].next + Backoff(draft'[w][d].attempts)
  <2>1. CASE d \in tried[w]
    <3>1. row'[d] = row[d]
      BY <1>3, <1>6, <2>1, ClaimedStays
    <3>2. draft'[w][d] = draft[w][d]
      BY <1>6, <2>1, TriedSteps
    <3> QED
      BY <1>6, <2>1, <3>1, <3>2 DEF ScheduleInv
  <2>2. CASE d \notin tried[w]
    <3>1. PICK took \in BOOLEAN, success \in BOOLEAN : Deliver(w, d, took, success)
      BY <1>6, <2>2, TriedSteps
    <3>2. d \in Deliveries /\ d \in claim[w] /\ row' = row
      BY <1>3, <3>1 DEF Deliver
    <3>3. draft[w][d] \in Row
      BY <1>1, <3>2 DEF TypeOK
    <3>4. draft'[w][d] = Outcome(draft[w][d], success)
      BY <1>1, <3>1, <3>2 DEF Deliver, TypeOK
    <3>5. draft'[w][d].next = now + Backoff(draft'[w][d].attempts)
      BY <1>2, <1>6, <3>3, <3>4, OutcomeWaits
    <3>6. row[d].next <= now
      BY <3>2 DEF ScheduleInv
    <3>7. Backoff(draft'[w][d].attempts) \in Nat
      <4>1. draft'[w][d].attempts = row[d].attempts + 1
        BY <1>1, <1>6, <3>2 DEF BatchInv
      <4>2. row[d].attempts \in Nat
        BY <1>1, <3>2, AttemptsAreNat DEF TypeOK
      <4> QED
        BY <4>1, <4>2, BackoffType
    <3> QED
      BY <1>2, <1>4, <3>2, <3>5, <3>6, <3>7
  <2> QED
    BY <2>1, <2>2
<1> QED
  BY <1>5, <1>6

\* The invariant of the schedule, next to OutboxInv.
LEMMA SpecScheduleInv == Spec => [](OutboxInv /\ ScheduleInv)
<1>1. Init => ScheduleInv
  BY DEF Init, ScheduleInv
<1> QED
  BY <1>1, OutboxInit, OutboxStep, ScheduleStep, PTL DEF Spec

\* No row is POSTed before its time, and each counted failure puts it off.
THEOREM SpecBackoffKept == Spec => BackoffKept
<1> DEFINE Kept ==
      \A d \in Deliveries :
        /\ posts'[d] # posts[d] => row[d].status = "pending" /\ row[d].next <= now
        /\ row[d].status = "pending" /\ row'[d].status = "pending" /\ row'[d] # row[d] =>
             row'[d].next >= row[d].next + Backoff(row'[d].attempts)
<1>1. OutboxInv /\ ScheduleInv /\ [Next]_vars => Kept
  <2> SUFFICES ASSUME OutboxInv, ScheduleInv, [Next]_vars, NEW d \in Deliveries
               PROVE  /\ posts'[d] # posts[d] => row[d].status = "pending" /\ row[d].next <= now
                      /\ row[d].status = "pending" /\ row'[d].status = "pending"
                           /\ row'[d] # row[d] =>
                           row'[d].next >= row[d].next + Backoff(row'[d].attempts)
    OBVIOUS
  <2>1. ASSUME posts'[d] # posts[d] PROVE row[d].status = "pending" /\ row[d].next <= now
    <3>1. PICK w \in Workers : d \in claim[w]
      BY <2>1, WireSteps DEF wireVars, Deliver, OutboxInv, TypeOK
    <3> QED
      BY <3>1 DEF OutboxInv, BatchInv, ScheduleInv
  <2>2. ASSUME row[d].status = "pending", row'[d].status = "pending", row'[d] # row[d]
        PROVE  row'[d].next >= row[d].next + Backoff(row'[d].attempts)
    <3>1. PICK w \in Workers : Commit(w)
      BY <2>2, RowSteps, CommitIsFresh
    <3>2. d \in tried[w] /\ row'[d] = draft[w][d]
      BY <2>2, <3>1 DEF Commit
    <3> QED
      BY <2>2, <3>2 DEF ScheduleInv
  <2> QED
    BY <2>1, <2>2
<1>2. Spec => [][OutboxInv /\ ScheduleInv /\ [Next]_vars]_vars
  BY SpecScheduleInv, PTL DEF Spec
<1> QED
  BY <1>1, <1>2, PTL DEF BackoffKept

-------------------------------------------------------------------------------
(***************************************************************************)
(* The outbox implements Outbox                                            *)
(***************************************************************************)

\* A POST of an open batch is one more than those the row and undone count.
LEMMA PostsOfTried ==
  ASSUME OutboxInv, NEW w \in Workers, NEW d \in tried[w]
  PROVE  posts[d] >= row[d].attempts + 1
<1>1. d \in Deliveries
  BY DEF OutboxInv, TypeOK
<1>2. \A v, u \in Workers : d \in tried[v] /\ d \in tried[u] => v = u
  BY <1>1 DEF OutboxInv, LocksExclusive, BatchInv
<1>3. InFlight(d) = 1
  BY <1>2, CountOfOne DEF InFlight
<1>4. posts[d] = row[d].attempts + undone[d] + InFlight(d)
  BY <1>1 DEF OutboxInv, PostsAccounted
<1>5. undone[d] \in Nat /\ row[d].attempts \in Nat
  BY <1>1, AttemptsAreNat DEF OutboxInv, TypeOK
<1> QED
  BY <1>3, <1>4, <1>5

\* The commit of an event puts its messages in at one moment.
LEMMA CommitEnqueues ==
  ASSUME OutboxInv, NEW e \in Events, EnqueueCommit(e)
  PROVE  Promise!Next
<1>1. PICK ms \in SUBSET Deliveries :
         ms = {d \in Deliveries : d[1] = e /\ d[2] \in fanout[e]}
  OBVIOUS
<1>2. \A d \in Deliveries :
         row'[d].status = IF d \in ms THEN "pending" ELSE row[d].status
  BY <1>1 DEF EnqueueCommit
<1>3. \A d \in ms : row[d].status = "absent"
  BY <1>1 DEF EnqueueCommit, OutboxInv, FanOutAtomic, Deliveries
<1>4. Promise!Enqueue(ms)
  BY <1>2, <1>3 DEF Promise!Enqueue, EnqueueCommit, wireVars
<1> QED
  BY <1>4 DEF Promise!Next

\* A POST is a send of a pending message.
LEMMA DeliverSends ==
  ASSUME OutboxInv, NEW w \in Workers, NEW d \in Deliveries,
         NEW took \in BOOLEAN, NEW success \in BOOLEAN, Deliver(w, d, took, success)
  PROVE  Promise!Next
<1>1. row[d].status = "pending"
  BY DEF Deliver, OutboxInv, BatchInv
<1>2. Promise!Send(d, took)
  BY <1>1 DEF Promise!Send, Deliver
<1> QED
  BY <1>2 DEF Promise!Next

\* The commit of a batch settles what its POSTs earned.
LEMMA CommitSettles ==
  ASSUME OutboxInv, NEW w \in Workers, Commit(w)
  PROVE  Promise!Next
<1>1. tried[w] = claim[w] /\ claim[w] \subseteq Deliveries
  BY DEF Commit, OutboxInv, TypeOK
<1>2. PICK done \in SUBSET Deliveries, gone \in SUBSET Deliveries :
         /\ done = {d \in claim[w] : draft[w][d].status = "delivered"}
         /\ gone = {d \in claim[w] : draft[w][d].status = "exhausted"}
  BY <1>1
<1>3. ASSUME NEW d \in claim[w]
      PROVE  /\ row[d].status = "pending"
             /\ Earned(draft[w][d], accepted[d])
             /\ draft[w][d].attempts = row[d].attempts + 1
             /\ draft[w][d] \in Row
             /\ posts[d] >= row[d].attempts + 1
  BY <1>1, <1>3, PostsOfTried DEF OutboxInv, BatchInv, TypeOK
<1>4. \A d \in done : row[d].status = "pending" /\ accepted[d]
  BY <1>3, <1>2 DEF Earned
<1>5. ASSUME NEW d \in gone
      PROVE  row[d].status = "pending" /\ posts[d] >= MAX_ATTEMPTS
  <2>1. draft[w][d].attempts >= MAX_ATTEMPTS /\ draft[w][d].attempts = row[d].attempts + 1
    BY <1>3, <1>2 DEF Earned
  <2>2. posts[d] >= draft[w][d].attempts
    BY <1>3, <1>2, <2>1
  <2>3. posts[d] \in Nat /\ draft[w][d].attempts \in Nat
    BY <1>1, <1>3, <1>2, AttemptsAreNat DEF OutboxInv, TypeOK
  <2> QED
    BY <1>3, <1>2, <2>1, <2>2, <2>3 DEF MAX_ATTEMPTS
<1>6. ASSUME NEW d \in Deliveries
      PROVE  row'[d].status = IF d \in done THEN "delivered"
                              ELSE IF d \in gone THEN "exhausted" ELSE row[d].status
  <2>1. CASE d \in claim[w]
    <3>1. row'[d] = draft[w][d]
      BY <2>1 DEF Commit
    <3>2. draft[w][d].status \in {"pending", "delivered", "exhausted"}
      BY <1>3, <2>1 DEF Earned, Row, DeliveryStatus
    <3> QED
      BY <1>3, <1>2, <2>1, <3>1, <3>2
  <2>2. CASE d \notin claim[w]
    BY <1>2, <2>2 DEF Commit
  <2> QED
    BY <2>1, <2>2
<1>7. Promise!Settle(done, gone)
  BY <1>4, <1>5, <1>6, <1>2 DEF Promise!Settle, Commit, wireVars
<1> QED
  BY <1>7 DEF Promise!Next

\* The webhook outbox implements Outbox: messages put in with the domain change,
\* sent only while pending, settled once and for a reason.
THEOREM SpecImplementsOutbox == Spec => ImplementsOutbox
<1>1. Init => Promise!Init
  BY DEF Init, Promise!Init, NoRow
<1>2. OutboxInv /\ [Next]_vars => [Promise!Next]_Promise!vars
  <2> SUFFICES ASSUME OutboxInv, [Next]_vars PROVE [Promise!Next]_Promise!vars
    OBVIOUS
  <2>1. CASE UNCHANGED <<row, wireVars>>
    BY <2>1 DEF Promise!vars, wireVars
  <2> QED
    BY <2>1, RowSteps, WireSteps, CommitEnqueues, DeliverSends, CommitSettles
<1> QED
  BY <1>1, <1>2, SpecOutboxInv, PTL DEF Spec, ImplementsOutbox, Promise!Spec

==============================================================================
