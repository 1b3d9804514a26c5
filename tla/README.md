# TLA+ models of tenant-billing-service

A multi-tenant billing API (FastAPI, SQLAlchemy async, PostgreSQL): businesses
create invoices, finalize them, take payments through a card processor, and are
told of what happened through webhooks.  These modules model the parts of it
where steps of several actors interleave, TLC checks them on small instances, and
TLAPS proves the safety properties for any number of calls, invoices, keys, endpoints,
workers and crashes.

Paths below are relative to the repository.

## 1. Inventory

| Component | State it keeps | Operations | Talks to |
|---|---|---|---|
| Invoice state machine (`app/services/invoice_state.py`, `app/models/invoice.py`) | none: a table of edges | `assert_transition_allowed` | called by the two services below |
| Payment service (`app/services/payment_service.py`, `app/routers/payments.py`) | `payment_attempts` rows, `invoices.state`; row locks; the session's identity map | `process_payment`, one handler per call of `POST /invoices/{id}/pay` | invoices (row lock), processor (HTTP), `enqueue_event` |
| Payment processor and client (`mock_psp/main.py`, `app/services/psp_client.py`) | what it charged | `charge` | answers, refuses, errs, or answers after the caller has left |
| Invoice service (`app/services/invoice_service.py`, `app/routers/invoices.py`) | `invoices`, `invoice_line_items` | create, get, list; finalize, void, uncollectible | same rows as payments; `enqueue_event` |
| Webhook endpoints and `enqueue_event` (`app/services/webhook_service.py`, `app/routers/webhooks.py`) | `webhook_endpoints`, `webhook_deliveries` | register, list, soft-delete; insert one delivery row per active endpoint in the caller's transaction | called inside payment and invoice transactions |
| Webhook worker (`app/workers/webhook_worker.py`) | the transaction of its batch | poll with `SKIP LOCKED`, POST, record the outcome, back off | receivers (HTTP) |
| Signing (`app/utils/signing.py`) | none | sign, verify with a freshness window | worker |
| Customers (`customer_service.py`, `routers/customers.py`) | `customers` | create, get, list | unique e-mail per business |
| API keys (`app/dependencies.py`, `app/utils/api_keys.py`) | `api_keys` | resolve the business of a request | every handler |
| Sessions and lifespan (`app/database.py`, `app/main.py`) | connections, the worker task | session per request, rollback on an exception, start and stop | everything |
| Migrations (`alembic/`) | constraints and indexes | apply | the two unique indexes payments rely on |

### Where it is hard

Handlers run concurrently and PostgreSQL runs their statements at READ COMMITTED,
so two handlers interleave at every statement that can wait and at every commit.

* A pay call makes **two commits** with an HTTP request in between.  Between them it
  holds no lock and the invoice is still `open`.
* The **processor** may charge after the caller gave up, or charge and lose the answer.
* finalize, void and uncollectible **read without a lock** and write blindly.
* The idempotency lookup names no business, so a pay call of **another business** may be
  answered from this one's attempts.
* `enqueue_event` reads the endpoints **before the commit** of its caller; they may come
  and go in between.
* The second lock of a pay call returns an object the session **already has**.
* A worker handles a whole batch in **one transaction**, but its POSTs cannot be undone.
* A creation writes its rows in **several flushes** of one transaction, and a list is read
  in three statements, a page at a time, while others commit.  `created_at` is the
  BEGIN of a transaction, so a row that commits later may be **older** than those on the
  pages already read.
* A **crash** may come between any two of these steps.

`PROJECT.json` lists the hazards at their lines with the properties that cover them.

### What makes each part correct

* Payments: at most one charge per invoice; the ledger (`payment_attempts`) never
  contradicts the processor; an answer never contradicts the ledger; one idempotency key
  stands for one attempt; another business's call moves nothing; every call is answered.
* Invoices: states follow the documented edges; a paid invoice is backed by one charge.
* Outbox: rows appear with the domain change or not at all; every POST is accounted
  for; a row is settled only when earned, and then for good; every row gets settled.
  What receivers are told is what happened.
* Customers and invoices: one customer per e-mail and business; a call that fails leaves
  nothing; every invoice shown has all its line items and their sum; no request is shown
  or bills another business's rows; paging misses nothing.

## 2. Modules

| Module | Models | Kind |
|---|---|---|
| `InvoiceState` | states, terminal states, edges, the assertion | operators |
| `MockPsp` | what the processor decides for a card token, and which decisions outlive the caller | operators |
| `PaymentService` | pay calls, transitions, processor, crashes, on the same invoices | state machine |
| `PaymentServiceMC` | symmetry for TLC | instance |
| `PaymentServiceProofs` | theorems about `PaymentService` | proofs |
| `WebhookOutbox` | endpoints, `enqueue_event`, workers, receivers, the clock | state machine |
| `WebhookOutboxMC` | symmetry for TLC | instance |
| `WebhookOutboxProofs` | theorems about `WebhookOutbox` | proofs |
| `Collection` | what collecting invoices promises: reserve, charge, refuse, collect | abstract state machine |
| `Outbox` | what an outbox promises: enqueue once, send while pending, settle once | abstract state machine |
| `Registry` | what requests for customers and invoices promise: add whole, show what is there, refuse for a reason | abstract state machine |
| `TenantBilling` | payments and transitions with the events their commits write, over `Outbox` | composition |
| `TenantBillingMC` | symmetry for TLC | instance |
| `TenantBillingProofs` | theorems about `TenantBilling` | proofs |
| `Accounts` | authentication, creation and reads of customers and invoices | state machine |
| `AccountsMC` | the workloads for TLC | instance |
| `AccountsProofs` | theorems about `Accounts` | proofs |

How they fit together: `PaymentService` implements `Collection`, `WebhookOutbox`
implements `Outbox` and `Accounts` implements `Registry`, each by `INSTANCE ... WITH` and
checked as a `PROPERTY`.
`TenantBilling` extends `PaymentService` and uses `Outbox` for the deliveries, so it
composes the handlers with any implementation of the outbox, of which `WebhookOutbox`
is one.  `Accounts` stands beside them: it has the creations in their statements,
where `PaymentService` has one step that makes a draft.

Definitions called "Mutant" in the modules are plausible bugs in the operation that
follows them.  No specification uses them: putting one in the place of that operation
must break the property it is paired with in `PROJECT.json`.

### PaymentService

An action is one stretch of a handler between two points where another handler can get
in: a row lock it waits for, a commit, or the call to the processor.

| Code (`process_payment`) | Action | Leaves `pc` at |
|---|---|---|
| router: header present? | `Arrive` | `lookup` or `done` (422) |
| step 1: idempotency lookup | `Lookup` | `lock` or `done` (replay, or 409) |
| step 2: `SELECT ... FOR UPDATE`, assertion | `LockInvoice` | `insert` or `done` (404, also for another business's invoice; 422) |
| INSERT of the pending attempt, commit 1 | `InsertPending` | `call`, `refetch` or `done` (422, 500) |
| the `IntegrityError` branch: look for a winner | `Refetch` | `done` (replay, or 409) |
| step 3: `psp_client.charge` | `CallPsp` | `waiting` |
| step 4: no outcome, commit 2 | `RecordUnknown` | `done` (202) |
| step 4: refused, commit 2 | `RecordFailed` | `done` (402) |
| step 4: charged; autoflush, wait for the invoice | `FlushSucceeded` | `relock` |
| step 4: `state = 'paid'`, commit 2 | `RecordPaid` | `done` (200) |
| PostgreSQL's `deadlock_timeout` | `AbortInsert`, `AbortRecord` | `done` (500) |

`state`, `attempt` and `lock` are committed rows and row locks; `seen` is the state on
the session's `Invoice` object; `psp` is what the processor knows.  An attempt is named
by the call that inserted it, so `attempt[r]` and `call[r]` together are a row.

Points of the code that are easy to get wrong when reading it, and how the model has them:

* **The stale object.**  `app/database.py:21` sets `expire_on_commit=False`, and the
  second `SELECT ... FOR UPDATE` has no `populate_existing`.  SQLAlchemy therefore
  returns the `Invoice` of step 2 with its old attributes.  `RecordPaid` asserts on
  `seen[r]`, not on `state[i]`, and overwrites `state[i]`.
* **Waiting INSERTs.**  An INSERT that conflicts with a row another transaction has
  updated and not committed waits for that transaction.  `BeingUpdated` is such a row
  (autoflush wrote `succeeded`, commit 2 has not happened), and `InsertPending` has no
  enabled disjunct meanwhile.  With the invoice's lock this closes a cycle,
  `DeadlockedOn`.
* **Tenants.**  A request has a business, an invoice its `Owner`.  `LockInvoice` and
  `TransitionRead` find an invoice only for its owner (`Found`).  `Lookup` and `Refetch`
  name no business, as in the code, so a stranger's call that names the invoice, the key
  and the card of an owner's call is answered from the owner's attempt.
  `StrangersOnlyReplay` says that it can do no more than that.
* **Values too long.**  A key over 255 or a card over 100 characters (`TooLong`) fails at
  the INSERT with an error that is no `IntegrityError`, and the call ends in a 500
  (`DataError`).  PostgreSQL raises it while it forms the row, before any CHECK.
* **Order of violations.**  PostgreSQL evaluates the CHECK on the amount before any
  index, and the unique key (older) before the partial index on pending attempts.
* **One transition, two actions.**  `transition_invoice_state` reads with a plain SELECT
  (`TransitionRead`) and updates by primary key (`TransitionWrite`), which waits for a
  row lock and then overwrites whatever is committed.  From its UPDATE to its commit
  it waits for nothing, so these are one action.
* **Crash.**  The service is one process.  A crash loses all handlers and open
  transactions and keeps the commits; the processor goes on.  A single handler that
  loses its connection is one that takes no further step.

### WebhookOutbox

`EnqueueRead` and `EnqueueCommit`/`EnqueueRollback` are the two ends of a transaction
that calls `enqueue_event`: the endpoints are read in the middle of it, the rows appear
at its commit.  `stamp` is the clock at the read, which the rows carry as their first
`next`.  `Poll`, `Deliver`, `Commit`, `Abort` are a worker's batch: `claim` are
its row locks, `draft` its uncommitted versions of those rows.  `Batches` is the query:
due rows that no other transaction has locked, longest overdue first, at most
`BatchLimit`.  A receiver may take a POST and its answer still come too late, so
`Deliver` has `took` and `success` apart.  `Abort` stands for a crash, for `stop()`
cancelling the task and for a database error.  `Tick` moves the clock to the next moment
a row falls due; nothing else depends on time.

Left out: the branch for an endpoint that is gone (the foreign key cascades and the
locked delivery row keeps its endpoint, so it is unreachable), the payload and its
signature.  The worker does not look at `is_active`, so a row of a deactivated endpoint
is still sent; README.md:347 documents that, and the model follows the code.

### Collection, Outbox and Registry

`Collection` has a ledger and a set of charged requests.  A request reserves its invoice
only if no other has it undecided or collected; it may be charged only while it has
the invoice; a charged request is never released.  The refinement maps `ledger` to
`attempt` and `charged` to what the processor did.  A crash, a timeout, a lost answer, a
deadlock and a replay are all stutters.  Like `NoDoubleCharge` it holds for clients that
do not overlap finalize calls.

`Outbox` has messages, an (event, endpoint) pair each.  The refinement maps a delivery
row to its message, `sends` to all POSTs made, those of aborted batches included, and
`taken` to whether a receiver took one.  A poll, an abort and the clock are stutters: an
aborted batch leaves the message pending and its POSTs counted, which is at-least-once
delivery.

`Registry` has no transactions: an entry is added whole and never changes, and each request
gets one answer that says what became of it.  The refinement maps an entry to a committed
row, with its line items and their sum for an invoice.

| `Accounts` | `Registry` |
|---|---|
| `Authenticate` | `Ask`: what a read must show, and what a 404 must lack, is fixed here (`due`) |
| `Commit` | `Add` |
| `LoadItems` | `Show`: of the last page together with the answer, of a full one without |
| a 404, 409 or 500, `Abort` | `Refuse` |
| flushes, waits for the unique index, counts, pages whose items are not read yet, and `NextPage` | stutters |

A listing is one request of the registry and several of the service: a 200 with a full page
is not yet an answer to the whole listing, and `Told` maps it to none.

So a 409 means that the address was taken at the moment of the 409, a 404 that the named row
was not there when the request came, and a 200 covers every row that was there then.

### TenantBilling

A transaction of the service with an event has two steps here.

| Code | Action |
|---|---|
| the flush, then `enqueue_event`'s SELECT of the active endpoints (`webhook_service.py:97`) | `CreationFlushed`, `PaymentFlushed`, `FailureFlushed` |
| the commit of the change and of one delivery row per endpoint read | `InvoiceCreated`, `PaymentRecorded`, `FailureRecorded` |

The second are the steps of `PaymentService` that commit, joined with `Outbox`'s `Enqueue`.
`reading` are the events whose transaction is between the two, `targets` the endpoints it
read.  In between endpoints are registered and deactivated, and other handlers meet what
the transaction holds: a payment the row of its invoice (`RowHeld`), a failure the row of its
attempt, for which a conflicting INSERT waits (`InsertHeld`).  A crash rolls the transaction
back and forgets what it read.  `BillingAssumption` says that the invoices are of one business,
as the endpoints `enqueue_event` reads are those of the invoice's business only.

All other steps of the handlers are `Silently`: they leave the outbox
alone, as the code calls `enqueue_event` nowhere else.  In particular `OutcomeUnknown` (a
202) announces nothing, and the flush of a charge (`ChargeKnown`) commits nothing.
`Enqueue` asks that no message is there twice.  This never blocks a handler: the proof
shows that no message exists before its change (`TellInv`).

### Accounts

One call is one request, one transaction at READ COMMITTED and one row at most, named by
the call.  Only a list call is more: it stands for a client with its requests for one page
after another.  The service handles each of them by `Count`, `ReadPage` and `LoadItems`;
whether the client asks for a next page is its own choice, and `NextPage` is external.

| Code | Action | Leaves `pc` at |
|---|---|---|
| `get_current_business` (first statement, so the BEGIN) | `Authenticate` | first step of the handler, or `done` (401) |
| `create_customer`: flush | `InsertCustomer` | `commit`, or `done` (409) |
| `create_invoice`: customer lookup | `FindCustomer` | `invoice`, or `done` (404) |
| ... total and first flush | `FlushInvoice` | `lines`, or `done` (500) |
| ... line items and second flush | `FlushLines` | `commit`, or `done` (500) |
| `db.commit()` | `Commit` | `done` (201) |
| `get_db` on an exception, a lost connection, a crash | `Abort` | `done` (500) |
| lists: `SELECT count(*)` | `Count` | `page` |
| lists and gets: the rows | `ReadPage` | `items`, or `done` (404) |
| `selectinload`, then the answer | `LoadItems` | `done` (200) |
| (external) a client that has a full page asks for the next | `NextPage` | `count` |

* **Waiting INSERTs.**  An INSERT that equals an uncommitted row waits for that
  transaction (no disjunct of `InsertCustomer` is enabled), then fails if it committed and
  goes on if it rolled back.
* **Time.**  `began` numbers the transactions by their BEGIN, which is `now()` and so
  `created_at`.  Two transactions are assumed to begin in different microseconds: of
  rows with equal timestamps PostgreSQL may change the order from page to page.
* **Clients that page** may stop after any page.  What they are shown is claimed to be
  complete only of one that stops at a short page.  A client that stops when
  `skip + limit >= total` can miss the last row, since `total` is counted before the
  page is read; the code promises neither.
* **Widths.**  `quantity` is INTEGER, amounts and totals are BIGINT, Python's integers
  are unbounded; asyncpg refuses a parameter that does not fit.
* The creation's event is in `TenantBilling`; here it would add no statement that can
  fail in another way than `Abort`.

## 3. Runs

| Run | Instance | Shows |
|---|---|---|
| `payments` | 1 invoice, 3 pay calls, 2 transitions, 2 keys, 3 cards, 1 crash, `SpecSerialFinalize` | no double charge; ledger, replies and invoice agree with the processor; idempotent replies; the handlers implement `Collection` |
| `payments_exclusive` | 2 businesses, an ordinary and a zero-total invoice, 2 pay calls, 2 transitions, 4 cards, a missing key and one too long, strangers' requests, 1 crash, `SpecExclusive` | another business's calls change nothing and are only ever told of an attempt whose key and card they name; ledger and replies agree with the processor for every kind of card; invoice states follow the documented edges; 200 means paid, for ever |
| `payments_live` | 1 invoice, 2 pay calls, 2 transitions, 2 keys, 3 cards, 1 crash, `FairSpec` | every pay call the server took up is answered; no wait closes a circle but one PostgreSQL breaks; without restriction of clients, a charge per accepted finalize, and a paid invoice has its charge |
| `outbox` | 1 endpoint, 2 events, 2 workers, batches of 1, 1 abort | POSTs accounted for; status earned; fan-out atomic; settled rows are final; no POST is early; the workers implement `Outbox` |
| `outbox_live` | 2 endpoints, 1 event, 2 workers, batches of 2, 1 abort, `FairSpec` | every row is delivered or given up |
| `billing` | 1 invoice, 2 pay calls, 2 transitions, 2 keys, 2 cards, 1 endpoint, 1 crash, `BillingSerialSpec` | the endpoint comes and goes while transactions are open: an event commits with its change, for exactly the endpoints its transaction read; receivers take only what the processor agrees with; `invoice.paid` is the last word |
| `accounts` | 4 calls, 2 businesses and an unknown key, 74 workloads, pages of 1, 1 abort, INTEGER up to 2, BIGINT up to 4 | one customer per address; a 409 is earned; all rows or none; totals add up; tenants are apart; paging misses nothing, and `total` never overstates; an INSERT waits only for a commit; the requests implement `Registry` |

The remaining runs exhibit where the code does not keep what the repository says of it:

| Run | What happens |
|---|---|
| `voided_then_paid` | A void commits between the two commits of a pay call.  The second lock does not refresh the object, the assertion passes, and the voided invoice becomes `paid`.  The comment at `payment_service.py:255` calls the lock a defence against exactly that. |
| `finalize_twice` | Two finalize calls both read `draft`.  The first opens the invoice, it is paid, the second writes `open` again, and the next pay call charges once more. |
| `pay_deadlock` | One pay call holds the invoice and waits at its INSERT; the other has flushed its attempt and waits for the invoice.  PostgreSQL aborts one: a 500 that `tests/test_concurrency.py` says cannot come. |
| `zero_total` | The attempt of a zero-total invoice violates the amount CHECK, the handler takes this for a key race and answers 409 though nothing was ever tried. |
| `retry_schedule` | `BACKOFF_SECONDS` is indexed with `attempts` after its increment, so the first retry waits 5 s, not the documented 1 s. |

Three more divergences have no run of their own.  Of a void
and an uncollectible that both read `open`, the second overwrites the first, against
DESIGN.md:97 ("Terminal states have no outgoing transitions").  And a retry whose lookup
precedes the first call's INSERT and whose lock follows its second commit is refused
with 422 rather than served the cached attempt (README.md:275), since the key is looked
up only before the lock.  And DESIGN.md:193 says "Every query scopes by `business.id`", while
the idempotency lookup (`payment_service.py:112-117`) does not: another business that sends
the invoice's id with the owner's key and card is given the owner's attempt, where the design
asks for a 404.  `StrangersOnlyReplay` is what remains of that promise.

### Which clients

`NoDoubleCharge` and `PaidIsSettled` do not hold of every client, as `finalize_twice`
shows.  `SpecSerialFinalize` restricts the environment as little as makes them true: no
two finalize calls of one invoice between their read and their write.  `voided_then_paid`
is possible under it.  `SuccessMeansPaid` and `LegalTransitions` need `SpecExclusive`:
a transition is never in flight together with another transition or a pay call of the same
invoice.  Everything else holds of `Spec`, that is of all clients, and is proved so;
the run checks it under `SpecSerialFinalize` because it shares an instance with the other
two.  In the same way `PaidIsLastWord` needs `BillingSerialSpec` (a reopened invoice is
charged, and announced, again), while the other properties of `billing` hold of
`BillingSpec` and are proved of it.

What remains of the double-charge promise for every client is `OneChargePerFinalize`: a
second charge takes a second finalize that was answered 200.  What remains of
`PaidIsSettled` is `PaidIsCharged`: an invoice that says paid was charged, and the ledger
has it.

### Bounds

* `MaxCrashes`, `MaxAborts` bound what is otherwise unbounded; requests are finite
  because each call is one identifier.  Client retries are further calls with the same key.
* Three pay calls (run `payments`) are enough for a call in flight, a rival with another key, and a retry.
  The conflicts are between two of them, and the third is there to come after.
* Two transitions: finalize and one more, or two that race.
* Strangers (run `payments_exclusive`) copy requests that an owner can succeed with, as
  others find nothing to replay.  The other payment runs have one business: a stranger's
  call changes nothing there, which is `StrangersOnlyReplay`, proved of all clients.
* The cards stand for what the processor can do: charge, charge after the caller left,
  refuse, err.  Two further tokens behave like two of these.
* Two workers with batches of one race for rows; batches of two abort half way.  All five
  attempts happen.

* `MinSends = MaxSends = 1` in `billing`: how often a message is sent is the business of
  the run `outbox`; here it matters whether it was taken.
* `accounts` has four calls because a race needs two, a third transaction lets a row
  appear out of order, and one reads.  With a page of one row a list of three takes
  four pages, so commits fall between any two.  A workload fixes what the four calls
  want; the workloads are three families: customers (same, other, and another business's
  address), invoices (fitting, too large in the sum, too large in a factor), and
  refusals (unknown key, an id of the wrong kind).
* Widths are scaled, `IntMax = 2` and `BigMax = 4`: enough that a sum overflows whose
  parts fit, and that a factor overflows whose product fits.

Deadlock is checked in `accounts` as in the others: an INSERT that waits is always released.

`SYMMETRY` is used in safety runs only.  No operator distinguishes calls, keys or
endpoints, and ordinary invoices are permuted only among themselves.

### Fairness

`PaymentService!Fairness`: the server works on a request once it has it (`Serve`); the
HTTP client gives up after `PSP_TIMEOUT_SECONDS`, so a call leaves `waiting` whatever the
processor does; PostgreSQL breaks deadlocks after `deadlock_timeout`; a transition's
UPDATE runs.  All of these are weak.  Clients need not call, the processor need not decide.
Row locks need no strong fairness: every call takes a lock at most once or twice, so only
finitely many can overtake.

`WebhookOutbox!Fairness`: a worker polls in a loop as long as it runs, and time passes.
No receiver need answer, no event need happen.

## 4. Proofs

`PaymentServiceProofs` proves, from the assumption `PaymentAssumption` alone and for
any sets of invoices, calls, keys and cards:

| Theorem | Says | Of |
|---|---|---|
| `SpecTypeOK` | types | all clients |
| `SpecLedgerAgreesWithPsp` | a final attempt records the processor's decision, a charge always has an attempt that says so or is pending | all clients |
| `SpecNoHiddenCharge` | a caller whose card reached the processor gets its own attempt, or a 500 | all clients |
| `SpecIdempotentReplies` | one key, one attempt, one body in all answers | all clients |
| `SpecRepliesMatchPsp` | 200 only after a charge, 402 only after a refusal | all clients |
| `SerialNoDoubleCharge` | at most one charge per invoice | clients with serial finalize |
| `SerialPaidIsSettled` | a paid invoice has one succeeded attempt and nothing outstanding | clients with serial finalize |
| `SpecOneChargePerFinalize` | an invoice is charged at most once per accepted finalize | all clients |
| `SpecPaidIsCharged` | a paid invoice has a charge, and the ledger has it | all clients |
| `SpecStrangersOnlyReplay` | a call for another business's invoice charges and changes nothing; at most it is shown an attempt whose key and card it names | all clients |
| `SpecEveryWaitEnds` | a call waits only for one that can go on, or in the deadlock PostgreSQL breaks | all clients |
| `ExclusiveSuccessMeansPaid` | a 200 means the invoice is paid, then and ever after | exclusive clients |
| `ExclusiveLegalTransitions` | `invoices.state` moves along the documented edges | exclusive clients |

The argument is in layers.

`IInv` is inductive for `Spec`.  `HandlerInv` ties where a handler is to its row and to
the processor (`call`: pending and unasked; `relock`: pending and charged), which is
what makes a late decision harmless.  `LockInv` says that the holder of an invoice is at
its INSERT and that the invoice is then open.  `KeyUnique` and `PendingUnique` are the two
indexes.  `ReplyInv` says that an answer names a row with its key and body.

`SerialInv` is inductive for `SpecSerialFinalize`, given `IInv`.  Its heart is
`BlockingUnique`: at most one attempt of an invoice is pending or succeeded.  The partial
index gives it for pending ones only.  A succeeded attempt blocks a new one because
its invoice is terminal (`SucceededClosed`), hence no call gets past `LockInvoice`; and
it stays terminal because a finalize that could reopen it must have read `draft`
(`TransitionInv`), which it cannot have while an attempt exists, unless another finalize
was in flight with it.  This is where the restriction on clients enters.  A charge is
always pending or succeeded (`LedgerAgreesWithPsp`), so `NoDoubleCharge` follows.

`ExclusiveInv` is inductive for `SpecExclusive`, given `IInv`.  It says that what a
handler read is still so when it writes: a transition about to write is still allowed
(`WriteAllowed`), and an invoice is open from commit 1 to commit 2 of a pay call
(`PayingOpen`).  Then every write follows an edge, and a succeeded attempt keeps its
invoice paid (`SucceededPaid`).

`AllClientsInv` is inductive for `Spec`, given `IInv`, and so holds where `SerialInv` does
not.  Its heart is a count (`CountInv`): an invoice has at most as many attempts that have
not failed as accepted finalize calls, and strictly more finalize calls than succeeded
attempts while it is `open`.  The second half is what lets a new attempt in: at an INSERT the
invoice is open and has no pending attempt, so its succeeded attempts leave one finalize over.
A charge belongs to an attempt that has not failed, hence `OneChargePerFinalize`.

`EveryWaitEnds` is the part of `PayAnswered` that needs no fairness.  Only the holder of
an invoice's lock can be waited for at that lock, and it is at its INSERT (`LockInv`).
If the INSERT conflicts with a row being updated, that row's call is at `relock` and
waits, if for anything, for the same invoice: the cycle `DeadlockedOn`, and the database
aborts one of the two.  The assertion at `relock` never stops a call, since what it saw
is `open` (`SeenInv`).

`StrangersOnlyReplay` rests on `StrangerInv`: a stranger's call never gets past the lock, so
it has no attempt of its own, and `ReplyInv` has the attempt it is told of under its key
and body.

`WebhookOutboxProofs` proves, from `OutboxAssumption` and for any endpoints, events and
workers (any batch limit, any number of aborts), all safety properties of the run
`outbox`: `SpecTypeOK`, `SpecPostsAccounted`, `SpecStatusEarned`, `SpecFanOutAtomic` and
the action properties `SpecSettledIsFinal` and `SpecBackoffKept`.  The inductive
invariant `OutboxInv` adds what a batch knows: no row is in two batches
(`LocksExclusive`); a claimed row is pending in the database; a worker's version of it
is the row itself before its POST, and exactly one attempt further and `Earned` after it
(`BatchInv`).  Hence `InFlight` is 0 or 1 (`CountOfOne`) and a commit moves one POST
from in flight to `attempts`, an abort to `undone`.  `ScheduleInv` adds the clock: a
claimed row is due, as committed, until its batch ends, though other workers poll and
time passes; and a version that is still pending after its POST is due at least its
backoff later.  `SpecBackoffKept` follows: a POST goes out only for a row that is due,
and a commit can only move a row on.

Both refinements are theorems too.  `SerialImplementsCollection` maps every step under
`SpecSerialFinalize`; the one that needs the invariants is `InsertPending`, which may
reserve only because `BlockingUnique` holds of the state after it.
`SpecImplementsOutbox` needs `BatchInv` for the commit of a batch: a row may be settled
because the worker's version of it is `Earned`.

`TenantBillingProofs` proves, from the assumptions of `PaymentService` and
`BillingAssumption`:

| Theorem | Says | Of |
|---|---|---|
| `SpecBillingTypeOK` | types | all clients |
| `SpecToldAsItHappens` | events appear with their change, for exactly the endpoints that its transaction read as active | all clients |
| `SpecReceiversToldTruth` | no receiver takes an event that the processor contradicts | all clients |
| `BillingRunsPayments` | it implements `PaymentService!Spec` | all clients |
| `BillingUsesOutbox` | it implements `Outbox!Spec` | all clients |
| `OutboxNeverBlocks` | `Enqueue` is never what keeps a handler from its commit | all clients |
| `BillingCollects` | it implements `Collection!Spec` | clients with serial finalize |
| `SerialPaidIsLastWord` | nothing is announced of an invoice after `invoice.paid` | clients with serial finalize |

A composition is only as good as its parts' claim to be parts of it.  The handlers' part
of every step is a step of `PaymentService` (`BillingRunsPayments`), so all that is
proved of `PaymentService` holds here, `Collection` included; the outbox's part is a
step of `Outbox` (`BillingUsesOutbox`), which `WebhookOutbox` implements; and the
conjunction takes no step away from a handler that commits (`OutboxNeverBlocks`).  The
new invariant is that a message of an event exists only if the event happened (`TellInv`);
that the change has not happened when the endpoints are read (`ReadFacts`) follows from where
the handler is; with the
ledger's agreement with the processor this gives `ReceiversToldTruth`, and with
`BlockingUnique` it gives `PaidIsLastWord`.

`AccountsProofs` proves all ten properties of the run `accounts`, from
`AccountsAssumption` and for any finite set of calls, any businesses, payloads and
workloads, any page size and any number of aborts.  `StageInv` ties the handler to its row
and its answer, `InvoiceInv` an invoice to its line items and its customer, `EmailInv` is
the unique constraint, `ReaderInv` says that what a reader holds are committed rows as they
are.  Three arguments go beyond these.

* *Paging* (`SpecReadsAreComplete`, `SpecTotalNeverOverstates`).  `BeganInv`:
  timestamps tell transactions apart.  `PagingInv`: a row that was committed when the client
  started, and that it has not been shown, still lies at its offset or behind it.  It stays so
  because rows are never deleted, so a commit in between can only push a row back
  (`PositionGrows`); and a short page is the last because the positions of the rows have no
  gap (`EveryPosition`, by counting).
* *Waits* (`SpecInsertWaitsEnd`).  A transaction whose customer is in the table and not
  committed has nothing left but its commit, so an INSERT waits for one that waits for nothing.
* *The refinement* (`SpecImplementsRegistry`), step by step as in the table of section 2.
  `Commit` is an `Add` because `EmailInv`
  keeps the address free until then and `InvoiceInv` has the customer committed; a page
  is a `Show` because `ReaderInv` makes what was held the row as it is; the last one covers
  `due` by `PagingInv`.  `EntryInv` adds that only a creation has a row and that a GET
  holds the row it names.

Model-checked only: the liveness properties `PayAnswered` and `OutboxSettles`, since
TLAPS does not reason about fairness or ENABLED.  Theorems cover what safety there is in
liveness: `SpecEveryWaitEnds` and `SpecInsertWaitsEnd` that nobody waits for ever on
someone who waits.  The small runs check every other property as well, on instances
where the hazards happen, and the mutants show that each can fail.

## 5. Not modelled, and why

* Signing: a keyed hash, computed afresh for every POST.  The verifier with its freshness
  window is for receivers, and no code of the repository calls it.
* Issuing and revoking API keys: no code of the repository writes `api_keys`;
  `generate_api_key` and `verify_api_key` are called nowhere.  A key has the same business
  throughout a behaviour of `Accounts`.
* The state filter of `list_invoices`: an invoice that leaves the filter between two pages
  moves those behind it to offsets already passed, so a filtered listing can miss rows.
  The repository promises nothing else.
* An answer that is lost after the commit of a creation: creations have no idempotency
  key, so the client cannot tell this from an abort, and the model's caller is told 201.
* An answer of the processor with a 2xx status and an unreadable body
  (`psp_client.py:101-104`): the mock processor sends none.  It would be a 500 that leaves the
  attempt pending, like a handler that steps no more.
* Redis: in `docker-compose.yml`, used by no code.
* Exhaustion of the connection pool and statement timeouts: the code sets neither limits
  nor retries for them, and an error there is a handler that steps no more, or `Abort`.
* Recovery of attempts that stay pending: the repository names it as a known gap; such an
  invoice stays blocked, and the double-charge argument relies on it.
* Applying migrations, start-up and health checks: nothing runs beside them.  The
  constraints the migrations create are in the actions that meet them.
* Listing the endpoints: it changes nothing and is one statement.

## 6. State of the development

All modules above are complete, and every property a passing run checks is also a
theorem, the two liveness properties excepted.  What could be added: the state filter of
`list_invoices`, and a map from the creations of `Accounts` to the drafts of
`PaymentService`, which are now related by this text only.
