------------------------------- MODULE Accounts -------------------------------
(***************************************************************************)
(* The requests that create and read customers and invoices, each behind   *)
(* its API key.  A request is one transaction at READ COMMITTED: the key   *)
(* is looked up in it first, so now(), and with it created_at, is the      *)
(* moment of that lookup, while the row is seen by others only after the   *)
(* commit.  Transactions are taken to begin at different microseconds.     *)
(*                                                                         *)
(* A row is named by the call that inserts it.  A list call is a client    *)
(* with its requests for one page after another: each is handled as any    *)
(* other request, and whether the client asks for a next page (NextPage)   *)
(* is not up to the service.                                               *)
(***************************************************************************)
EXTENDS Integers, FiniteSets, SequencesExt

CONSTANTS
  Calls,
  Businesses,
  ApiKeys,      (* What a client may send as its key.                      *)
  KeyBusiness,  (* The business of an active key, else NoBusiness.         *)
  NoBusiness,
  Emails,
  Payloads,     (* The line items of an invoice request.                   *)
  Workloads,    (* What the clients may want: functions from Calls.        *)
  PageSize,     (* limit.                                                  *)
  IntMax,       (* The largest INTEGER.                                    *)
  BigMax,       (* The largest BIGINT.                                     *)
  MaxAborts     (* Transactions the server loses.  Bounds the model.       *)

LineItem == [quantity : Nat \ {0}, unit : Nat]

Asks ==
  [op : {"createCustomer"}, key : ApiKeys, email : Emails]
    \cup [op : {"createInvoice"}, key : ApiKeys, customer : Calls, items : Payloads]
    \cup [op : {"getCustomer", "getInvoice"}, key : ApiKeys, id : Calls]
    \cup [op : {"listCustomers", "listInvoices"}, key : ApiKeys]

ASSUME AccountsAssumption ==
  /\ IsFiniteSet(Calls)
  /\ NoBusiness \notin Businesses
  /\ KeyBusiness \in [ApiKeys -> Businesses \cup {NoBusiness}]
  /\ Payloads \subseteq Seq(LineItem) \ {<<>>}
  /\ Workloads \subseteq [Calls -> Asks]
  /\ PageSize \in Nat \ {0}
  /\ IntMax \in Nat /\ BigMax \in Nat /\ MaxAborts \in Nat

VARIABLES
  ask,     (* what each call sends.                                        *)
  pc,      (* where its handler is.                                        *)
  answer,  (* the status code of its latest answer, 0 before.              *)
  began,   (* when its transaction began, 0 before: created_at of its row. *)
  row,     (* its row: "none", "flushed" or "committed".                   *)
  total,   (* invoices.total_cents of its row.                             *)
  lines,   (* amount_cents of the line items of its row.                   *)
  known,   (* the committed rows when it was sent.  History.               *)
  skip,    (* list: offset of the current page.                            *)
  count,   (* list: total of the current page.                             *)
  page,    (* rows of the current page.                                    *)
  got,     (* what its answers have shown.                                 *)
  aborts

rowVars  == <<row, total, lines>>
readVars == <<skip, count, page, got>>
vars     == <<ask, pc, answer, began, rowVars, known, readVars, aborts>>

Labels == {"new", "customer", "insert", "invoice", "lines", "commit",
           "count", "page", "items", "done"}

Item == [id : Calls, total : Nat, lines : Seq(Nat)]

TypeOK ==
  /\ ask    \in [Calls -> Asks]
  /\ pc     \in [Calls -> Labels]
  /\ answer \in [Calls -> {0, 200, 201, 401, 404, 409, 500}]
  /\ began  \in [Calls -> Nat]
  /\ row    \in [Calls -> {"none", "flushed", "committed"}]
  /\ total  \in [Calls -> 0 .. BigMax]
  /\ lines  \in [Calls -> Seq(Nat)]
  /\ known  \in [Calls -> SUBSET Calls]
  /\ skip   \in [Calls -> Nat]
  /\ count  \in [Calls -> Nat]
  /\ page   \in [Calls -> SUBSET Calls]
  /\ got    \in [Calls -> SUBSET Item]
  /\ aborts \in 0 .. MaxAborts

Init ==
  /\ ask \in Workloads
  /\ pc     = [c \in Calls |-> "new"]
  /\ answer = [c \in Calls |-> 0]
  /\ began  = [c \in Calls |-> 0]
  /\ row    = [c \in Calls |-> "none"]
  /\ total  = [c \in Calls |-> 0]
  /\ lines  = [c \in Calls |-> <<>>]
  /\ known  = [c \in Calls |-> {}]
  /\ skip   = [c \in Calls |-> 0]
  /\ count  = [c \in Calls |-> 0]
  /\ page   = [c \in Calls |-> {}]
  /\ got    = [c \in Calls |-> {}]
  /\ aborts = 0

-------------------------------------------------------------------------------
Owner(c) == KeyBusiness[ask[c].key]

\* The operation that creates what an operation reads.
Creates(op) ==
  IF op \in {"getCustomer", "listCustomers"} THEN "createCustomer" ELSE "createInvoice"

IsWriter(c) == ask[c].op \in {"createCustomer", "createInvoice"}
IsList(c)   == ask[c].op \in {"listCustomers", "listInvoices"}

\* Mutant: a query that forgets the business.
VisibleUnscoped(c) ==
  {r \in Calls : row[r] = "committed" /\ ask[r].op = Creates(ask[c].op)}

\* The rows of the table c reads that its statements see.
Visible(c) ==
  {r \in Calls : /\ row[r] = "committed"
                 /\ ask[r].op = Creates(ask[c].op)
                 /\ Owner(r) = Owner(c)}

Goto(c, label) == pc' = [pc EXCEPT ![c] = label]

Answer(c, code) == Goto(c, "done") /\ answer' = [answer EXCEPT ![c] = code]

FirstStep(op) ==
  CASE op = "createCustomer" -> "insert"
    [] op = "createInvoice"  -> "customer"
    [] op \in {"getCustomer", "getInvoice"} -> "page"
    [] op \in {"listCustomers", "listInvoices"} -> "count"

\* A call arrives; its transaction begins with the lookup of the key.
Authenticate(c) ==
  /\ pc[c] = "new"
  /\ known' = [known EXCEPT ![c] = {r \in Calls : row[r] = "committed"}]
  /\ \/ /\ Owner(c) = NoBusiness
        /\ Answer(c, 401)
        /\ UNCHANGED began
     \/ /\ Owner(c) # NoBusiness
        /\ Goto(c, FirstStep(ask[c].op))
        /\ began' = IF IsWriter(c)
                    THEN [began EXCEPT ![c] = 1 + Cardinality({r \in Calls : began[r] # 0})]
                    ELSE began
        /\ UNCHANGED answer
  /\ UNCHANGED <<ask, rowVars, readVars, aborts>>

-------------------------------------------------------------------------------
(***************************************************************************)
(* POST /customers                                                         *)
(***************************************************************************)

\* Rows that the unique constraint sees as equal to that of c.
Equals(c) ==
  {r \in Calls \ {c} : /\ row[r] # "none"
                       /\ ask[r].op = "createCustomer"
                       /\ Owner(r) = Owner(c)
                       /\ ask[r].email = ask[c].email}

\* Mutant: a SELECT before the INSERT in the place of the constraint.
InsertCustomerIfNew(c) ==
  /\ pc[c] = "insert"
  /\ \/ /\ \E r \in Equals(c) : row[r] = "committed"
        /\ Answer(c, 409)
        /\ UNCHANGED row
     \/ /\ \A r \in Equals(c) : row[r] # "committed"
        /\ row' = [row EXCEPT ![c] = "flushed"]
        /\ Goto(c, "commit")
        /\ UNCHANGED answer
  /\ UNCHANGED <<ask, began, total, lines, known, readVars, aborts>>

\* Mutant: the INSERT does not wait for the other transaction to end.
InsertCustomerNoWait(c) ==
  /\ pc[c] = "insert"
  /\ \/ /\ Equals(c) # {}
        /\ Answer(c, 409)
        /\ UNCHANGED row
     \/ /\ Equals(c) = {}
        /\ row' = [row EXCEPT ![c] = "flushed"]
        /\ Goto(c, "commit")
        /\ UNCHANGED answer
  /\ UNCHANGED <<ask, began, total, lines, known, readVars, aborts>>

\* The flush.  An INSERT that equals an uncommitted row waits for the end of its
\* transaction; one that equals a committed row fails, and rolls back.
InsertCustomer(c) ==
  /\ pc[c] = "insert"
  /\ \/ /\ \E r \in Equals(c) : row[r] = "committed"
        /\ Answer(c, 409)
        /\ UNCHANGED row
     \/ /\ Equals(c) = {}
        /\ row' = [row EXCEPT ![c] = "flushed"]
        /\ Goto(c, "commit")
        /\ UNCHANGED answer
  /\ UNCHANGED <<ask, began, total, lines, known, readVars, aborts>>

-------------------------------------------------------------------------------
(***************************************************************************)
(* POST /invoices                                                          *)
(***************************************************************************)

Amounts(items) == [i \in DOMAIN items |-> items[i].quantity * items[i].unit]

SumOf(amounts) == FoldSeq(+, 0, amounts)

\* Mutant: the customer of any business will do.
FindCustomerAnywhere(c) ==
  LET customer == ask[c].customer IN
  /\ pc[c] = "customer"
  /\ IF row[customer] = "committed" /\ ask[customer].op = "createCustomer"
     THEN Goto(c, "invoice") /\ UNCHANGED answer
     ELSE Answer(c, 404)
  /\ UNCHANGED <<ask, began, rowVars, known, readVars, aborts>>

FindCustomer(c) ==
  LET customer == ask[c].customer IN
  /\ pc[c] = "customer"
  /\ IF /\ row[customer] = "committed"
        /\ ask[customer].op = "createCustomer"
        /\ Owner(customer) = Owner(c)
     THEN Goto(c, "invoice") /\ UNCHANGED answer
     ELSE Answer(c, 404)
  /\ UNCHANGED <<ask, began, rowVars, known, readVars, aborts>>

\* Mutant: the flush is a commit.
FlushInvoiceCommits(c) ==
  /\ pc[c] = "invoice"
  /\ total' = [total EXCEPT ![c] = SumOf(Amounts(ask[c].items))]
  /\ total'[c] <= BigMax
  /\ row'   = [row EXCEPT ![c] = "committed"]
  /\ Goto(c, "lines")
  /\ UNCHANGED <<ask, answer, began, lines, known, readVars, aborts>>

\* Mutant: nothing checks the width of the total.
FlushInvoiceAnyTotal(c) ==
  /\ pc[c] = "invoice"
  /\ total' = [total EXCEPT ![c] = SumOf(Amounts(ask[c].items))]
  /\ row'   = [row EXCEPT ![c] = "flushed"]
  /\ Goto(c, "lines")
  /\ UNCHANGED <<ask, answer, began, lines, known, readVars, aborts>>

\* The first flush, of the invoice.  The sum is an integer of any size; the
\* driver refuses a parameter that is not a BIGINT, and the caller gets a 500.
FlushInvoice(c) ==
  LET total_cents == SumOf(Amounts(ask[c].items)) IN
  /\ pc[c] = "invoice"
  /\ \/ /\ total_cents \notin 0 .. BigMax
        /\ Answer(c, 500)
        /\ UNCHANGED <<row, total>>
     \/ /\ total_cents \in 0 .. BigMax
        /\ total' = [total EXCEPT ![c] = total_cents]
        /\ row'   = [row EXCEPT ![c] = "flushed"]
        /\ Goto(c, "lines")
        /\ UNCHANGED answer
  /\ UNCHANGED <<ask, began, lines, known, readVars, aborts>>

Rollback(c) ==
  /\ row'   = [row EXCEPT ![c] = "none"]
  /\ total' = [total EXCEPT ![c] = 0]
  /\ lines' = [lines EXCEPT ![c] = <<>>]

\* Every value of a line item fits its column.
Fits(items) ==
  \A i \in DOMAIN items :
     items[i].quantity <= IntMax /\ items[i].unit <= BigMax /\ Amounts(items)[i] <= BigMax

\* Mutant: the failure of the second flush is caught and forgotten.
FlushLinesSwallows(c) ==
  LET items == ask[c].items IN
  /\ pc[c] = "lines"
  /\ lines' = [lines EXCEPT ![c] = IF Fits(items) THEN Amounts(items) ELSE <<>>]
  /\ Goto(c, "commit")
  /\ UNCHANGED <<ask, answer, began, row, total, known, readVars, aborts>>

\* The second flush, of the line items; a failure takes the invoice with it.
FlushLines(c) ==
  LET items == ask[c].items IN
  /\ pc[c] = "lines"
  /\ \/ /\ ~Fits(items)
        /\ Answer(c, 500)
        /\ Rollback(c)
     \/ /\ Fits(items)
        /\ lines' = [lines EXCEPT ![c] = Amounts(items)]
        /\ Goto(c, "commit")
        /\ UNCHANGED <<answer, row, total>>
  /\ UNCHANGED <<ask, began, known, readVars, aborts>>

-------------------------------------------------------------------------------
(***************************************************************************)
(* Ends of a transaction                                                   *)
(***************************************************************************)

Commit(c) ==
  /\ pc[c] = "commit"
  /\ row' = [row EXCEPT ![c] = "committed"]
  /\ Answer(c, 201)
  /\ UNCHANGED <<ask, began, total, lines, known, readVars, aborts>>

\* Mutant: a session that is not closed keeps its row.
AbortKeepsRow(c) ==
  /\ pc[c] \notin {"new", "done"}
  /\ aborts < MaxAborts
  /\ aborts' = aborts + 1
  /\ Answer(c, 500)
  /\ UNCHANGED <<ask, began, rowVars, known, readVars>>

\* A lost connection, a cancelled handler, a crash: get_db rolls back.
Abort(c) ==
  /\ pc[c] \notin {"new", "done"}
  /\ aborts < MaxAborts
  /\ aborts' = aborts + 1
  /\ Answer(c, 500)
  /\ Rollback(c)
  /\ UNCHANGED <<ask, began, known, readVars>>

-------------------------------------------------------------------------------
(***************************************************************************)
(* GET                                                                     *)
(***************************************************************************)

\* Mutant: the count forgets the business.
CountAll(c) ==
  /\ pc[c] = "count"
  /\ count' = [count EXCEPT ![c] = Cardinality(VisibleUnscoped(c))]
  /\ Goto(c, "page")
  /\ UNCHANGED <<ask, answer, began, rowVars, known, skip, page, got, aborts>>

\* SELECT count(*), the first of two statements.
Count(c) ==
  /\ pc[c] = "count"
  /\ count' = [count EXCEPT ![c] = Cardinality(Visible(c))]
  /\ Goto(c, "page")
  /\ UNCHANGED <<ask, answer, began, rowVars, known, skip, page, got, aborts>>

\* ORDER BY created_at DESC.
Newer(r, rows) == {q \in rows : began[q] > began[r]}

\* Mutant: the limit is applied first, the offset to what is left.
SelectedOfFirst(c) ==
  IF IsList(c)
  THEN {r \in Visible(c) :
          Cardinality(Newer(r, Visible(c))) \in skip[c] .. PageSize - 1}
  ELSE {r \in Visible(c) : r = ask[c].id}

\* OFFSET skip LIMIT PageSize, or the row with the id.
Selected(c) ==
  IF IsList(c)
  THEN {r \in Visible(c) :
          Cardinality(Newer(r, Visible(c))) \in skip[c] .. skip[c] + PageSize - 1}
  ELSE {r \in Visible(c) : r = ask[c].id}

\* Mutant: a row that is not found is not looked at again.
ReadPageUnchecked(c) ==
  /\ pc[c] = "page"
  /\ page' = [page EXCEPT ![c] = Selected(c)]
  /\ Goto(c, "items")
  /\ UNCHANGED <<ask, answer, began, rowVars, known, skip, count, got, aborts>>

ReadPage(c) ==
  /\ pc[c] = "page"
  /\ page' = [page EXCEPT ![c] = Selected(c)]
  /\ IF ~IsList(c) /\ Selected(c) = {}
     THEN Answer(c, 404)
     ELSE Goto(c, "items") /\ UNCHANGED answer
  /\ UNCHANGED <<ask, began, rowVars, known, skip, count, got, aborts>>

\* selectinload reads the line items in a statement of its own; then the answer
\* is made.
LoadItems(c) ==
  /\ pc[c] = "items"
  /\ got' = [got EXCEPT ![c] =
       @ \cup {[id |-> r, total |-> total[r], lines |-> lines[r]] : r \in page[c]}]
  /\ Answer(c, 200)
  /\ UNCHANGED <<ask, began, rowVars, known, skip, count, page, aborts>>

-------------------------------------------------------------------------------
Handle(c) ==
  \/ InsertCustomer(c)
  \/ FindCustomer(c)
  \/ FlushInvoice(c)
  \/ FlushLines(c)
  \/ Commit(c)
  \/ Count(c)
  \/ ReadPage(c)
  \/ LoadItems(c)

(***************************************************************************)
(* Clients                                                                 *)
(***************************************************************************)

\* The list may go on after this page.
FullPage(c) == IsList(c) /\ Cardinality(page[c]) = PageSize

\* A client that was shown a full page may ask for the next one.
NextPage(c) ==
  /\ answer[c] = 200 /\ FullPage(c)
  /\ skip'   = [skip EXCEPT ![c] = @ + PageSize]
  /\ answer' = [answer EXCEPT ![c] = 0]
  /\ Goto(c, "count")
  /\ UNCHANGED <<ask, began, rowVars, known, count, page, got, aborts>>

-------------------------------------------------------------------------------
Terminated == (\A c \in Calls : pc[c] = "done") /\ UNCHANGED vars

Next ==
  \/ \E c \in Calls : Authenticate(c) \/ Handle(c) \/ Abort(c) \/ NextPage(c)
  \/ Terminated

Spec == Init /\ [][Next]_vars

-------------------------------------------------------------------------------
(***************************************************************************)
(* Properties                                                              *)
(***************************************************************************)

\* Of calls that race to create a customer with one e-mail address of a business,
\* at most one gets its row.
OneCustomerPerEmail ==
  \A c \in Calls :
     ask[c].op = "createCustomer" /\ row[c] = "committed" =>
       \A r \in Equals(c) : row[r] # "committed"

\* A call told 409 lost to a customer that exists for good, not to one whose
\* transaction was lost in turn.
ConflictMeansTaken ==
  \A c \in Calls : answer[c] = 409 => \E r \in Equals(c) : answer[r] = 201

\* A call leaves its row if it was told 201 and nothing if it was told anything
\* else, whatever failed between its flushes.
AllOrNothing ==
  \A c \in Calls :
     /\ answer[c] = 201 <=> row[c] = "committed"
     /\ answer[c] \notin {0, 201} => row[c] = "none" /\ lines[c] = <<>>

\* Every invoice a reader was ever shown has all its line items, and its total is
\* their sum, though the line items are written and read in other statements.
TotalsAddUp ==
  \A c \in Calls : \A item \in got[c] :
     ask[item.id].op = "createInvoice" =>
       /\ Len(item.lines) = Len(ask[item.id].items)
       /\ item.total = SumOf(item.lines)

\* No call is shown a row of another business, nor bills its customers.
TenantIsolation ==
  \A c \in Calls :
     /\ \A item \in got[c] : Owner(item.id) = Owner(c)
     /\ ask[c].op = "createInvoice" /\ row[c] # "none" =>
          row[ask[c].customer] = "committed" /\ Owner(ask[c].customer) = Owner(c)

\* A call misses no row of its business that was committed when it was sent: a GET
\* finds it, and a client that pages to a short page has seen it, though rows
\* with older and newer timestamps are committed between the pages.
ReadsAreComplete ==
  \A c \in Calls :
     LET wanted == known[c] \cap Visible(c) IN
     /\ answer[c] = 404 /\ "id" \in DOMAIN ask[c] => ask[c].id \notin wanted
     /\ answer[c] = 200 /\ IsList(c) /\ ~FullPage(c) =>
          wanted \subseteq {item.id : item \in got[c]}

\* total never promises a row beyond a short page, though the page is read after.
TotalNeverOverstates ==
  \A c \in Calls :
     answer[c] = 200 /\ IsList(c) /\ ~FullPage(c) =>
       count[c] <= skip[c] + Cardinality(page[c])

\* An INSERT that waits is waiting for a transaction with nothing left to do but
\* commit, so no chain of waits closes, whichever calls abort.
InsertWaitsEnd ==
  \A c \in Calls :
     pc[c] = "insert" /\ Equals(c) # {} =>
       \E r \in Equals(c) : row[r] = "committed" \/ pc[r] = "commit"

\* The row of c as an entry of the registry.
EntryOf(c, total_cents, amounts) ==
  IF ask[c].op = "createCustomer"
  THEN [id |-> c, kind |-> "customer", business |-> Owner(c), of |-> ask[c].email]
  ELSE [id |-> c, kind |-> "invoice", business |-> Owner(c), of |-> ask[c].customer,
        total |-> total_cents, lines |-> amounts]

InvoiceOf(c, amounts) == EntryOf(c, SumOf(amounts), amounts)

\* What c is after.
WishOf(c) ==
  [business |-> Owner(c),
   puts     |-> CASE ask[c].op = "createCustomer" -> {EntryOf(c, 0, <<>>)}
                  [] ask[c].op = "createInvoice"  -> {InvoiceOf(c, Amounts(ask[c].items))}
                  [] OTHER -> {},
   kind     |-> IF ask[c].op \in {"createInvoice", "getCustomer", "listCustomers"}
                THEN "customer" ELSE "invoice",
   ids      |-> CASE ask[c].op = "createCustomer" -> {}
                  [] ask[c].op = "createInvoice"  -> {ask[c].customer}
                  [] IsList(c) -> Calls
                  [] OTHER -> {ask[c].id},
   all      |-> IsList(c)]

\* c is after the row of r.
Names(c, r) ==
  /\ r \in WishOf(c).ids
  /\ EntryOf(r, 0, <<>>).kind = WishOf(c).kind
  /\ Owner(r) = Owner(c)

Committed == {r \in Calls : row[r] = "committed"}

Wishes  == [c \in Calls |-> WishOf(c)]
Entries == {EntryOf(r, total[r], lines[r]) : r \in Committed}
Asked   == {c \in Calls : pc[c] # "new"}
Due     == [c \in Calls |-> {r \in known[c] : Names(c, r)}]
Shown   == [c \in Calls |-> {EntryOf(item.id, item.total, item.lines) : item \in got[c]}]

\* A client that is shown a full page is not done.
Told == [c \in Calls |-> IF answer[c] = 200 /\ FullPage(c) THEN 0 ELSE answer[c]]

Promise == INSTANCE Registry WITH
  Requests <- Calls,
  wish     <- Wishes,
  registry <- Entries,
  asked    <- Asked,
  due      <- Due,
  shown    <- Shown,
  told     <- Told

\* Flushes, aborts, pages and the waits for the unique index come to this: rows
\* appear whole, at one moment each, and every answer is true of what was there.
ImplementsRegistry == Promise!Spec

===============================================================================
