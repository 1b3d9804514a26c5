---------------------------- MODULE AccountsProofs ----------------------------
(***************************************************************************)
(* The safety of Accounts, for any calls, businesses, payloads, workloads  *)
(* and page sizes.                                                         *)
(***************************************************************************)
EXTENDS Accounts, FiniteSetTheorems, FunctionTheorems, TLAPS

\* What an unfinished call has written, and what its answer says of that.
Stage(c) ==
  /\ answer[c] = 0 <=> pc[c] # "done"
  /\ pc[c] = "insert" => ask[c].op = "createCustomer"
  /\ pc[c] \in {"customer", "invoice", "lines"} => ask[c].op = "createInvoice"
  /\ pc[c] = "commit" => IsWriter(c)
  /\ pc[c] = "count" => IsList(c)
  /\ pc[c] \in {"page", "items"} => ~IsWriter(c)
  /\ row[c] = "flushed" <=> pc[c] \in {"lines", "commit"}
  /\ row[c] = "committed" <=> answer[c] = 201
  /\ row[c] = "none" => lines[c] = <<>>
  /\ answer[c] = 409 => ask[c].op = "createCustomer"
  /\ row[c] # "none" \/ pc[c] \in {"insert", "customer", "invoice", "lines"} =>
       began[c] # 0 /\ Owner(c) # NoBusiness

StageInv == \A c \in Calls : Stage(c)

\* A line item row has its invoice, an invoice ready to commit its line items.
InvoiceInv ==
  \A c \in Calls : ask[c].op = "createInvoice" =>
     /\ row[c] # "none" => total[c] = SumOf(Amounts(ask[c].items))
     /\ pc[c] = "commit" \/ row[c] = "committed" => lines[c] = Amounts(ask[c].items)
     /\ pc[c] \in {"invoice", "lines", "commit"} \/ row[c] # "none" =>
          /\ row[ask[c].customer] = "committed"
          /\ Owner(ask[c].customer) = Owner(c)
          /\ ask[ask[c].customer].op = "createCustomer"

\* uq_customers_business_email.
EmailInv ==
  \A c \in Calls : ask[c].op = "createCustomer" /\ row[c] # "none" => Equals(c) = {}

\* What a reader holds are committed rows of its business as they are.
ReaderInv ==
  \A c \in Calls :
     /\ page[c] \subseteq Visible(c)
     /\ \A item \in got[c] : /\ item.id \in Visible(c)
                             /\ item.total = total[item.id]
                             /\ item.lines = lines[item.id]

Begun == {r \in Calls : began[r] # 0}

\* now() tells transactions apart.
BeganInv ==
  /\ \A c \in Calls : pc[c] = "new" => began[c] = 0
  /\ \A c \in Calls : began[c] <= Cardinality(Begun)
  /\ \A c, d \in Calls : began[c] = began[d] /\ began[c] # 0 => c = d

\* The rows of c's table and business that were committed when c was sent.
Wanted(c) == known[c] \cap Visible(c)

Seen(c) == {item.id : item \in got[c]}

\* How far into the list a wanted row that c has not been shown must still be.
Ahead(c, r) ==
  r \in Seen(c) \/ Cardinality(Newer(r, Visible(c))) >= skip[c]

\* What c has read is the last page, and all of it.
AtEnd(c) ==
  /\ Wanted(c) \subseteq Seen(c) \cup page[c]
  /\ count[c] <= skip[c] + Cardinality(page[c])

\* What c has read is the last page, or a full one with the rest behind it.
OnPage(c) ==
  \/ AtEnd(c)
  \/ /\ Cardinality(page[c]) = PageSize
     /\ \A r \in Wanted(c) \ page[c] :
          r \in Seen(c) \/ Cardinality(Newer(r, Visible(c))) >= skip[c] + PageSize

Paging(c) ==
  /\ \A r \in known[c] : row[r] = "committed"
  /\ pc[c] = "new" => skip[c] = 0
  /\ IsList(c) =>
       /\ pc[c] \in {"count", "page"} => \A r \in Wanted(c) : Ahead(c, r)
       /\ pc[c] = "page" => count[c] <= Cardinality(Visible(c))
       /\ pc[c] = "items" \/ answer[c] = 200 => OnPage(c)
       /\ answer[c] = 200 => page[c] \subseteq Seen(c)
  /\ answer[c] = 404 /\ ask[c].op \in {"getCustomer", "getInvoice"} =>
       ask[c].id \notin Wanted(c)

PagingInv == \A c \in Calls : Paging(c)

IInv ==
  /\ TypeOK
  /\ StageInv
  /\ InvoiceInv
  /\ EmailInv
  /\ ConflictMeansTaken
  /\ ReaderInv
  /\ BeganInv
  /\ PagingInv

USE DEF Labels

-------------------------------------------------------------------------------
(***************************************************************************)
(* Line items                                                              *)
(***************************************************************************)

LEMMA ItemTypes ==
  ASSUME NEW items \in Payloads
  PROVE  /\ Amounts(items) \in Seq(Nat)
         /\ Len(Amounts(items)) = Len(items)
         /\ Amounts(items) # <<>>
<1>1. items \in Seq(LineItem) /\ items # <<>>
  BY AccountsAssumption
<1>2. \A i \in 1 .. Len(items) : items[i].quantity * items[i].unit \in Nat
  <2>1. \A i \in 1 .. Len(items) : items[i].quantity \in Nat /\ items[i].unit \in Nat
    <3> TAKE i \in 1 .. Len(items)
    <3>1. items[i] \in LineItem
      BY <1>1
    <3> QED
      BY <3>1 DEF LineItem
  <2>2. \A q, u \in Nat : q * u \in Nat
    OBVIOUS
  <2> QED
    BY <2>1, <2>2
<1> QED
  BY <1>1, <1>2 DEF Amounts

\* What a call asks, by its operation.
LEMMA AskFacts ==
  ASSUME TypeOK, NEW c \in Calls
  PROVE  /\ ask[c] \in Asks
         /\ Owner(c) \in Businesses \cup {NoBusiness}
         /\ ask[c].op = "createCustomer" => ask[c].email \in Emails
         /\ ask[c].op = "createInvoice" =>
              ask[c].customer \in Calls /\ ask[c].items \in Payloads
         /\ ask[c].op \in {"createCustomer", "createInvoice", "getCustomer",
                           "getInvoice", "listCustomers", "listInvoices"}
BY SMTT(40), AccountsAssumption DEF TypeOK, Asks, Owner

-------------------------------------------------------------------------------
(***************************************************************************)
(* Steps                                                                   *)
(***************************************************************************)

LEMMA AskStays == ASSUME [Next]_vars PROVE ask' = ask
BY ZenonT(60)
  DEF Next, vars, Handle, Authenticate, Abort, InsertCustomer, FindCustomer,
       FlushInvoice, FlushLines, Commit, Count, ReadPage, LoadItems, NextPage,
       Terminated

\* The steps that write rows.
LEMMA RowSteps ==
  ASSUME [Next]_vars
  PROVE  \/ UNCHANGED rowVars
         \/ \E c \in Calls : \/ InsertCustomer(c) \/ FlushInvoice(c) \/ FlushLines(c)
                             \/ Commit(c) \/ Abort(c)
BY ZenonT(60)
  DEF Next, vars, Handle, Authenticate, FindCustomer, Count, ReadPage, LoadItems,
   NextPage, Terminated

\* A committed row stays as it is.
LEMMA CommittedStays ==
  ASSUME TypeOK, StageInv, [Next]_vars, NEW r \in Calls, row[r] = "committed"
  PROVE  row'[r] = "committed" /\ total'[r] = total[r] /\ lines'[r] = lines[r]
<1>1. pc[r] = "done"
  BY DEF StageInv, Stage
<1>2. DOMAIN row = Calls /\ DOMAIN total = Calls /\ DOMAIN lines = Calls
  BY DEF TypeOK
<1>3. CASE UNCHANGED rowVars
  BY <1>3 DEF rowVars
<1>4. ASSUME NEW c \in Calls,
             \/ InsertCustomer(c) \/ FlushInvoice(c) \/ FlushLines(c)
             \/ Commit(c) \/ Abort(c)
      PROVE  row'[r] = row[r] /\ total'[r] = total[r] /\ lines'[r] = lines[r]
  <2>1. c # r
    BY <1>1, <1>4 DEF InsertCustomer, FlushInvoice, FlushLines, Commit, Abort
  <2>2. CASE InsertCustomer(c)
    BY <1>2, <2>1, <2>2 DEF InsertCustomer
  <2>3. CASE FlushInvoice(c)
    BY <1>2, <2>1, <2>3 DEF FlushInvoice
  <2>4. CASE FlushLines(c)
    BY <1>2, <2>1, <2>4 DEF FlushLines, Rollback
  <2>5. CASE Commit(c)
    BY <1>2, <2>1, <2>5 DEF Commit
  <2>6. CASE Abort(c)
    BY <1>2, <2>1, <2>6 DEF Abort, Rollback
  <2> QED
    BY <1>4, <2>2, <2>3, <2>4, <2>5, <2>6
<1> QED
  BY <1>3, <1>4, RowSteps

LEMMA TypeStep == TypeOK /\ StageInv /\ [Next]_vars => TypeOK'
<1> SUFFICES ASSUME TypeOK, StageInv, [Next]_vars PROVE TypeOK'
  OBVIOUS
<1> USE DEF rowVars, readVars, Goto, Answer
<1>p. /\ pc \in [Calls -> Labels]
      /\ answer \in [Calls -> {0, 200, 201, 401, 404, 409, 500}]
  BY ZenonT(60) DEF TypeOK
<1>r. row \in [Calls -> {"none", "flushed", "committed"}]
  BY DEF TypeOK
<1>t. total \in [Calls -> 0 .. BigMax]
  BY DEF TypeOK
<1>l. lines \in [Calls -> Seq(Nat)]
  BY DEF TypeOK
<1>b. began \in [Calls -> Nat]
  BY DEF TypeOK
<1>k. known \in [Calls -> SUBSET Calls]
  BY DEF TypeOK
<1>s. skip \in [Calls -> Nat] /\ count \in [Calls -> Nat]
  BY DEF TypeOK
<1>g. page \in [Calls -> SUBSET Calls] /\ got \in [Calls -> SUBSET Item]
  BY DEF TypeOK
<1>1. ASSUME NEW c \in Calls, Authenticate(c) PROVE TypeOK'
  <2>1. FirstStep(ask[c].op) \in Labels
    BY AskFacts DEF FirstStep
  <2>2. 1 + Cardinality({r \in Calls : began[r] # 0}) \in Nat
    <3>1. IsFiniteSet({r \in Calls : began[r] # 0})
      BY AccountsAssumption, FS_Subset
    <3> QED
      BY <3>1, FS_CardinalityType
  <2>3. pc' \in [Calls -> Labels]
    BY <1>p, <1>1, <2>1 DEF Authenticate
  <2>3a. answer' \in [Calls -> {0, 200, 201, 401, 404, 409, 500}]
    BY <1>p, <1>1, <2>1 DEF Authenticate
  <2>4. began' \in [Calls -> Nat]
    BY <1>b, <1>1, <2>2 DEF Authenticate
  <2>5. known' \in [Calls -> SUBSET Calls]
    BY <1>k, <1>1 DEF Authenticate
  <2> QED
    BY SMTT(40), <1>1, <2>3, <2>3a, <2>4, <2>5 DEF Authenticate, TypeOK
<1>2. ASSUME NEW c \in Calls, InsertCustomer(c) PROVE TypeOK'
  <2>1. pc' \in [Calls -> Labels]
    BY <1>p, <1>2 DEF InsertCustomer
  <2>1a. answer' \in [Calls -> {0, 200, 201, 401, 404, 409, 500}]
    BY <1>p, <1>2 DEF InsertCustomer
  <2>2. row' \in [Calls -> {"none", "flushed", "committed"}]
    BY <1>r, <1>2 DEF InsertCustomer
  <2> QED
    BY <1>2, <2>1, <2>1a, <2>2 DEF InsertCustomer, TypeOK
<1>3. ASSUME NEW c \in Calls, FindCustomer(c) PROVE TypeOK'
  <2>1. pc' \in [Calls -> Labels]
    BY <1>p, <1>3 DEF FindCustomer
  <2>1a. answer' \in [Calls -> {0, 200, 201, 401, 404, 409, 500}]
    BY <1>p, <1>3 DEF FindCustomer
  <2> QED
    BY <1>3, <2>1, <2>1a DEF FindCustomer, TypeOK
<1>4. ASSUME NEW c \in Calls, FlushInvoice(c) PROVE TypeOK'
  <2>1. pc' \in [Calls -> Labels]
    BY <1>p, <1>4 DEF FlushInvoice
  <2>1a. answer' \in [Calls -> {0, 200, 201, 401, 404, 409, 500}]
    BY <1>p, <1>4 DEF FlushInvoice
  <2>2. row' \in [Calls -> {"none", "flushed", "committed"}]
    BY <1>r, <1>4 DEF FlushInvoice
  <2>3. total' \in [Calls -> 0 .. BigMax]
    BY <1>t, <1>4 DEF FlushInvoice
  <2> QED
    BY SMTT(40), <1>4, <2>1, <2>1a, <2>2, <2>3 DEF FlushInvoice, TypeOK
<1>a. ASSUME NEW c \in Calls, Rollback(c)
      PROVE  /\ row' \in [Calls -> {"none", "flushed", "committed"}]
             /\ total' \in [Calls -> 0 .. BigMax]
             /\ lines' \in [Calls -> Seq(Nat)]
  <2>1. 0 \in 0 .. BigMax /\ <<>> \in Seq(Nat)
    BY AccountsAssumption
  <2> QED
    BY <1>a, <2>1 DEF Rollback, TypeOK
<1>5. ASSUME NEW c \in Calls, FlushLines(c) PROVE TypeOK'
  <2>1. Amounts(ask[c].items) \in Seq(Nat)
    BY <1>5, AskFacts, ItemTypes DEF FlushLines, StageInv, Stage
  <2>2. pc' \in [Calls -> Labels]
    BY <1>p, <1>5 DEF FlushLines
  <2>2a. answer' \in [Calls -> {0, 200, 201, 401, 404, 409, 500}]
    BY <1>p, <1>5 DEF FlushLines
  <2>3. /\ row' \in [Calls -> {"none", "flushed", "committed"}]
        /\ total' \in [Calls -> 0 .. BigMax]
    <3>1. Rollback(c) \/ UNCHANGED <<row, total>>
      BY <1>5 DEF FlushLines
    <3> QED
      BY <1>r, <1>t, <3>1, <1>a
  <2>4. lines' \in [Calls -> Seq(Nat)]
    <3>1. Rollback(c) \/ lines' = [lines EXCEPT ![c] = Amounts(ask[c].items)]
      BY <1>5 DEF FlushLines
    <3> QED
      BY <1>l, <3>1, <1>a, <2>1
  <2> QED
    BY ZenonT(60), <1>5, <2>2, <2>2a, <2>3, <2>4 DEF FlushLines, TypeOK
<1>6. ASSUME NEW c \in Calls, Commit(c) PROVE TypeOK'
  <2>1. row' \in [Calls -> {"none", "flushed", "committed"}]
    BY <1>r, <1>6 DEF Commit
  <2> QED
    BY <1>6, <2>1 DEF Commit, TypeOK
<1>7. ASSUME NEW c \in Calls, Abort(c) PROVE TypeOK'
  <2>1. aborts' \in 0 .. MaxAborts
    BY <1>7, AccountsAssumption DEF Abort, TypeOK
  <2> QED
    BY SMTT(40), <1>7, <1>a, <2>1 DEF Abort, TypeOK
<1>8. ASSUME NEW c \in Calls, Count(c) PROVE TypeOK'
  <2>1. Cardinality(Visible(c)) \in Nat
    <3>1. IsFiniteSet(Visible(c))
      BY AccountsAssumption, FS_Subset DEF Visible
    <3> QED
      BY <3>1, FS_CardinalityType
  <2>2. count' \in [Calls -> Nat]
    BY <1>s, <1>8, <2>1 DEF Count
  <2> QED
    BY <1>8, <2>2 DEF Count, TypeOK
<1>9. ASSUME NEW c \in Calls, ReadPage(c) PROVE TypeOK'
  <2>1. Selected(c) \subseteq Calls
    BY DEF Selected, Visible
  <2>2. page' \in [Calls -> SUBSET Calls]
    BY <1>g, <1>9, <2>1 DEF ReadPage
  <2>3. pc' \in [Calls -> Labels]
    BY <1>p, <1>9 DEF ReadPage
  <2>3a. answer' \in [Calls -> {0, 200, 201, 401, 404, 409, 500}]
    BY <1>p, <1>9 DEF ReadPage
  <2> QED
    BY ZenonT(60), <1>9, <2>2, <2>3, <2>3a DEF ReadPage, TypeOK
<1>10. ASSUME NEW c \in Calls, LoadItems(c) PROVE TypeOK'
  <2>1. ASSUME NEW r \in page[c]
        PROVE  [id |-> r, total |-> total[r], lines |-> lines[r]] \in Item
    BY AccountsAssumption DEF TypeOK, Item
  <2>2. got' \in [Calls -> SUBSET Item]
    BY <1>g, <1>10, <2>1 DEF LoadItems
  <2> QED
    BY SMTT(40), <1>p, <1>10, <2>2 DEF LoadItems, TypeOK
<1>11. ASSUME NEW c \in Calls, NextPage(c) PROVE TypeOK'
  <2>1. skip' \in [Calls -> Nat]
    <3>1. PageSize \in Nat
      BY AccountsAssumption
    <3> QED
      BY <1>s, <1>11, <3>1 DEF NextPage
  <2> QED
    BY SMTT(40), <1>p, <1>11, <2>1 DEF NextPage, TypeOK
<1>12. CASE UNCHANGED vars \/ Terminated
  BY <1>12 DEF vars, Terminated, TypeOK
<1> QED
  BY <1>1, <1>2, <1>3, <1>4, <1>5, <1>6, <1>7, <1>8, <1>9, <1>10, <1>11, <1>12
     DEF Next, Handle

LEMMA StageStep == TypeOK /\ StageInv /\ [Next]_vars => StageInv'
<1> SUFFICES ASSUME TypeOK, StageInv, [Next]_vars, NEW d \in Calls PROVE Stage(d)'
  BY DEF StageInv
<1>0. /\ Stage(d) /\ ask' = ask
      /\ IsWriter(d)' = IsWriter(d) /\ IsList(d)' = IsList(d) /\ Owner(d)' = Owner(d)
  BY AskStays DEF StageInv, IsWriter, IsList, Owner
<1>p. /\ pc \in [Calls -> Labels]
      /\ answer \in [Calls -> {0, 200, 201, 401, 404, 409, 500}]
      /\ row \in [Calls -> {"none", "flushed", "committed"}]
  BY DEF TypeOK
<1>l. lines \in [Calls -> Seq(Nat)] /\ began \in [Calls -> Nat]
  BY DEF TypeOK
<1> USE <1>0, <1>p, <1>l DEF Stage, rowVars, readVars, Goto, Answer
<1>1. ASSUME NEW c \in Calls, Authenticate(c) PROVE Stage(d)'
  <2>1. Cardinality({r \in Calls : began[r] # 0}) \in Nat
    BY AccountsAssumption, FS_Subset, FS_CardinalityType
  <2>2. d # c => Stage(d)'
    BY <1>1 DEF Authenticate
  <2>3. d = c => Stage(d)'
    <3>1. ask[c].op \in {"createCustomer", "createInvoice", "getCustomer",
                        "getInvoice", "listCustomers", "listInvoices"}
      BY AskFacts
    <3> QED
      BY <1>1, <2>1, <3>1 DEF Authenticate, FirstStep, IsWriter, IsList
  <2> QED
    BY <2>2, <2>3
<1>2. ASSUME NEW c \in Calls, InsertCustomer(c) PROVE Stage(d)'
  BY <1>2 DEF InsertCustomer, IsWriter
<1>3. ASSUME NEW c \in Calls, FindCustomer(c) PROVE Stage(d)'
  BY <1>3 DEF FindCustomer
<1>4. ASSUME NEW c \in Calls, FlushInvoice(c) PROVE Stage(d)'
  BY <1>4 DEF FlushInvoice
<1>5. ASSUME NEW c \in Calls, FlushLines(c) PROVE Stage(d)'
  BY <1>5 DEF FlushLines, Rollback, IsWriter
<1>6. ASSUME NEW c \in Calls, Commit(c) PROVE Stage(d)'
  BY <1>6 DEF Commit
<1>7. ASSUME NEW c \in Calls, Abort(c) PROVE Stage(d)'
  BY <1>7 DEF Abort, Rollback
<1>8. ASSUME NEW c \in Calls, Count(c) PROVE Stage(d)'
  BY <1>8 DEF Count, IsList, IsWriter
<1>9. ASSUME NEW c \in Calls, ReadPage(c) PROVE Stage(d)'
  BY <1>9 DEF ReadPage
<1>10. ASSUME NEW c \in Calls, LoadItems(c) PROVE Stage(d)'
  BY <1>10 DEF LoadItems
<1>11. ASSUME NEW c \in Calls, NextPage(c) PROVE Stage(d)'
  BY <1>11 DEF NextPage, FullPage, IsList
<1>12. CASE UNCHANGED vars \/ Terminated
  BY <1>12 DEF vars, Terminated
<1> QED
  BY <1>1, <1>2, <1>3, <1>4, <1>5, <1>6, <1>7, <1>8, <1>9, <1>10, <1>11, <1>12
     DEF Next, Handle

Codes == {200, 201, 401, 404, 409, 500}

\* The call c is answered: 409 only where a customer stands in the way.
Answers(c, code) ==
  /\ pc[c] # "done"
  /\ answer' = [answer EXCEPT ![c] = code]
  /\ code = 409 => \E r \in Equals(c) : row[r] = "committed"

\* One call is answered at a time, or goes on to its next page.
LEMMA AnswerSteps ==
  ASSUME [Next]_vars
  PROVE  \/ UNCHANGED answer
         \/ \E c \in Calls : NextPage(c) \/ \E code \in Codes : Answers(c, code)
<1> DEFINE Goal ==
      \/ UNCHANGED answer
      \/ \E c \in Calls : NextPage(c) \/ \E code \in Codes : Answers(c, code)
<1>1. ASSUME NEW c \in Calls, NEW code \in Codes \ {409}, pc[c] # "done", Answer(c, code)
      PROVE  Goal
  <2>1. Answers(c, code)
    BY <1>1 DEF Answer, Answers, Codes
  <2> QED
    BY <2>1
<1>2. ASSUME NEW c \in Calls, InsertCustomer(c) PROVE Goal
  <2>1. UNCHANGED answer \/ Answers(c, 409)
    BY <1>2 DEF InsertCustomer, Answer, Answers
  <2> QED
    BY <2>1 DEF Codes
<1>3. UNCHANGED answer \/ (\E c \in Calls : NextPage(c)) => Goal
  OBVIOUS
<1> HIDE DEF Goal
<1>4. ASSUME NEW c \in Calls, Authenticate(c) \/ Handle(c) \/ Abort(c) PROVE Goal
  <2>1. {200, 201, 401, 404, 500} \subseteq Codes \ {409}
    BY DEF Codes
  <2> QED
    BY <1>1, <1>2, <1>3, <1>4, <2>1 DEF Handle, Authenticate, FindCustomer,
       FlushInvoice, FlushLines, Commit, Abort, Count, ReadPage, LoadItems
<1>5. Goal
  BY <1>3, <1>4 DEF Next, vars, Terminated
<1> QED
  BY <1>5 DEF Goal

\* Nothing follows an answer but a 200.
LEMMA AnswersStay ==
  ASSUME TypeOK, StageInv, [Next]_vars, NEW c \in Calls, answer[c] \notin {0, 200}
  PROVE  answer'[c] = answer[c]
<1>1. pc[c] = "done" /\ answer \in [Calls -> {0, 200, 201, 401, 404, 409, 500}]
  BY DEF StageInv, Stage, TypeOK
<1> QED
  BY <1>1, AnswerSteps DEF Answers, Codes, NextPage

\* A row appears in one flush, and no other row changes in it.
LEMMA NewRows ==
  ASSUME TypeOK, StageInv, [Next]_vars, NEW c \in Calls, row[c] = "none", row'[c] # "none"
  PROVE  /\ InsertCustomer(c) \/ FlushInvoice(c)
         /\ row' = [row EXCEPT ![c] = "flushed"]
<1>1. row \in [Calls -> {"none", "flushed", "committed"}] /\ pc[c] # "commit"
  BY DEF StageInv, Stage, TypeOK
<1> QED
  BY <1>1, RowSteps DEF rowVars, InsertCustomer, FlushInvoice, FlushLines, Rollback,
     Commit, Abort

LEMMA EqualsFacts ==
  ASSUME ask' = ask, NEW c \in Calls, NEW d \in Calls
  PROVE  /\ d \in Equals(c) <=>
              /\ d # c /\ row[d] # "none" /\ ask[d].op = "createCustomer"
              /\ Owner(d) = Owner(c) /\ ask[d].email = ask[c].email
         /\ d \in Equals(c)' <=>
              /\ d # c /\ row'[d] # "none" /\ ask[d].op = "createCustomer"
              /\ Owner(d) = Owner(c) /\ ask[d].email = ask[c].email
BY DEF Equals, Owner

LEMMA EmailStep == TypeOK /\ StageInv /\ EmailInv /\ [Next]_vars => EmailInv'
<1> SUFFICES ASSUME TypeOK, StageInv, EmailInv, [Next]_vars,
                    NEW c \in Calls, ask'[c].op = "createCustomer", row'[c] # "none",
                    NEW d \in Calls, d \in Equals(c)'
             PROVE  FALSE
  BY DEF EmailInv, Equals
<1>1. /\ ask' = ask /\ ask[c].op = "createCustomer"
      /\ d # c /\ row'[d] # "none" /\ ask[d].op = "createCustomer"
      /\ Owner(d) = Owner(c) /\ ask[d].email = ask[c].email
  BY AskStays, EqualsFacts
<1>2. CASE row[c] # "none" /\ row[d] # "none"
  BY <1>1, <1>2, EqualsFacts DEF EmailInv
<1>3. ASSUME NEW e \in Calls, NEW f \in Calls, {e, f} = {c, d}, e # f,
             row[e] = "none"
      PROVE  FALSE
  <2>1. InsertCustomer(e) \/ FlushInvoice(e)
    BY <1>1, <1>3, NewRows
  <2>2. InsertCustomer(e) /\ row[f] = row'[f]
    <3>1. row \in [Calls -> {"none", "flushed", "committed"}]
      BY DEF TypeOK
    <3>2. ask[e].op = "createCustomer" /\ row' = [row EXCEPT ![e] = "flushed"]
      BY <1>1, <1>3, NewRows
    <3>3. ~FlushInvoice(e)
      BY <3>2 DEF FlushInvoice, StageInv, Stage
    <3> QED
      BY <1>3, <2>1, <3>1, <3>2, <3>3
  <2>3. f \in Equals(e)
    BY <1>1, <1>3, <2>2, EqualsFacts
  <2>4. row'[e] = row[e]
    BY <2>2, <2>3 DEF InsertCustomer
  <2> QED
    BY <1>1, <1>3, <2>4
<1> QED
  BY <1>1, <1>2, <1>3

LEMMA ConflictStep ==
  TypeOK /\ StageInv /\ ConflictMeansTaken /\ [Next]_vars => ConflictMeansTaken'
<1> SUFFICES ASSUME TypeOK, StageInv, ConflictMeansTaken, [Next]_vars,
                    NEW c \in Calls, answer'[c] = 409
             PROVE  \E r \in Equals(c)' : answer'[r] = 201
  BY DEF ConflictMeansTaken
<1>1. PICK r \in Equals(c) : answer[r] = 201
  <2>1. CASE answer[c] = 409
    BY <2>1 DEF ConflictMeansTaken
  <2>2. CASE answer[c] # 409
    <3>1. \E r \in Equals(c) : row[r] = "committed"
      <4>1. answer \in [Calls -> {0, 200, 201, 401, 404, 409, 500}]
        BY DEF TypeOK
      <4> QED
        BY <2>2, <4>1, AnswerSteps DEF Answers, Codes, NextPage
    <3> QED
      BY <3>1 DEF StageInv, Stage, Equals
  <2> QED
    BY <2>1, <2>2
<1>2. r \in Calls /\ row[r] = "committed"
  BY <1>1 DEF Equals, StageInv, Stage
<1>3. answer'[r] = 201 /\ row'[r] = "committed"
  BY <1>1, <1>2, AnswersStay, CommittedStays
<1> QED
  BY <1>1, <1>2, <1>3, AskStays, EqualsFacts

LEMMA InvoiceStep ==
  TypeOK /\ StageInv /\ InvoiceInv /\ [Next]_vars => InvoiceInv'
<1> DEFINE Sound(c) ==
      /\ row[c] # "none" => total[c] = SumOf(Amounts(ask[c].items))
      /\ pc[c] = "commit" \/ row[c] = "committed" => lines[c] = Amounts(ask[c].items)
      /\ pc[c] \in {"invoice", "lines", "commit"} \/ row[c] # "none" =>
           /\ row[ask[c].customer] = "committed"
           /\ Owner(ask[c].customer) = Owner(c)
           /\ ask[ask[c].customer].op = "createCustomer"
<1> SUFFICES ASSUME TypeOK, StageInv, InvoiceInv, [Next]_vars,
                    NEW d \in Calls, ask[d].op = "createInvoice"
             PROVE  Sound(d)'
  BY AskStays DEF InvoiceInv
<1>0. /\ Sound(d) /\ ask' = ask /\ Stage(d) /\ ask[d].customer \in Calls
      /\ Owner(d)' = Owner(d) /\ Owner(ask[d].customer)' = Owner(ask[d].customer)
  BY AskStays, AskFacts DEF InvoiceInv, Owner, StageInv
<1>c. row[ask[d].customer] = "committed" => row'[ask[d].customer] = "committed"
  BY <1>0, CommittedStays
<1>r. /\ pc \in [Calls -> Labels]
      /\ row \in [Calls -> {"none", "flushed", "committed"}]
      /\ total \in [Calls -> 0 .. BigMax]
      /\ lines \in [Calls -> Seq(Nat)]
  BY DEF TypeOK
<1> USE <1>0, <1>c, <1>r DEF Stage, rowVars, readVars, Goto, Answer
<1>1. ASSUME NEW c \in Calls, Authenticate(c) PROVE Sound(d)'
  BY <1>1, AskFacts DEF Authenticate, FirstStep
<1>2. ASSUME NEW c \in Calls, InsertCustomer(c) PROVE Sound(d)'
  BY <1>2 DEF InsertCustomer, StageInv
<1>3. ASSUME NEW c \in Calls, FindCustomer(c) PROVE Sound(d)'
  BY <1>3 DEF FindCustomer
<1>4. ASSUME NEW c \in Calls, FlushInvoice(c) PROVE Sound(d)'
  BY <1>4 DEF FlushInvoice
<1>5. ASSUME NEW c \in Calls, FlushLines(c) PROVE Sound(d)'
  BY <1>5 DEF FlushLines, Rollback
<1>6. ASSUME NEW c \in Calls, Commit(c) PROVE Sound(d)'
  BY <1>6 DEF Commit
<1>7. ASSUME NEW c \in Calls, Abort(c) PROVE Sound(d)'
  BY <1>7 DEF Abort, Rollback
<1>8. ASSUME NEW c \in Calls, Count(c) \/ ReadPage(c) \/ LoadItems(c) \/ NextPage(c)
      PROVE  Sound(d)'
  BY <1>8 DEF Count, ReadPage, LoadItems, NextPage
<1>9. CASE UNCHANGED vars \/ Terminated
  BY <1>9 DEF vars, Terminated
<1> QED
  BY <1>1, <1>2, <1>3, <1>4, <1>5, <1>6, <1>7, <1>8, <1>9 DEF Next, Handle

LEMMA VisibleStays ==
  ASSUME TypeOK, StageInv, [Next]_vars, NEW c \in Calls, NEW r \in Visible(c)
  PROVE  r \in Visible(c)' /\ total'[r] = total[r] /\ lines'[r] = lines[r]
BY AskStays, CommittedStays DEF Visible, Owner

LEMMA ReaderStep ==
  TypeOK /\ StageInv /\ ReaderInv /\ [Next]_vars => ReaderInv'
<1> DEFINE True(c, item) == /\ item.id \in Visible(c)
                            /\ item.total = total[item.id]
                            /\ item.lines = lines[item.id]
<1> SUFFICES ASSUME TypeOK, StageInv, ReaderInv, [Next]_vars, NEW d \in Calls
             PROVE  page'[d] \subseteq Visible(d)' /\ \A item \in got'[d] : True(d, item)'
  BY DEF ReaderInv
<1>1. Visible(d) \subseteq Visible(d)'
  BY VisibleStays
<1>2. page'[d] \subseteq Visible(d)
  <2>1. page'[d] = page[d] \/ page'[d] = Selected(d)
    <3>1. page \in [Calls -> SUBSET Calls]
      BY DEF TypeOK
    <3> QED
      BY ZenonT(60), <3>1
        DEF Next, Handle, vars, readVars, Authenticate, InsertCustomer,
         FindCustomer, FlushInvoice, FlushLines, Commit, Abort, Count, ReadPage,
         LoadItems, NextPage, Terminated
  <2> QED
    BY <2>1 DEF ReaderInv, Selected
<1>3. ASSUME NEW item \in got'[d] PROVE True(d, item)
  <2>1. item \in got[d] \/
        \E r \in page[d] : item = [id |-> r, total |-> total[r], lines |-> lines[r]]
    <3>1. got \in [Calls -> SUBSET Item]
      BY DEF TypeOK
    <3>2. got' = got \/ \E c \in Calls : LoadItems(c)
      BY ZenonT(60)
        DEF Next, Handle, vars, readVars, Authenticate, InsertCustomer, FindCustomer,
         FlushInvoice, FlushLines, Commit, Abort, Count, ReadPage, NextPage,
         Terminated
    <3>3. ASSUME NEW c \in Calls, LoadItems(c)
          PROVE  got'[d] \subseteq got[d]
                   \cup {[id |-> r, total |-> total[r], lines |-> lines[r]] : r \in page[d]}
      <4>1. got' = [got EXCEPT ![c] =
              @ \cup {[id |-> r, total |-> total[r], lines |-> lines[r]] : r \in page[c]}]
        BY <3>3 DEF LoadItems
      <4> QED
        BY <3>1, <4>1
    <3> QED
      BY <1>3, <3>2, <3>3
  <2> QED
    BY <2>1 DEF ReaderInv
<1>4. ASSUME NEW item \in got'[d] PROVE True(d, item)'
  BY <1>3, <1>4, VisibleStays
<1> QED
  BY <1>1, <1>2, <1>4

-------------------------------------------------------------------------------
(***************************************************************************)
(* Pages: rows with different timestamps are numbered without a gap, so a  *)
(* page that is not full is the last.                                      *)
(***************************************************************************)

Position(r, rows) == Cardinality(Newer(r, rows))

Distinct(rows) == \A a, b \in rows : began[a] = began[b] => a = b

LEMMA PositionFacts ==
  ASSUME NEW rows, IsFiniteSet(rows), NEW r \in rows, rows \subseteq Calls, TypeOK
  PROVE  /\ IsFiniteSet(Newer(r, rows))
         /\ Position(r, rows) \in 0 .. Cardinality(rows) - 1
<1>1. began[r] \in Nat
  BY DEF TypeOK
<1>2. Newer(r, rows) \in SUBSET rows /\ r \notin Newer(r, rows)
  BY <1>1 DEF Newer
<1>3. IsFiniteSet(Newer(r, rows)) /\ Position(r, rows) <= Cardinality(rows)
  BY <1>2, FS_Subset DEF Position
<1>4. Position(r, rows) # Cardinality(rows)
  BY <1>2, FS_Subset DEF Position
<1>5. Cardinality(rows) \in Nat /\ Position(r, rows) \in Nat
  BY <1>3, FS_CardinalityType DEF Position
<1> QED
  BY <1>3, <1>4, <1>5

LEMMA PositionsDiffer ==
  ASSUME TypeOK, NEW rows, IsFiniteSet(rows), rows \subseteq Calls, Distinct(rows),
         NEW a \in rows, NEW b \in rows, Position(a, rows) = Position(b, rows)
  PROVE  a = b
<1>1. ASSUME NEW x \in rows, NEW y \in rows, began[x] > began[y]
      PROVE  Position(x, rows) # Position(y, rows)
  <2>1. began[x] \in Nat /\ began[y] \in Nat /\ \A q \in rows : began[q] \in Nat
    BY DEF TypeOK
  <2>2. Newer(x, rows) \in SUBSET Newer(y, rows)
    BY <1>1, <2>1 DEF Newer
  <2>3. x \in Newer(y, rows) /\ x \notin Newer(x, rows)
    BY <1>1, <2>1 DEF Newer
  <2>4. IsFiniteSet(Newer(y, rows))
    BY PositionFacts
  <2> QED
    BY <2>2, <2>3, <2>4, FS_Subset DEF Position
<1>2. began[a] \in Nat /\ began[b] \in Nat
  BY DEF TypeOK
<1>3. ~(began[a] > began[b]) /\ ~(began[b] > began[a])
  BY <1>1
<1>4. began[a] = began[b]
  BY <1>2, <1>3
<1> QED
  BY <1>4 DEF Distinct

LEMMA EveryPosition ==
  ASSUME TypeOK, NEW rows, IsFiniteSet(rows), rows \subseteq Calls, Distinct(rows),
         NEW n \in 0 .. Cardinality(rows) - 1
  PROVE  \E r \in rows : Position(r, rows) = n
<1> DEFINE f == [r \in rows |-> Position(r, rows)]
           N == 0 .. Cardinality(rows) - 1
<1>1. f \in [rows -> N]
  BY PositionFacts
<1>2. \A a, b \in rows : f[a] = f[b] => a = b
  BY PositionsDiffer
<1>3. f \in Injection(rows, N)
  BY <1>1, <1>2, Fun_IsInj
<1>4. IsFiniteSet(N) /\ Cardinality(N) = Cardinality(rows)
  <2>1. Cardinality(rows) \in Nat
    BY FS_CardinalityType
  <2>2. 0 \in Int /\ Cardinality(rows) - 1 \in Int
    BY <2>1
  <2>3. IsFiniteSet(N) /\ Cardinality(N) =
          IF 0 > Cardinality(rows) - 1 THEN 0 ELSE (Cardinality(rows) - 1) - 0 + 1
    BY <2>2, FS_Interval
  <2> QED
    BY <2>1, <2>3
<1>5. f \in Surjection(rows, N)
  BY <1>3, <1>4, FS_Injection
<1>6. \E r \in rows : f[r] = n
  <2> HIDE DEF f, N
  <2>1. \A t \in N : \E r \in rows : f[r] = t
    BY <1>5, Fun_SurjectionProperties
  <2> QED
    BY <2>1 DEF N
<1> QED
  BY <1>6

\* A page that is not full reaches the end of the rows.
LEMMA ShortPage ==
  ASSUME TypeOK, NEW rows, IsFiniteSet(rows), rows \subseteq Calls, Distinct(rows),
         NEW s \in Nat, NEW some, IsFiniteSet(some),
         some = {r \in rows : Position(r, rows) \in s .. s + PageSize - 1},
         Cardinality(some) < PageSize
  PROVE  Cardinality(rows) <= s + Cardinality(some)
<1>0. Cardinality(rows) \in Nat /\ Cardinality(some) \in Nat /\ PageSize \in Nat
  BY FS_CardinalityType, AccountsAssumption
<1> SUFFICES ASSUME s + Cardinality(some) < Cardinality(rows) PROVE FALSE
  BY <1>0
<1> DEFINE last == s + Cardinality(some)
           N == s .. last
           f == [r \in some |-> Position(r, rows)]
           g == [n \in N |-> CHOOSE r \in rows : Position(r, rows) = n]
<1>1. \A n \in N : n \in 0 .. Cardinality(rows) - 1 /\ n \in s .. s + PageSize - 1
  BY <1>0
<1>2. \A n \in N : g[n] \in rows /\ Position(g[n], rows) = n
  BY <1>1, EveryPosition
<1>3. g \in [N -> some]
  BY <1>1, <1>2
<1>4. \A m, n \in N : g[m] = g[n] => m = n
  <2> TAKE m, n \in N
  <2>1. Position(g[m], rows) = m /\ Position(g[n], rows) = n
    BY <1>2
  <2> QED
    BY <2>1
<1>5. g \in Injection(N, some)
  BY <1>3, <1>4, Fun_IsInj
<1>6. Cardinality(N) <= Cardinality(some)
  BY <1>5, FS_Injection
<1>7. Cardinality(N) = Cardinality(some) + 1
  <2>1. s \in Int /\ last \in Int
    BY <1>0
  <2>2. Cardinality(N) = IF s > last THEN 0 ELSE last - s + 1
    BY <2>1, FS_Interval
  <2> QED
    BY <1>0, <2>2
<1> QED
  BY <1>0, <1>6, <1>7

\* No page is longer than its limit.
LEMMA PageFits ==
  ASSUME TypeOK, NEW rows, IsFiniteSet(rows), rows \subseteq Calls, Distinct(rows),
         NEW s \in Nat, NEW some,
         some = {r \in rows : Position(r, rows) \in s .. s + PageSize - 1}
  PROVE  IsFiniteSet(some) /\ Cardinality(some) <= PageSize
<1> DEFINE N == s .. s + PageSize - 1
           f == [r \in some |-> Position(r, rows)]
<1>1. f \in [some -> N]
  OBVIOUS
<1>2. \A a, b \in some : f[a] = f[b] => a = b
  BY PositionsDiffer
<1>3. f \in Injection(some, N)
  BY <1>1, <1>2, Fun_IsInj
<1>4. IsFiniteSet(N) /\ Cardinality(N) = PageSize
  <2>1. s \in Int /\ s + PageSize - 1 \in Int /\ PageSize \in Nat \ {0}
    BY AccountsAssumption
  <2>2. IsFiniteSet(N) /\ Cardinality(N) =
          IF s > s + PageSize - 1 THEN 0 ELSE (s + PageSize - 1) - s + 1
    BY <2>1, FS_Interval
  <2> QED
    BY <2>1, <2>2
<1> QED
  BY <1>3, <1>4, FS_Injection

LEMMA BeganStays ==
  ASSUME TypeOK, BeganInv, [Next]_vars, NEW c \in Calls, began[c] # 0
  PROVE  began'[c] = began[c]
<1>1. began' = began \/ \E d \in Calls : Authenticate(d)
  BY DEF Next, vars, Handle, Abort, InsertCustomer, FindCustomer, FlushInvoice,
     FlushLines, Commit, Count, ReadPage, LoadItems, NextPage, Terminated
<1>2. ASSUME NEW d \in Calls, Authenticate(d) PROVE began'[c] = began[c]
  <2>1. d # c
    BY <1>2 DEF Authenticate, BeganInv
  <2> QED
    BY <1>2, <2>1 DEF Authenticate, TypeOK
<1> QED
  BY <1>1, <1>2

LEMMA NoneRenewed ==
  ASSUME TypeOK, [Next]_vars, NEW c \in Calls, pc'[c] = "new"
  PROVE  pc[c] = "new"
<1>p. pc \in [Calls -> Labels]
  BY DEF TypeOK
<1>1. ASSUME NEW d \in Calls, NEW label, label # "new", Goto(d, label)
      PROVE  pc[c] = "new"
  BY <1>p, <1>1 DEF Goto
<1>2. ASSUME NEW d \in Calls, NEW code, Answer(d, code) PROVE pc[c] = "new"
  BY <1>1, <1>2 DEF Answer
<1>3. ASSUME NEW d \in Calls, Authenticate(d) PROVE pc[c] = "new"
  <2>1. FirstStep(ask[d].op) # "new"
    BY AskFacts DEF FirstStep
  <2> QED
    BY <1>1, <1>2, <1>3, <2>1 DEF Authenticate
<1>4. ASSUME NEW d \in Calls, Handle(d) \/ Abort(d) \/ NextPage(d) PROVE pc[c] = "new"
  BY <1>1, <1>2, <1>4 DEF Handle, Abort, InsertCustomer, FindCustomer, FlushInvoice,
     FlushLines, Commit, Count, ReadPage, LoadItems, NextPage
<1> QED
  BY <1>3, <1>4 DEF Next, vars, Terminated

LEMMA BeganStep == TypeOK /\ StageInv /\ BeganInv /\ [Next]_vars => BeganInv'
<1> SUFFICES ASSUME TypeOK, StageInv, BeganInv, [Next]_vars PROVE BeganInv'
  OBVIOUS
<1>p. pc \in [Calls -> Labels] /\ began \in [Calls -> Nat]
  BY DEF TypeOK
<1>1. CASE began' = began
  <2> QED
    BY <1>1, NoneRenewed DEF BeganInv, Begun
<1>2. ASSUME NEW c \in Calls, Authenticate(c), began' # began PROVE BeganInv'
  <2>1. /\ pc[c] = "new" /\ began[c] = 0
        /\ began' = [began EXCEPT ![c] = 1 + Cardinality(Begun)]
    BY <1>2 DEF Authenticate, BeganInv, Begun
  <2>2. IsFiniteSet(Begun) /\ Cardinality(Begun) \in Nat /\ c \notin Begun
    BY <2>1, AccountsAssumption, FS_Subset, FS_CardinalityType DEF Begun
  <2>3. Begun' = Begun \cup {c}
    BY <1>p, <2>1, <2>2 DEF Begun
  <2>4. Cardinality(Begun') = 1 + Cardinality(Begun)
    BY SMTT(40), <2>2, <2>3, FS_AddElement
  <2>5. \A d \in Calls : pc'[d] = "new" => d # c /\ pc[d] = "new"
    BY <1>p, <1>2, AskFacts DEF Authenticate, Goto, Answer, FirstStep
  <2>6. \A d \in Calls : began'[d] <= Cardinality(Begun')
    BY <1>p, <2>1, <2>2, <2>4 DEF BeganInv
  <2>7. \A d, e \in Calls : began'[d] = began'[e] /\ began'[d] # 0 => d = e
    BY <1>p, <2>1, <2>2 DEF BeganInv
  <2>8. \A d \in Calls : pc'[d] = "new" => began'[d] = 0
    BY <1>p, <2>1, <2>5 DEF BeganInv
  <2> QED
    BY <2>6, <2>7, <2>8 DEF BeganInv
<1>3. began' = began \/ \E c \in Calls : Authenticate(c)
  BY DEF Next, vars, Handle, Abort, InsertCustomer, FindCustomer, FlushInvoice,
     FlushLines, Commit, Count, ReadPage, LoadItems, NextPage, Terminated
<1> QED
  BY <1>1, <1>2, <1>3

LEMMA VisibleFacts ==
  ASSUME TypeOK, StageInv, BeganInv, NEW c \in Calls
  PROVE  /\ Visible(c) \subseteq Calls /\ IsFiniteSet(Visible(c)) /\ Distinct(Visible(c))
         /\ Cardinality(Visible(c)) \in Nat
         /\ \A r \in Visible(c) : began[r] # 0
<1>1. Visible(c) \in SUBSET Calls
  BY DEF Visible
<1>2. IsFiniteSet(Visible(c)) /\ Cardinality(Visible(c)) \in Nat
  BY <1>1, AccountsAssumption, FS_Subset, FS_CardinalityType
<1>3. \A r \in Visible(c) : began[r] # 0
  BY DEF Visible, StageInv, Stage
<1> QED
  BY <1>1, <1>2, <1>3 DEF Distinct, BeganInv

\* A commit moves a row towards the end of the list, never to its front.
LEMMA PositionGrows ==
  ASSUME TypeOK, StageInv, BeganInv, [Next]_vars, NEW c \in Calls
  PROVE  /\ Cardinality(Visible(c)) <= Cardinality(Visible(c)')
         /\ \A r \in Visible(c) : Cardinality(Newer(r, Visible(c)))
                                    <= Cardinality(Newer(r, Visible(c))')
<1>0. TypeOK' /\ StageInv' /\ BeganInv'
  BY TypeStep, StageStep, BeganStep
<1>1. Visible(c) \in SUBSET Visible(c)' /\ IsFiniteSet(Visible(c)')
  <2>1. Visible(c)' \in SUBSET Calls
    BY DEF Visible
  <2> QED
    BY <2>1, VisibleStays, AccountsAssumption, FS_Subset
<1>2. ASSUME NEW r \in Visible(c)
      PROVE  Cardinality(Newer(r, Visible(c))) <= Cardinality(Newer(r, Visible(c))')
  <2>1. Newer(r, Visible(c)) \in SUBSET Newer(r, Visible(c))'
    <3>1. \A q \in Visible(c) : began'[q] = began[q]
      BY VisibleFacts, BeganStays
    <3> QED
      BY <1>1, <1>2, <3>1 DEF Newer
  <2>2. Newer(r, Visible(c))' \in SUBSET Visible(c)'
    BY DEF Newer
  <2>3. IsFiniteSet(Newer(r, Visible(c))')
    BY <1>1, <2>2, FS_Subset
  <2> QED
    BY <2>1, <2>3, FS_Subset
<1> QED
  BY <1>1, <1>2, FS_Subset

LEMMA WantedStays ==
  ASSUME TypeOK, StageInv, [Next]_vars, NEW c \in Calls, Paging(c), known'[c] = known[c]
  PROVE  /\ Wanted(c)' = Wanted(c)
         /\ \A r \in known'[c] : row'[r] = "committed"
<1>1. known[c] \in SUBSET Calls
  BY DEF TypeOK
<1>2. \A r \in known[c] : row[r] = "committed" /\ row'[r] = "committed"
  BY <1>1, CommittedStays DEF Paging
<1> QED
  BY <1>1, <1>2, AskStays DEF Wanted, Visible, Owner

\* What the steps of others leave true of a reader.
LEMMA PagingStays ==
  ASSUME TypeOK, StageInv, BeganInv, [Next]_vars, NEW c \in Calls, Paging(c),
         pc'[c] = pc[c], answer'[c] = answer[c], known'[c] = known[c],
         skip'[c] = skip[c], count'[c] = count[c], page'[c] = page[c], got'[c] = got[c]
  PROVE  Paging(c)'
<1>1. /\ Wanted(c)' = Wanted(c) /\ Seen(c)' = Seen(c) /\ IsList(c)' = IsList(c)
      /\ \A r \in known'[c] : row'[r] = "committed"
      /\ ask' = ask
  BY WantedStays, AskStays DEF Seen, IsList
<1>2. skip[c] \in Nat /\ count[c] \in Nat /\ PageSize \in Nat
  BY AccountsAssumption DEF TypeOK
<1>3. /\ Cardinality(Visible(c)) \in Nat
      /\ Cardinality(Visible(c)') \in Nat
      /\ Cardinality(Visible(c)) <= Cardinality(Visible(c)')
  <2>1. TypeOK' /\ StageInv' /\ BeganInv'
    BY TypeStep, StageStep, BeganStep
  <2>2. Visible(c)' \in SUBSET Calls
    BY DEF Visible
  <2> QED
    BY <2>2, VisibleFacts, PositionGrows, AccountsAssumption, FS_Subset, FS_CardinalityType
<1>4. ASSUME NEW r \in Wanted(c), NEW n \in Nat, Cardinality(Newer(r, Visible(c))) >= n
      PROVE  Cardinality(Newer(r, Visible(c))') >= n
  <2>1. r \in Visible(c)
    BY DEF Wanted
  <2>2. Cardinality(Newer(r, Visible(c))) \in Nat
    BY <2>1, VisibleFacts, PositionFacts DEF Position
  <2>3. Cardinality(Newer(r, Visible(c))) <= Cardinality(Newer(r, Visible(c))')
    BY <2>1, PositionGrows
  <2>4. Cardinality(Newer(r, Visible(c))') \in Nat
    <3>1. Newer(r, Visible(c))' \in SUBSET Calls
      BY DEF Newer, Visible
    <3> QED
      BY <3>1, AccountsAssumption, FS_Subset, FS_CardinalityType
  <2> QED
    BY <1>4, <2>2, <2>3, <2>4
<1>5. IsList(c) /\ pc[c] \in {"count", "page"} => \A r \in Wanted(c)' : Ahead(c, r)'
  BY <1>1, <1>2, <1>4 DEF Paging, Ahead
<1>6. IsList(c) /\ pc[c] = "page" => count'[c] <= Cardinality(Visible(c)')
  BY <1>2, <1>3 DEF Paging
<1>7. AtEnd(c) => AtEnd(c)'
  BY <1>1 DEF AtEnd
<1>8. OnPage(c) => OnPage(c)'
  BY <1>1, <1>2, <1>4, <1>7 DEF OnPage
<1> QED
  BY <1>1, <1>5, <1>6, <1>7, <1>8 DEF Paging

LEMMA PagingStep ==
  TypeOK /\ StageInv /\ BeganInv /\ PagingInv /\ [Next]_vars => PagingInv'
<1> SUFFICES ASSUME TypeOK, StageInv, BeganInv, PagingInv, [Next]_vars, NEW d \in Calls
             PROVE  Paging(d)'
  BY DEF PagingInv
<1> DEFINE Quiet == /\ pc'[d] = pc[d] /\ answer'[d] = answer[d] /\ known'[d] = known[d]
                    /\ skip'[d] = skip[d] /\ count'[d] = count[d]
                    /\ page'[d] = page[d] /\ got'[d] = got[d]
<1>0. /\ Paging(d) /\ Stage(d) /\ ask' = ask /\ IsList(d)' = IsList(d)
      /\ IsWriter(d)' = IsWriter(d)
  BY AskStays DEF PagingInv, StageInv, IsList, IsWriter
<1>p. /\ pc \in [Calls -> Labels]
      /\ answer \in [Calls -> {0, 200, 201, 401, 404, 409, 500}]
      /\ known \in [Calls -> SUBSET Calls]
  BY DEF TypeOK
<1>s. skip \in [Calls -> Nat] /\ count \in [Calls -> Nat]
  BY DEF TypeOK
<1>g. page \in [Calls -> SUBSET Calls] /\ got \in [Calls -> SUBSET Item]
  BY DEF TypeOK
<1>q. Quiet => Paging(d)'
  BY <1>0, PagingStays
<1> HIDE DEF Quiet
<1>1. ASSUME NEW c \in Calls, Authenticate(c), c # d PROVE Quiet
  BY <1>p, <1>1 DEF Authenticate, Goto, Answer, readVars, Quiet
<1>2. ASSUME NEW c \in Calls, Handle(c) \/ Abort(c) \/ NextPage(c), c # d PROVE Quiet
  <2>1. known' = known
    BY <1>2 DEF Handle, Abort, InsertCustomer, FindCustomer, FlushInvoice, FlushLines,
       Commit, Count, ReadPage, LoadItems, NextPage
  <2>2. pc'[d] = pc[d] /\ answer'[d] = answer[d]
    BY <1>p, <1>2 DEF Handle, Abort, InsertCustomer, FindCustomer, FlushInvoice,
       FlushLines, Commit, Count, ReadPage, LoadItems, NextPage, Goto, Answer
  <2>3. skip'[d] = skip[d] /\ count'[d] = count[d]
    BY <1>s, <1>2 DEF Handle, Abort, InsertCustomer, FindCustomer, FlushInvoice,
       FlushLines, Commit, Count, ReadPage, LoadItems, NextPage, readVars
  <2>4. page'[d] = page[d] /\ got'[d] = got[d]
    BY <1>g, <1>2 DEF Handle, Abort, InsertCustomer, FindCustomer, FlushInvoice,
       FlushLines, Commit, Count, ReadPage, LoadItems, NextPage, readVars
  <2> QED
    BY <2>1, <2>2, <2>3, <2>4 DEF Quiet
<1>3. CASE UNCHANGED vars \/ Terminated
  BY <1>q, <1>3 DEF vars, readVars, Terminated, Quiet
<1>4. ASSUME Authenticate(d) PROVE Paging(d)'
  <2>1. /\ known'[d] = {r \in Calls : row[r] = "committed"}
        /\ row' = row /\ skip'[d] = 0
    BY <1>0, <1>p, <1>4 DEF Authenticate, Paging, rowVars, readVars
  <2>2. answer'[d] \in {0, 401} /\ pc'[d] # "new"
    <3>1. FirstStep(ask[d].op) # "new"
      BY AskFacts DEF FirstStep
    <3>2. answer[d] = 0
      BY <1>0, <1>4 DEF Stage, Authenticate
    <3> QED
      BY <1>p, <1>4, <3>1, <3>2 DEF Authenticate, Goto, Answer
  <2>3. IsList(d) => pc'[d] \in {"count", "done"}
    BY <1>p, <1>4 DEF Authenticate, Goto, Answer, FirstStep, IsList
  <2>4. \A r \in Wanted(d)' : Cardinality(Newer(r, Visible(d))') \in Nat
    <3> TAKE r \in Wanted(d)'
    <3>1. Newer(r, Visible(d))' \in SUBSET Calls
      BY DEF Newer, Visible
    <3> QED
      BY <3>1, AccountsAssumption, FS_Subset, FS_CardinalityType
  <2>5. \A r \in Wanted(d)' : Ahead(d, r)'
    BY <2>1, <2>4 DEF Ahead
  <2> QED
    BY <1>0, <2>1, <2>2, <2>3, <2>5 DEF Paging
<1>5. ASSUME Abort(d) \/ (IsWriter(d) /\ Handle(d)) PROVE Paging(d)'
  <2>1. known'[d] = known[d] /\ pc[d] # "new"
    BY <1>5 DEF Handle, Abort, InsertCustomer, FindCustomer, FlushInvoice, FlushLines,
       Commit, Count, ReadPage, LoadItems
  <2>2. pc'[d] # "new"
    BY <2>1, NoneRenewed
  <2>3. \/ IsWriter(d)
        \/ pc'[d] = "done" /\ answer'[d] = 500
    BY <1>p, <1>5 DEF Abort, Answer, Goto
  <2> QED
    BY <1>0, <2>1, <2>2, <2>3, WantedStays DEF Paging, IsWriter, IsList
<1>v. Visible(d) \subseteq Calls /\ IsFiniteSet(Visible(d)) /\ Distinct(Visible(d))
  BY VisibleFacts
<1>n. /\ PageSize \in Nat \ {0} /\ skip[d] \in Nat /\ count[d] \in Nat
      /\ Cardinality(Visible(d)) \in Nat
  BY <1>s, VisibleFacts, AccountsAssumption
<1>6. ASSUME Count(d) PROVE Paging(d)'
  <2>1. /\ UNCHANGED <<row, began, known, skip, got, answer>>
        /\ pc'[d] = "page" /\ count'[d] = Cardinality(Visible(d))
    BY <1>p, <1>s, <1>6 DEF Count, Goto, rowVars
  <2>2. Visible(d)' = Visible(d) /\ Wanted(d)' = Wanted(d) /\ Seen(d)' = Seen(d)
    BY <1>0, <2>1 DEF Visible, Wanted, Seen, Owner
  <2>3. \A r \in Wanted(d) : Newer(r, Visible(d))' = Newer(r, Visible(d))
    BY <2>1, <2>2 DEF Newer
  <2>4. answer[d] = 0 /\ pc[d] = "count" /\ IsList(d)
    BY <1>0, <1>6 DEF Count, Stage
  <2>5. \A r \in Wanted(d)' : Ahead(d, r)'
    BY <1>0, <2>1, <2>2, <2>3, <2>4 DEF Paging, Ahead
  <2>6. count'[d] <= Cardinality(Visible(d)')
    BY <1>n, <2>1, <2>2
  <2> QED
    BY <1>0, <2>1, <2>4, <2>5, <2>6 DEF Paging
<1>7. ASSUME ReadPage(d) PROVE Paging(d)'
  <2>1. /\ UNCHANGED <<row, began, known, skip, got, count>>
        /\ pc[d] = "page" /\ page'[d] = Selected(d) /\ answer[d] = 0
        /\ \/ pc'[d] = "done" /\ answer'[d] = 404 /\ ~IsList(d) /\ Selected(d) = {}
           \/ pc'[d] = "items" /\ answer'[d] = answer[d]
    BY <1>0, <1>p, <1>g, <1>7 DEF ReadPage, Goto, Answer, rowVars, Stage
  <2>2. Visible(d)' = Visible(d) /\ Wanted(d)' = Wanted(d) /\ Seen(d)' = Seen(d)
    BY <1>0, <2>1 DEF Visible, Wanted, Seen, Owner
  <2>3. \A r \in Wanted(d) : Newer(r, Visible(d))' = Newer(r, Visible(d))
    BY <2>1, <2>2 DEF Newer
  <2>4. CASE ~IsList(d)
    <3>1. ask[d].op \in {"getCustomer", "getInvoice"} /\ Selected(d) = {} =>
            ask[d].id \notin Wanted(d)
      BY <2>4 DEF Selected, Wanted
    <3> QED
      BY <1>0, <2>1, <2>2, <2>4, <3>1 DEF Paging
  <2>5. CASE IsList(d)
    <3>1. Selected(d) = {r \in Visible(d) :
                           Position(r, Visible(d)) \in skip[d] .. skip[d] + PageSize - 1}
      BY <2>5 DEF Selected, Position
    <3>2. IsFiniteSet(Selected(d)) /\ Cardinality(Selected(d)) <= PageSize
      BY <1>v, <1>n, <3>1, PageFits
    <3>3. Cardinality(Selected(d)) \in Nat
      BY <3>2, FS_CardinalityType
    <3>4. \A r \in Wanted(d) : /\ Position(r, Visible(d)) \in 0 .. Cardinality(Visible(d)) - 1
                               /\ r \in Seen(d) \/ Position(r, Visible(d)) >= skip[d]
      BY <1>0, <1>v, <2>1, <2>5, PositionFacts DEF Paging, Ahead, Position, Wanted
    <3>5. CASE Cardinality(Selected(d)) < PageSize
      <4>1. Cardinality(Visible(d)) <= skip[d] + Cardinality(Selected(d))
        BY <1>v, <1>n, <3>1, <3>2, <3>5, ShortPage
      <4>2. Wanted(d) \subseteq Seen(d) \cup Selected(d)
        <5> SUFFICES ASSUME NEW r \in Wanted(d), r \notin Seen(d)
                     PROVE  r \in Selected(d)
          OBVIOUS
        <5>1. Position(r, Visible(d)) \in skip[d] .. skip[d] + PageSize - 1
          BY <1>n, <3>3, <3>4, <3>5, <4>1
        <5> QED
          BY <3>1, <5>1 DEF Wanted
      <4>3. count[d] <= skip[d] + Cardinality(Selected(d))
        BY <1>0, <1>n, <2>1, <2>5, <3>3, <4>1 DEF Paging
      <4>4. AtEnd(d)'
        BY <2>1, <2>2, <4>2, <4>3 DEF AtEnd
      <4> QED
        BY <1>0, <2>1, <2>5, <4>4 DEF Paging, OnPage
    <3>6. CASE ~(Cardinality(Selected(d)) < PageSize)
      <4>1. Cardinality(page'[d]) = PageSize
        BY <1>n, <2>1, <3>2, <3>3, <3>6
      <4>2. \A r \in Wanted(d) \ Selected(d) :
              r \in Seen(d) \/ Position(r, Visible(d)) >= skip[d] + PageSize
        BY <1>n, <3>1, <3>4 DEF Wanted
      <4>3. \A r \in Wanted(d)' \ page'[d] :
              r \in Seen(d)' \/ Cardinality(Newer(r, Visible(d))') >= skip'[d] + PageSize
        BY <2>1, <2>2, <2>3, <4>2 DEF Position
      <4> QED
        BY <1>0, <2>1, <2>5, <4>1, <4>3 DEF Paging, OnPage
    <3> QED
      BY <3>5, <3>6
  <2> QED
    BY <2>4, <2>5
<1>8. ASSUME LoadItems(d) PROVE Paging(d)'
  <2>1. /\ UNCHANGED <<row, began, known, skip, count, page>>
        /\ pc[d] = "items" /\ pc'[d] = "done" /\ answer'[d] = 200
        /\ got'[d] = got[d] \cup
             {[id |-> r, total |-> total[r], lines |-> lines[r]] : r \in page[d]}
    BY <1>p, <1>g, <1>8 DEF LoadItems, Answer, Goto, rowVars
  <2>2. Visible(d)' = Visible(d) /\ Wanted(d)' = Wanted(d)
    BY <1>0, <2>1 DEF Visible, Wanted, Owner
  <2>3. Seen(d)' = Seen(d) \cup page[d]
    <3>1. ASSUME NEW r PROVE r \in Seen(d)' <=> \E item \in got'[d] : r = item.id
      BY DEF Seen
    <3>2. ASSUME NEW r PROVE r \in Seen(d) <=> \E item \in got[d] : r = item.id
      BY DEF Seen
    <3>3. ASSUME NEW r
          PROVE  (\E item \in got'[d] : r = item.id)
                   <=> (\E item \in got[d] : r = item.id) \/ r \in page[d]
      <4>1. ASSUME NEW item
            PROVE  item \in got'[d] <=>
                     \/ item \in got[d]
                     \/ \E q \in page[d] :
                          item = [id |-> q, total |-> total[q], lines |-> lines[q]]
        BY <2>1
      <4>2. \A q : [id |-> q, total |-> total[q], lines |-> lines[q]].id = q
        OBVIOUS
      <4>3. r \in page[d] => \E item \in got'[d] : r = item.id
        BY <4>1, <4>2
      <4>4. \A item \in got'[d] : item \in got[d] \/ item.id \in page[d]
        BY <4>1, <4>2
      <4> QED
        BY <4>1, <4>3, <4>4
    <3> QED
      BY <3>1, <3>2, <3>3
  <2>4. \A r \in Wanted(d) : Newer(r, Visible(d))' = Newer(r, Visible(d))
    BY <2>1, <2>2 DEF Newer
  <2>5. IsList(d) => OnPage(d)' /\ page'[d] \subseteq Seen(d)'
    BY <1>0, <2>1, <2>2, <2>3, <2>4 DEF Paging, OnPage, AtEnd
  <2> QED
    BY <1>0, <2>1, <2>5 DEF Paging
<1>9. ASSUME NextPage(d) PROVE Paging(d)'
  <2>1. /\ UNCHANGED <<row, began, known, page, got>>
        /\ answer[d] = 200 /\ answer'[d] = 0 /\ pc'[d] = "count"
        /\ IsList(d) /\ skip'[d] = skip[d] + PageSize
    BY <1>p, <1>s, <1>9 DEF NextPage, FullPage, Goto, rowVars
  <2>2. Visible(d)' = Visible(d) /\ Wanted(d)' = Wanted(d) /\ Seen(d)' = Seen(d)
    BY <1>0, <2>1 DEF Visible, Wanted, Seen, Owner
  <2>3. \A r \in Wanted(d) : Newer(r, Visible(d))' = Newer(r, Visible(d))
    BY <2>1, <2>2 DEF Newer
  <2>4. OnPage(d) /\ page[d] \subseteq Seen(d)
    BY <1>0, <2>1 DEF Paging
  <2>5. \A r \in Wanted(d)' : Ahead(d, r)'
    BY <2>1, <2>2, <2>3, <2>4 DEF OnPage, AtEnd, Ahead
  <2> QED
    BY <1>0, <2>1, <2>5 DEF Paging
<1>10. ASSUME ~IsWriter(d), Handle(d) PROVE Count(d) \/ ReadPage(d) \/ LoadItems(d)
  BY <1>0, <1>10 DEF Handle, Stage, IsWriter, InsertCustomer, FindCustomer, FlushInvoice,
     FlushLines, Commit
<1>11. ASSUME NEW c \in Calls, Authenticate(c) \/ Handle(c) \/ Abort(c) \/ NextPage(c)
       PROVE  Paging(d)'
  <2>1. CASE c # d
    BY <1>q, <1>1, <1>2, <1>11, <2>1
  <2>2. CASE c = d
    <3>1. Authenticate(d) \/ Handle(d) \/ Abort(d) \/ NextPage(d)
      BY <1>11, <2>2
    <3>2. Handle(d) => Paging(d)'
      BY <1>5, <1>6, <1>7, <1>8, <1>10
    <3> QED
      BY <1>4, <1>5, <1>9, <3>1, <3>2
  <2> QED
    BY <2>1, <2>2
<1> QED
  BY <1>3, <1>11 DEF Next

-------------------------------------------------------------------------------
(***************************************************************************)
(* The theorems                                                            *)
(***************************************************************************)

LEMMA IInvInit == Init => IInv
<1> SUFFICES ASSUME Init PROVE IInv
  OBVIOUS
<1>1. TypeOK
  <2>1. 0 \in 0 .. BigMax /\ 0 \in 0 .. MaxAborts /\ <<>> \in Seq(Nat)
    BY AccountsAssumption
  <2>2. ask \in [Calls -> Asks]
    BY AccountsAssumption DEF Init
  <2> QED
    BY <2>1, <2>2 DEF Init, TypeOK
<1>2. StageInv /\ InvoiceInv /\ EmailInv /\ ConflictMeansTaken /\ ReaderInv
  BY DEF Init, StageInv, Stage, InvoiceInv, EmailInv, ConflictMeansTaken, ReaderInv
<1>3. BeganInv
  <2>1. Cardinality(Begun) \in Nat
    BY AccountsAssumption, FS_Subset, FS_CardinalityType DEF Begun
  <2> QED
    BY <2>1 DEF Init, BeganInv
<1>4. PagingInv
  BY DEF Init, PagingInv, Paging
<1> QED
  BY <1>1, <1>2, <1>3, <1>4 DEF IInv

LEMMA IInvStep == IInv /\ [Next]_vars => IInv'
BY TypeStep, StageStep, InvoiceStep, EmailStep, ConflictStep, ReaderStep, BeganStep,
   PagingStep DEF IInv

\* What every reachable state satisfies.
THEOREM SpecIInv == Spec => []IInv
<1> QED
  BY IInvInit, IInvStep, PTL DEF Spec

\* No total in a row leaves the BIGINT column, whatever the payloads.
THEOREM SpecTypeOK == Spec => []TypeOK
<1>1. IInv => TypeOK
  BY DEF IInv
<1> QED
  BY <1>1, SpecIInv, PTL

\* Of any number of calls that race, one at most creates the customer.
THEOREM SpecOneCustomerPerEmail == Spec => []OneCustomerPerEmail
<1>1. IInv => OneCustomerPerEmail
  BY DEF IInv, EmailInv, OneCustomerPerEmail
<1> QED
  BY <1>1, SpecIInv, PTL

\* A 409 names a customer that exists for good.
THEOREM SpecConflictMeansTaken == Spec => []ConflictMeansTaken
<1>1. IInv => ConflictMeansTaken
  BY DEF IInv
<1> QED
  BY <1>1, SpecIInv, PTL

\* The row of a call is there exactly if the call was told 201.
THEOREM SpecAllOrNothing == Spec => []AllOrNothing
<1>1. IInv => AllOrNothing
  <2> SUFFICES ASSUME IInv, NEW c \in Calls, answer[c] \notin {0, 201}
               PROVE  row[c] = "none" /\ lines[c] = <<>>
    BY DEF IInv, StageInv, Stage, AllOrNothing
  <2>1. row[c] \in {"none", "flushed", "committed"} /\ Stage(c)
    BY DEF IInv, TypeOK, StageInv
  <2> QED
    BY <2>1 DEF Stage
<1> QED
  BY <1>1, SpecIInv, PTL

\* What readers are shown is a whole invoice, whose total is its sum.
THEOREM SpecTotalsAddUp == Spec => []TotalsAddUp
<1>1. IInv => TotalsAddUp
  <2> SUFFICES ASSUME IInv, NEW c \in Calls, NEW item \in got[c],
                      ask[item.id].op = "createInvoice"
               PROVE  /\ Len(item.lines) = Len(ask[item.id].items)
                      /\ item.total = SumOf(item.lines)
    BY DEF TotalsAddUp
  <2>1. /\ item.id \in Calls /\ row[item.id] = "committed"
        /\ item.total = total[item.id] /\ item.lines = lines[item.id]
    BY DEF IInv, ReaderInv, Visible
  <2>2. /\ total[item.id] = SumOf(Amounts(ask[item.id].items))
        /\ lines[item.id] = Amounts(ask[item.id].items)
    BY <2>1 DEF IInv, InvoiceInv
  <2>3. ask[item.id].items \in Payloads
    BY <2>1, AskFacts DEF IInv
  <2> QED
    BY <2>1, <2>2, <2>3, ItemTypes
<1> QED
  BY <1>1, SpecIInv, PTL

\* Nothing crosses from one business to another.
THEOREM SpecTenantIsolation == Spec => []TenantIsolation
<1>1. IInv => TenantIsolation
  BY DEF IInv, ReaderInv, InvoiceInv, Visible, TenantIsolation
<1> QED
  BY <1>1, SpecIInv, PTL

\* Paging to a short page misses nothing, for any page size and any commits between
\* the pages.
THEOREM SpecReadsAreComplete == Spec => []ReadsAreComplete
<1>1. IInv => ReadsAreComplete
  <2> SUFFICES ASSUME IInv, NEW c \in Calls
               PROVE  /\ answer[c] = 404 /\ "id" \in DOMAIN ask[c] => ask[c].id \notin Wanted(c)
                      /\ answer[c] = 200 /\ IsList(c) /\ ~FullPage(c) =>
                           Wanted(c) \subseteq {item.id : item \in got[c]}
    BY DEF ReadsAreComplete, Wanted
  <2>1. "id" \in DOMAIN ask[c] => ask[c].op \in {"getCustomer", "getInvoice"}
    BY AskFacts DEF IInv, Asks
  <2> QED
    BY <2>1 DEF IInv, PagingInv, Paging, OnPage, AtEnd, Seen, FullPage
<1> QED
  BY <1>1, SpecIInv, PTL

\* The total next to a short page is at most what the pages hold.
THEOREM SpecTotalNeverOverstates == Spec => []TotalNeverOverstates
<1>1. IInv => TotalNeverOverstates
  BY DEF IInv, PagingInv, Paging, OnPage, AtEnd, FullPage, TotalNeverOverstates
<1> QED
  BY <1>1, SpecIInv, PTL

\* An INSERT that waits is not part of a chain of waits.
THEOREM SpecInsertWaitsEnd == Spec => []InsertWaitsEnd
<1>1. IInv => InsertWaitsEnd
  <2> SUFFICES ASSUME IInv, NEW c \in Calls, NEW r \in Equals(c)
               PROVE  row[r] = "committed" \/ pc[r] = "commit"
    BY DEF InsertWaitsEnd
  <2>1. r \in Calls /\ row[r] # "none" /\ ask[r].op = "createCustomer"
    BY DEF Equals
  <2>2. row[r] \in {"none", "flushed", "committed"} /\ Stage(r)
    BY <2>1 DEF IInv, TypeOK, StageInv
  <2> QED
    BY <2>1, <2>2 DEF Stage
<1> QED
  BY <1>1, SpecIInv, PTL

-------------------------------------------------------------------------------
(***************************************************************************)
(* The requests implement Registry                                         *)
(***************************************************************************)

\* Only a call that creates has a row, and a GET answers with the row it names.
EntryInv ==
  \A c \in Calls :
     /\ row[c] # "none" => IsWriter(c)
     /\ pc[c] = "items" /\ ~IsList(c) => page[c] = {ask[c].id}

\* Only its own read of a page brings a call to "items".
LEMMA ReaderMoves ==
  ASSUME TypeOK, [Next]_vars, NEW d \in Calls
  PROVE  \/ ReadPage(d)
         \/ LoadItems(d)
         \/ (pc'[d] = "items" => pc[d] = "items") /\ page'[d] = page[d]
<1> DEFINE Stays == /\ pc'[d] = "items" => pc[d] = "items"
                    /\ page'[d] = page[d]
<1>1. /\ pc \in [Calls -> Labels] /\ page \in [Calls -> SUBSET Calls]
  BY SMTT(40) DEF TypeOK
<1>2. ASSUME NEW c \in Calls, NEW label, label # "items" \/ c # d, Goto(c, label)
      PROVE  pc'[d] = "items" => pc[d] = "items"
  BY <1>1, <1>2 DEF Goto
<1>3. ASSUME NEW c \in Calls, NEW code, Answer(c, code)
      PROVE  pc'[d] = "items" => pc[d] = "items"
  BY <1>2, <1>3 DEF Answer
<1>4. ASSUME NEW c \in Calls, Authenticate(c) PROVE Stays
  <2>1. FirstStep(ask[c].op) # "items"
    BY AskFacts DEF FirstStep
  <2> QED
    BY <1>2, <1>3, <1>4, <2>1 DEF Authenticate, readVars
<1>5. ASSUME NEW c \in Calls,
             \/ InsertCustomer(c) \/ FindCustomer(c) \/ FlushInvoice(c)
             \/ FlushLines(c) \/ Commit(c) \/ Abort(c) \/ Count(c) \/ NextPage(c)
      PROVE  Stays
  BY <1>2, <1>3, <1>5 DEF InsertCustomer, FindCustomer, FlushInvoice, FlushLines, Commit,
     Abort, Count, NextPage, readVars
<1>6. ASSUME NEW c \in Calls, c # d, ReadPage(c) PROVE Stays
  BY <1>1, <1>2, <1>3, <1>6 DEF ReadPage
<1>7. ASSUME NEW c \in Calls, c # d, LoadItems(c) PROVE Stays
  BY <1>1, <1>2, <1>3, <1>7 DEF LoadItems
<1>8. ASSUME UNCHANGED vars PROVE Stays
  BY <1>8 DEF vars, readVars
<1> HIDE DEF Stays
<1>9. ASSUME NEW c \in Calls, Authenticate(c) \/ Handle(c) \/ Abort(c) \/ NextPage(c)
      PROVE  ReadPage(d) \/ LoadItems(d) \/ Stays
  <2>1. CASE ReadPage(c) \/ LoadItems(c)
    BY <1>6, <1>7, <2>1
  <2> QED
    BY <1>4, <1>5, <1>9, <2>1 DEF Handle
<1>10. ReadPage(d) \/ LoadItems(d) \/ Stays
  BY <1>8, <1>9 DEF Next, Terminated
<1> QED
  BY <1>10 DEF Stays

LEMMA EntryStep == IInv /\ EntryInv /\ [Next]_vars => EntryInv'
<1> SUFFICES ASSUME IInv, EntryInv, [Next]_vars, NEW d \in Calls
             PROVE  /\ row'[d] # "none" => IsWriter(d)
                    /\ pc'[d] = "items" /\ ~IsList(d) => page'[d] = {ask[d].id}
  BY AskStays DEF EntryInv, IsWriter, IsList
<1>1. TypeOK /\ StageInv
  BY DEF IInv
<1>2. ASSUME row'[d] # "none" PROVE IsWriter(d)
  <2>1. CASE row[d] = "none"
    BY <1>1, <1>2, <2>1, NewRows
       DEF InsertCustomer, FlushInvoice, StageInv, Stage, IsWriter
  <2> QED
    BY <2>1 DEF EntryInv
<1>3. ASSUME pc'[d] = "items", ~IsList(d) PROVE page'[d] = {ask[d].id}
  <2>1. /\ pc \in [Calls -> Labels] /\ page \in [Calls -> SUBSET Calls]
    BY SMTT(40), <1>1 DEF TypeOK
  <2>2. CASE ReadPage(d)
    <3>1. page'[d] = Selected(d) /\ Selected(d) # {}
      BY <1>3, <2>1, <2>2 DEF ReadPage, Goto, Answer
    <3> QED
      BY <1>3, <3>1 DEF Selected
  <2>3. CASE ~ReadPage(d)
    <3>1. ~LoadItems(d)
      BY <1>3, <2>1 DEF LoadItems, Goto, Answer
    <3>2. pc[d] = "items" /\ page'[d] = page[d]
      BY <1>1, <1>3, <2>3, <3>1, ReaderMoves
    <3> QED
      BY <1>3, <3>2 DEF EntryInv
  <2> QED
    BY <2>2, <2>3
<1> QED
  BY <1>2, <1>3

LEMMA SpecEntryInv == Spec => [](IInv /\ EntryInv)
<1>1. Init => EntryInv
  BY DEF Init, EntryInv
<1> QED
  BY <1>1, IInvInit, IInvStep, EntryStep, PTL DEF Spec

KindOf(r) == IF ask[r].op = "createCustomer" THEN "customer" ELSE "invoice"

LEMMA EntryFacts ==
  ASSUME NEW r, NEW t, NEW l
  PROVE  /\ EntryOf(r, t, l).id = r
         /\ EntryOf(r, t, l).kind = KindOf(r)
         /\ EntryOf(r, t, l).business = Owner(r)
         /\ ask[r].op = "createCustomer" => EntryOf(r, t, l).of = ask[r].email
<1>1. CASE ask[r].op = "createCustomer"
  BY <1>1 DEF EntryOf, KindOf
<1>2. CASE ask[r].op # "createCustomer"
  BY <1>2 DEF EntryOf, KindOf
<1> QED
  BY <1>1, <1>2

\* The names of the entries that a call is after.
LEMMA NamedFacts ==
  ASSUME NEW c \in Calls
  PROVE  /\ Promise!Ids(Promise!Named(c)) = {r \in Committed : Names(c, r)}
         /\ \A r \in Committed :
              Names(c, r) => EntryOf(r, total[r], lines[r]) \in Promise!Named(c)
<1>1. Wishes[c] = WishOf(c)
  BY DEF Wishes
<1>2. WishOf(c).business = Owner(c)
  BY DEF WishOf
<1>3. ASSUME NEW r \in Committed
      PROVE  LET e == EntryOf(r, total[r], lines[r]) IN
             /\ e.id = r
             /\ e \in Entries
             /\ Names(c, r) <=> /\ e.id \in WishOf(c).ids
                                /\ e.kind = WishOf(c).kind
                                /\ e.business = WishOf(c).business
  BY <1>2, EntryFacts DEF Entries, Names
<1> QED
  BY <1>1, <1>3 DEF Promise!Ids, Promise!Named, Entries

\* A wish, and what an entry of given values is, never change.
LEMMA WishesStay ==
  ASSUME ask' = ask
  PROVE  /\ Wishes' = Wishes
         /\ \A c, r \in Calls : Names(c, r)' <=> Names(c, r)
         /\ \A r, t, l : EntryOf(r, t, l)' = EntryOf(r, t, l)
<1>1. \A r, t, l : EntryOf(r, t, l)' = EntryOf(r, t, l)
  BY DEF EntryOf, Owner
<1>2. \A c : WishOf(c)' = WishOf(c)
  BY ZenonT(60), <1>1 DEF WishOf, InvoiceOf, Owner, IsList
<1>3. Wishes' = Wishes
  BY <1>2 DEF Wishes
<1>4. \A c, r \in Calls : Names(c, r)' <=> Names(c, r)
  BY <1>1, <1>2 DEF Names, Owner
<1> QED
  BY <1>1, <1>3, <1>4

\* What a step that commits nothing leaves alone.
LEMMA NothingShows ==
  ASSUME IInv, [Next]_vars, Committed' = Committed, UNCHANGED <<Asked, known>>
  PROVE  UNCHANGED <<Wishes, Entries, Asked, Due>> /\ (got' = got => Shown' = Shown)
<1>1. ask' = ask
  BY AskStays
<1>2. \A r \in Committed : total'[r] = total[r] /\ lines'[r] = lines[r]
  BY CommittedStays DEF IInv, Committed
<1>3. Entries' = Entries
  <2>1. Entries' = {EntryOf(r, total'[r], lines'[r]) : r \in Committed'}
    BY <1>1 DEF Entries, EntryOf, Owner
  <2> QED
    BY <1>2, <2>1 DEF Entries
<1>4. Due' = Due
  <2>1. \A c \in Calls : known[c] \subseteq Calls
    BY DEF IInv, TypeOK
  <2>2. \A c \in Calls : {r \in known'[c] : Names(c, r)'} = {r \in known[c] : Names(c, r)}
    BY <1>1, <2>1, WishesStay
  <2> QED
    BY <2>2 DEF Due
<1>5. got' = got => Shown' = Shown
  BY <1>1, WishesStay DEF Shown
<1> QED
  BY <1>1, <1>3, <1>4, <1>5, WishesStay

\* What a handler does not touch.
LEMMA HandlerFrame ==
  ASSUME TypeOK, StageInv, NEW c \in Calls, Handle(c) \/ Abort(c)
  PROVE  /\ c \in Asked /\ answer[c] = 0
         /\ Asked' = Asked /\ known' = known
         /\ \A d \in Calls \ {c} : page'[d] = page[d]
<1>1. pc \in [Calls -> Labels] /\ pc[c] \notin {"new", "done"}
  BY DEF TypeOK, Handle, Abort, InsertCustomer, FindCustomer, FlushInvoice, FlushLines,
     Commit, Count, ReadPage, LoadItems
<1>2. answer[c] = 0
  BY <1>1 DEF StageInv, Stage
<1>3. \E label \in Labels \ {"new"} : Goto(c, label)
  BY DEF Handle, Abort, Answer, InsertCustomer, FindCustomer, FlushInvoice, FlushLines,
     Commit, Count, ReadPage, LoadItems
<1>4. Asked' = Asked
  BY <1>1, <1>3 DEF Goto, Asked
<1>5. known' = known
  BY DEF Handle, Abort, Answer, InsertCustomer, FindCustomer, FlushInvoice, FlushLines,
     Commit, Count, ReadPage, LoadItems
<1>6. \A d \in Calls \ {c} : page'[d] = page[d]
  <2>1. page \in [Calls -> SUBSET Calls]
    BY DEF TypeOK
  <2> QED
    BY <2>1 DEF Handle, Abort, InsertCustomer, FindCustomer, FlushInvoice, FlushLines,
       Commit, Count, ReadPage, LoadItems, readVars
<1> QED
  BY <1>1, <1>2, <1>4, <1>5, <1>6 DEF Asked

\* Rows are committed by the answer 201 alone.
LEMMA CommittedFacts ==
  ASSUME StageInv, StageInv',
         \A r \in Calls : answer'[r] = 201 <=> answer[r] = 201
  PROVE  Committed' = Committed
<1>1. Committed = {r \in Calls : answer[r] = 201}
  BY DEF Committed, StageInv, Stage
<1>2. Committed' = {r \in Calls : answer'[r] = 201}
  BY DEF Committed, StageInv, Stage
<1> QED
  BY <1>1, <1>2

LEMMA HandlerHides ==
  ASSUME IInv, [Next]_vars, NEW c \in Calls, Handle(c) \/ Abort(c),
         \A r \in Calls : answer'[r] = 201 <=> answer[r] = 201
  PROVE  UNCHANGED <<Wishes, Entries, Asked, Due>> /\ (got' = got => Shown' = Shown)
<1>1. /\ TypeOK /\ StageInv /\ TypeOK' /\ StageInv'
  BY IInvStep DEF IInv
<1> QED
  BY <1>1, HandlerFrame, CommittedFacts, NothingShows

\* A call was told its answer, but for a full page.
LEMMA ToldSteps ==
  ASSUME ask' = ask, NEW c \in Calls,
         \A d \in Calls \ {c} : answer'[d] = answer[d] /\ page'[d] = page[d]
  PROVE  /\ answer'[c] = 200 /\ FullPage(c)' => Told' = [Told EXCEPT ![c] = 0]
         /\ answer'[c] # 200 \/ ~FullPage(c)' => Told' = [Told EXCEPT ![c] = answer'[c]]
<1>1. \A d \in Calls \ {c} : FullPage(d)' <=> FullPage(d)
  BY DEF FullPage, IsList
<1>2. \A d \in Calls \ {c} : Told'[d] = Told[d]
  BY <1>1 DEF Told
<1>3. /\ answer'[c] = 200 /\ FullPage(c)' => Told'[c] = 0
      /\ answer'[c] # 200 \/ ~FullPage(c)' => Told'[c] = answer'[c]
  BY DEF Told
<1>4. DOMAIN Told = Calls /\ Told = [d \in Calls |-> Told[d]]
  BY DEF Told
<1>5. Told' = [d \in Calls |-> Told'[d]]
  BY DEF Told
<1>6. ASSUME NEW x, Told'[c] = x PROVE Told' = [Told EXCEPT ![c] = x]
  BY <1>2, <1>4, <1>5, <1>6
<1> QED
  BY <1>3, <1>6

\* A call that is not answered has been told nothing.
LEMMA UntoldStays ==
  ASSUME ask' = ask, NEW c \in Calls, answer[c] = 0, answer' = answer,
         \A d \in Calls \ {c} : page'[d] = page[d]
  PROVE  Told' = Told
<1>1. Told' = [Told EXCEPT ![c] = 0]
  BY ToldSteps
<1>2. Told[c] = 0
  BY DEF Told
<1> QED
  BY ZenonT(60), <1>1, <1>2 DEF Told

LEMMA AuthenticateAsks ==
  ASSUME IInv, [Next]_vars, NEW c \in Calls, Authenticate(c)
  PROVE  Promise!Ask(c)
<1>1. /\ TypeOK /\ StageInv /\ TypeOK' /\ StageInv' /\ ask' = ask
      /\ pc \in [Calls -> Labels] /\ answer[c] = 0
  BY ZenonT(60), IInvStep, AskStays DEF IInv, TypeOK, StageInv, Stage, Authenticate
<1>2. /\ Wishes' = Wishes
      /\ \A d, r \in Calls : Names(d, r)' <=> Names(d, r)
      /\ \A r, t, l : EntryOf(r, t, l)' = EntryOf(r, t, l)
  BY <1>1, WishesStay
<1>3. Entries' = Entries
  BY <1>2 DEF Authenticate, rowVars, Entries, Committed
<1>4. Shown' = Shown
  BY <1>2 DEF Authenticate, readVars, Shown
<1>5. c \notin Asked /\ Asked' = Asked \cup {c}
  <2>1. FirstStep(ask[c].op) # "new"
    BY <1>1, AskFacts DEF FirstStep
  <2> QED
    BY <1>1, <2>1 DEF Asked, Authenticate, Goto, Answer
<1>6. Due' = [Due EXCEPT ![c] = Promise!Ids(Promise!Named(c))]
  <2>1. known' = [known EXCEPT ![c] = Committed]
    BY DEF Authenticate, Committed
  <2>2. known \in [Calls -> SUBSET Calls]
    BY <1>1 DEF TypeOK
  <2>3. Promise!Ids(Promise!Named(c)) = {r \in Committed : Names(c, r)}
    BY NamedFacts
  <2>4. Due' = [d \in Calls |-> {r \in known'[d] : Names(d, r)'}]
    BY DEF Due
  <2>5. ASSUME NEW d \in Calls
        PROVE  {r \in known'[d] : Names(d, r)'} =
                 IF d = c THEN {r \in Committed : Names(c, r)} ELSE Due[d]
    BY <1>2, <2>1, <2>2 DEF Due, Committed
  <2> QED
    BY <2>3, <2>4, <2>5 DEF Due
<1>7. Wishes[c].business = Owner(c)
  BY DEF Wishes, WishOf
<1>8. \/ Wishes[c].business \notin Businesses /\ Promise!Tell(c, 401)
      \/ Wishes[c].business \in Businesses /\ UNCHANGED Told
  <2>1. page' = page
    BY DEF Authenticate, readVars
  <2>2. ASSUME answer' = [answer EXCEPT ![c] = 401] PROVE Promise!Tell(c, 401)
    <3>1. answer'[c] = 401 /\ \A d \in Calls \ {c} : answer'[d] = answer[d]
      BY <2>2 DEF IInv, TypeOK
    <3>2. Told' = [Told EXCEPT ![c] = 401]
      BY <1>1, <2>1, <3>1, ToldSteps
    <3> QED
      BY <3>2 DEF Promise!Tell
  <2>3. answer' = answer => UNCHANGED Told
    BY <1>1, <2>1, UntoldStays
  <2> QED
    BY <1>1, <1>7, <2>2, <2>3, AskFacts, AccountsAssumption DEF Authenticate, Answer
<1> QED
  BY <1>2, <1>3, <1>4, <1>5, <1>6, <1>8 DEF Promise!Ask

\* c is told that it failed, and why.
Refused(c, code) ==
  /\ answer' = [answer EXCEPT ![c] = code]
  /\ code = 409 => ask[c].op = "createCustomer" /\ \E r \in Equals(c) : row[r] = "committed"
  /\ code = 404 => WishOf(c).ids # {} /\ ~IsList(c) /\ \A r \in known[c] : ~Names(c, r)

LEMMA RefusalRefuses ==
  ASSUME IInv, [Next]_vars, NEW c \in Calls, Handle(c) \/ Abort(c), got' = got,
         NEW code \in {404, 409, 500}, Refused(c, code)
  PROVE  Promise!Refuse(c)
<1> USE DEF Refused
<1>1. UNCHANGED <<Wishes, Entries, Asked, Due, Shown>>
  <2>1. answer[c] = 0 /\ answer \in [Calls -> {0, 200, 201, 401, 404, 409, 500}]
    BY SMTT(40), HandlerFrame DEF IInv, TypeOK
  <2>2. \A r \in Calls : answer'[r] = 201 <=> answer[r] = 201
    BY <2>1
  <2> QED
    BY <2>2, HandlerHides
<1>2. Promise!Waiting(c)
  BY HandlerFrame DEF IInv, Promise!Waiting, Told
<1>3. Promise!Tell(c, code)
  <2>1. \A d \in Calls \ {c} : page'[d] = page[d]
    BY HandlerFrame DEF IInv
  <2> QED
    <3>1. answer'[c] = code /\ \A d \in Calls \ {c} : answer'[d] = answer[d]
      BY DEF IInv, TypeOK
    <3>2. Told' = [Told EXCEPT ![c] = code]
      BY <2>1, <3>1, ToldSteps, AskStays
    <3> QED
      BY <3>2 DEF Promise!Tell
<1>4. Wishes[c] = WishOf(c)
  BY DEF Wishes
<1>5. code = 404 => ~Wishes[c].all /\ Wishes[c].ids # {} /\ Due[c] = {}
  <2>1. WishOf(c).all = IsList(c)
    BY DEF WishOf
  <2> QED
    BY <1>4, <2>1 DEF Due
<1>6. code = 409 => \E e \in Wishes[c].puts : Promise!Taken(e)
  <2> SUFFICES ASSUME code = 409 PROVE \E e \in Wishes[c].puts : Promise!Taken(e)
    OBVIOUS
  <2>1. PICK r \in Equals(c) : row[r] = "committed"
    OBVIOUS
  <2>2. /\ r \in Committed /\ ask[r].op = "createCustomer" /\ ask[c].op = "createCustomer"
        /\ Owner(r) = Owner(c) /\ ask[r].email = ask[c].email
    BY <2>1 DEF Equals, Committed
  <2> DEFINE e == EntryOf(c, 0, <<>>)
             x == EntryOf(r, total[r], lines[r])
  <2>3. e \in Wishes[c].puts
    BY <1>4, <2>2 DEF WishOf
  <2>4. x \in Entries
    BY <2>2 DEF Entries
  <2>5. /\ e.kind = "customer" /\ x.kind = "customer"
        /\ x.business = e.business /\ x.of = e.of
    <3> HIDE DEF e, x
    <3> QED
      BY <2>2, EntryFacts DEF e, x, KindOf
  <2> HIDE DEF e, x
  <2> QED
    BY <2>3, <2>4, <2>5 DEF Promise!Taken
<1> QED
  BY <1>1, <1>2, <1>3, <1>5, <1>6 DEF Promise!Refuse

\* A commit adds the entry that was wished for.
LEMMA CommitAdds ==
  ASSUME IInv, EntryInv, [Next]_vars, NEW c \in Calls, Commit(c)
  PROVE  Promise!Add(c)
<1>1. /\ TypeOK /\ StageInv /\ ask' = ask /\ pc[c] = "commit" /\ row[c] = "flushed"
      /\ Handle(c) /\ IsWriter(c)
  BY AskStays DEF IInv, StageInv, Stage, Commit, Handle
<1>2. Promise!Waiting(c) /\ UNCHANGED <<Asked, known>>
  BY <1>1, HandlerFrame DEF Promise!Waiting, Told
<1>3. Wishes' = Wishes /\ UNCHANGED <<Due, Shown>>
  <2>1. \A d \in Calls : known[d] \subseteq Calls
    BY <1>1 DEF TypeOK
  <2>2. \A d \in Calls : {r \in known'[d] : Names(d, r)'} = {r \in known[d] : Names(d, r)}
    BY <1>1, <1>2, <2>1, WishesStay
  <2>3. Due' = Due
    BY <2>2 DEF Due
  <2>4. Shown' = Shown
    BY <1>1, WishesStay DEF Commit, readVars, Shown
  <2> QED
    BY <1>1, <2>3, <2>4, WishesStay
<1>4. Promise!Tell(c, 201)
  <2>1. Told' = [Told EXCEPT ![c] = 201]
    <3>1. /\ answer'[c] = 201 /\ \A d \in Calls \ {c} : answer'[d] = answer[d]
          /\ page' = page
      BY <1>1 DEF Commit, Answer, readVars, TypeOK
    <3> QED
      BY <1>1, <3>1, ToldSteps
  <2> QED
    BY <2>1 DEF Promise!Tell
<1>5. Wishes[c] = WishOf(c)
  BY DEF Wishes
<1> DEFINE e == EntryOf(c, total[c], lines[c])
<1>6. e \in Wishes[c].puts
  <2>1. CASE ask[c].op = "createCustomer"
    <3>1. e = EntryOf(c, 0, <<>>)
      BY <2>1 DEF EntryOf
    <3> QED
      BY <1>5, <2>1, <3>1 DEF WishOf
  <2>2. CASE ask[c].op = "createInvoice"
    <3>1. total[c] = SumOf(Amounts(ask[c].items)) /\ lines[c] = Amounts(ask[c].items)
      BY <1>1, <2>2 DEF IInv, InvoiceInv
    <3> QED
      BY <1>5, <2>2, <3>1 DEF WishOf, InvoiceOf
  <2> QED
    BY <1>1, <2>1, <2>2 DEF IsWriter
<1>7. Promise!Ids(Promise!Named(c)) = Wishes[c].ids
  <2>1. CASE ask[c].op = "createCustomer"
    <3>1. WishOf(c).ids = {}
      BY <2>1 DEF WishOf, IsList
    <3>2. Promise!Ids(Promise!Named(c)) = {}
      BY <3>1, NamedFacts DEF Names
    <3> QED
      BY <1>5, <3>1, <3>2
  <2>2. CASE ask[c].op = "createInvoice"
    <3> DEFINE customer == ask[c].customer
    <3>1. customer \in Committed /\ Owner(customer) = Owner(c)
          /\ ask[customer].op = "createCustomer"
      BY <1>1, <2>2, AskFacts DEF IInv, InvoiceInv, Committed
    <3>2. WishOf(c).ids = {customer} /\ WishOf(c).kind = "customer"
      <4>1. ask[c].op # "createCustomer"
        BY <2>2
      <4> HIDE DEF customer
      <4>2. WishOf(c).kind = "customer"
        BY <2>2 DEF WishOf
      <4>3. WishOf(c).ids = {ask[c].customer}
        BY <2>2, <4>1 DEF WishOf, IsList
      <4> QED
        BY <4>2, <4>3 DEF customer
    <3>3. \A r \in Committed : Names(c, r) <=> r = customer
      <4>1. EntryOf(customer, 0, <<>>).kind = "customer"
        BY <3>1, EntryFacts DEF KindOf
      <4> HIDE DEF customer
      <4> QED
        BY <3>1, <3>2, <4>1 DEF Names
    <3> QED
      BY <1>5, <3>1, <3>2, <3>3, NamedFacts
  <2> QED
    BY <1>1, <2>1, <2>2 DEF IsWriter
<1>8. ~Promise!Taken(e)
  <2> SUFFICES ASSUME Promise!Taken(e) PROVE FALSE
    OBVIOUS
  <2>1. e.kind = "customer" /\ \E x \in Entries : x.kind = "customer"
          /\ x.business = e.business /\ x.of = e.of
    BY DEF Promise!Taken
  <2>2. PICK r \in Committed :
          LET x == EntryOf(r, total[r], lines[r]) IN
          x.kind = "customer" /\ x.business = e.business /\ x.of = e.of
    BY <2>1 DEF Entries
  <2>3. ask[c].op = "createCustomer" /\ ask[r].op = "createCustomer"
    BY <2>1, <2>2, EntryFacts DEF KindOf
  <2>4. Owner(r) = Owner(c) /\ ask[r].email = ask[c].email
    BY <2>2, <2>3, EntryFacts
  <2>5. r \in Equals(c)
    BY <1>1, <2>3, <2>4 DEF Equals, Committed
  <2> QED
    BY <1>1, <2>3, <2>5 DEF IInv, EmailInv
<1>9. Entries' = Entries \cup {e}
  <2>1. Committed' = Committed \cup {c}
    BY <1>1 DEF Commit, Committed, TypeOK
  <2>2. total' = total /\ lines' = lines
    BY DEF Commit
  <2>3. \A r : EntryOf(r, total[r], lines[r])' = EntryOf(r, total[r], lines[r])
    BY <1>1, <2>2, WishesStay
  <2>4. Entries' = {EntryOf(r, total[r], lines[r])' : r \in Committed'}
    BY DEF Entries
  <2> QED
    BY <2>1, <2>3, <2>4 DEF Entries
<1> HIDE DEF e
<1> QED
  BY <1>2, <1>3, <1>4, <1>6, <1>7, <1>8, <1>9 DEF Promise!Add

\* What c is after, if it creates nothing.
LEMMA ReaderWish ==
  ASSUME NEW c \in Calls, ask[c].op \in {"getCustomer", "getInvoice",
                                        "listCustomers", "listInvoices"}
  PROVE  /\ WishOf(c).puts = {}
         /\ WishOf(c).all = IsList(c)
         /\ WishOf(c).ids = IF IsList(c) THEN Calls ELSE {ask[c].id}
         /\ \A r \in Calls : ask[r].op = Creates(ask[c].op) =>
              EntryOf(r, 0, <<>>).kind = WishOf(c).kind
         /\ \A r \in Calls : IsWriter(r) /\ EntryOf(r, 0, <<>>).kind = WishOf(c).kind =>
              ask[r].op = Creates(ask[c].op)
<1>1. WishOf(c).puts = {} /\ WishOf(c).all = IsList(c)
  BY DEF WishOf
<1>2. WishOf(c).ids = IF IsList(c) THEN Calls ELSE {ask[c].id}
  BY DEF WishOf, IsList
<1>3. WishOf(c).kind = IF Creates(ask[c].op) = "createCustomer" THEN "customer" ELSE "invoice"
  BY DEF WishOf, Creates
<1>4. \A r : EntryOf(r, 0, <<>>).kind = KindOf(r)
  BY EntryFacts
<1> QED
  BY <1>1, <1>2, <1>3, <1>4 DEF KindOf, Creates, IsWriter

\* An answer shows the entries of its page.
LEMMA LoadShows ==
  ASSUME IInv, EntryInv, [Next]_vars, NEW c \in Calls, LoadItems(c)
  PROVE  Promise!Show(c)
<1>1. /\ TypeOK /\ StageInv /\ PagingInv' /\ ask' = ask /\ Handle(c) /\ pc[c] = "items"
      /\ answer \in [Calls -> {0, 200, 201, 401, 404, 409, 500}]
      /\ got \in [Calls -> SUBSET Item]
  BY ZenonT(60), IInvStep, AskStays DEF IInv, Handle, LoadItems, TypeOK
<1>2. Promise!Waiting(c) /\ answer[c] = 0
  BY <1>1, HandlerFrame DEF Promise!Waiting, Told
<1>3. /\ answer'[c] = 200 /\ \A d \in Calls \ {c} : answer'[d] = answer[d]
      /\ page' = page
  BY <1>1 DEF LoadItems, Answer
<1>4. UNCHANGED <<Wishes, Entries, Asked, Due>>
  <2>1. \A r \in Calls : answer'[r] = 201 <=> answer[r] = 201
    BY <1>1, <1>2, <1>3
  <2> QED
    BY <1>1, <2>1, HandlerHides
<1>5. Wishes[c] = WishOf(c)
  BY DEF Wishes
<1>6. ask[c].op \in {"getCustomer", "getInvoice", "listCustomers", "listInvoices"}
  BY <1>1, AskFacts DEF StageInv, Stage, IsWriter
<1> DEFINE entries == {EntryOf(r, total[r], lines[r]) : r \in page[c]}
<1>7. \A r \in page[c] : r \in Visible(c)
  BY DEF IInv, ReaderInv
<1>8. entries \in SUBSET Promise!Named(c)
  <2> SUFFICES ASSUME NEW r \in page[c]
               PROVE  EntryOf(r, total[r], lines[r]) \in Promise!Named(c)
    OBVIOUS
  <2>1. r \in Committed /\ ask[r].op = Creates(ask[c].op) /\ Owner(r) = Owner(c)
    BY <1>7 DEF Visible, Committed
  <2>2. r \in WishOf(c).ids
    <3>1. r \in Calls /\ (~IsList(c) => page[c] = {ask[c].id})
      BY <1>1, <2>1 DEF EntryInv, Committed
    <3>2. WishOf(c).ids = IF IsList(c) THEN Calls ELSE {ask[c].id}
      BY <1>6, ReaderWish
    <3> QED
      BY <3>1, <3>2
  <2>3. Names(c, r)
    BY <1>6, <2>1, <2>2, ReaderWish DEF Names, Committed
  <2> QED
    BY <2>1, <2>3, NamedFacts
<1>9. Shown' = [Shown EXCEPT ![c] = @ \cup entries]
  <2> DEFINE new == {[id |-> r, total |-> total[r], lines |-> lines[r]] : r \in page[c]}
             Of(items) == {EntryOf(item.id, item.total, item.lines) : item \in items}
  <2>1. got' = [got EXCEPT ![c] = @ \cup new]
    BY DEF LoadItems
  <2>2. \A d \in Calls : got'[d] = IF d = c THEN got[d] \cup new ELSE got[d]
    <3>1. DOMAIN got = Calls
      BY <1>1
    <3> HIDE DEF new
    <3>2. got'[c] = got[c] \cup new
      BY <2>1, <3>1
    <3>3. \A d \in Calls : d # c => got'[d] = got[d]
      BY <2>1, <3>1
    <3> QED
      BY <3>2, <3>3
  <2>3. Of(new) = entries
    <3>1. \A r : LET item == [id |-> r, total |-> total[r], lines |-> lines[r]] IN
            EntryOf(item.id, item.total, item.lines) = EntryOf(r, total[r], lines[r])
      OBVIOUS
    <3>2. Of(new) = {LET item == [id |-> r, total |-> total[r], lines |-> lines[r]] IN
                       EntryOf(item.id, item.total, item.lines) : r \in page[c]}
      OBVIOUS
    <3> QED
      BY <3>1, <3>2
  <2>4. \A a, b : Of(a \cup b) = Of(a) \cup Of(b)
    OBVIOUS
  <2>5. Shown = [d \in Calls |-> Of(got[d])]
    BY DEF Shown
  <2>6. Shown' = [d \in Calls |-> Of(got'[d])]
    BY <1>1, WishesStay DEF Shown
  <2> HIDE DEF new, Of, entries
  <2>7. \A d \in Calls : Of(got'[d]) = IF d = c THEN Of(got[d]) \cup entries ELSE Of(got[d])
    BY <2>2, <2>3, <2>4
  <2> QED
    BY <2>5, <2>6, <2>7
<1>10. ASSUME ~FullPage(c)'
       PROVE  /\ Due[c] \subseteq Promise!Ids(Shown'[c])
              /\ Wishes[c].all \/ Shown'[c] # {}
              /\ Promise!Tell(c, 200)
  <2>1. Promise!Tell(c, 200)
    BY <1>1, <1>3, <1>10, ToldSteps DEF Promise!Tell
  <2>2. \A r \in page[c] : EntryOf(r, total[r], lines[r]) \in Shown'[c]
    <3>1. Shown'[c] = Shown[c] \cup entries
      BY <1>9 DEF Shown
    <3> QED
      BY <3>1
  <2>3. \A r \in page[c] : r \in Promise!Ids(Shown'[c])
    BY <2>2, EntryFacts DEF Promise!Ids
  <2>4. CASE IsList(c)
    <3>1. Wanted(c)' \subseteq Seen(c)'
      BY <1>1, <1>3, <1>10, <2>4 DEF PagingInv, Paging, OnPage, AtEnd, FullPage, IsList
    <3>2. \A item \in got'[c] : item.id \in Promise!Ids(Shown'[c])
      <4>1. \A item \in got'[c] : EntryOf(item.id, item.total, item.lines) \in Shown'[c]
        BY <1>1, WishesStay DEF Shown
      <4> QED
        BY <4>1, EntryFacts DEF Promise!Ids
    <3>3. Due[c] \subseteq Wanted(c)'
      <4> SUFFICES ASSUME NEW r \in known[c], Names(c, r) PROVE r \in Wanted(c)'
        BY DEF Due
      <4>1. r \in Calls /\ row[r] = "committed"
        BY <1>1 DEF IInv, PagingInv, Paging, TypeOK
      <4>2. ask[r].op = Creates(ask[c].op) /\ Owner(r) = Owner(c)
        BY <1>6, <4>1, ReaderWish DEF Names, EntryInv
      <4>3. r \in Visible(c)
        BY <4>1, <4>2 DEF Visible
      <4>4. r \in Visible(c)' /\ known' = known
        BY <1>1, <4>3, VisibleStays DEF LoadItems
      <4> QED
        BY <4>4 DEF Wanted
    <3>4. Seen(c)' \subseteq Promise!Ids(Shown'[c])
      BY <3>2 DEF Seen
    <3>5. Wishes[c].all
      BY <1>5, <1>6, <2>4, ReaderWish
    <3> QED
      BY <2>1, <3>1, <3>3, <3>4, <3>5
  <2>5. CASE ~IsList(c)
    <3>1. page[c] = {ask[c].id}
      BY <1>1, <2>5 DEF EntryInv
    <3>2. Due[c] \subseteq {ask[c].id}
      BY <1>6, <2>5, ReaderWish DEF Due, Names
    <3> QED
      BY <2>1, <2>2, <2>3, <3>1, <3>2
  <2> QED
    BY <2>4, <2>5
<1>11. FullPage(c)' => Wishes[c].all /\ UNCHANGED Told
  <2>1. FullPage(c)' => IsList(c)
    BY <1>1 DEF FullPage, IsList
  <2>2. Wishes[c].all = IsList(c)
    BY <1>5, <1>6, ReaderWish
  <2>3. FullPage(c)' => Told' = [Told EXCEPT ![c] = 0]
    BY <1>1, <1>3, ToldSteps
  <2>4. Told[c] = 0
    BY <1>2 DEF Told
  <2>5. [Told EXCEPT ![c] = 0] = Told
    BY <2>4 DEF Told
  <2> QED
    BY <2>1, <2>2, <2>3, <2>5
<1>12. Wishes[c].puts = {}
  BY <1>5, <1>6, ReaderWish
<1>13. \E es \in SUBSET Promise!Named(c) : Shown' = [Shown EXCEPT ![c] = @ \cup es]
  BY <1>8, <1>9
<1> QED
  BY <1>2, <1>4, <1>10, <1>11, <1>12, <1>13 DEF Promise!Show

\* Next to the customer that an invoice names, a 404 is a mistake.
LEMMA MissingCustomer ==
  ASSUME IInv, NEW c \in Calls, FindCustomer(c), Answer(c, 404)
  PROVE  WishOf(c).ids # {} /\ ~IsList(c) /\ \A r \in known[c] : ~Names(c, r)
<1>1. /\ ask[c].op = "createInvoice" /\ pc[c] = "customer"
      /\ pc \in [Calls -> Labels] /\ known[c] \subseteq Calls
  BY DEF IInv, StageInv, Stage, TypeOK, FindCustomer
<1>2. ~IsList(c)
  BY <1>1 DEF IsList
<1>3. WishOf(c).ids = {ask[c].customer} /\ WishOf(c).kind = "customer"
  BY <1>1 DEF WishOf, IsList
<1>4. ASSUME NEW r \in known[c], Names(c, r) PROVE FALSE
  <2>1. r = ask[c].customer /\ EntryOf(r, 0, <<>>).kind = "customer" /\ Owner(r) = Owner(c)
    BY <1>3, <1>4 DEF Names
  <2>2. ask[r].op = "createCustomer"
    BY <2>1, EntryFacts DEF KindOf
  <2>3. row[r] = "committed"
    BY DEF IInv, PagingInv, Paging
  <2>4. pc'[c] = "invoice"
    BY <1>1, <2>1, <2>2, <2>3 DEF FindCustomer, Goto
  <2> QED
    BY <1>1, <2>4 DEF Answer, Goto
<1> QED
  BY <1>2, <1>3, <1>4

LEMMA MissingRow ==
  ASSUME IInv, EntryInv, [Next]_vars, NEW c \in Calls, ReadPage(c), Answer(c, 404)
  PROVE  WishOf(c).ids # {} /\ ~IsList(c) /\ \A r \in known[c] : ~Names(c, r)
<1>1. /\ pc[c] = "page" /\ known[c] \subseteq Calls /\ ~IsWriter(c)
      /\ pc \in [Calls -> Labels]
  BY DEF IInv, StageInv, Stage, TypeOK, ReadPage
<1>2. ~IsList(c) /\ Selected(c) = {}
  BY <1>1 DEF ReadPage, Answer, Goto
<1>3. ask[c].op \in {"getCustomer", "getInvoice"}
  BY <1>1, <1>2, AskFacts DEF IInv, IsWriter, IsList
<1>4. WishOf(c).ids = {ask[c].id}
  BY <1>2, <1>3, ReaderWish
<1>5. ASSUME NEW r \in known[c], Names(c, r) PROVE FALSE
  <2>1. r = ask[c].id /\ r \in Calls /\ row[r] = "committed"
    BY <1>1, <1>4, <1>5 DEF Names, IInv, PagingInv, Paging
  <2>2. ask[r].op = Creates(ask[c].op) /\ Owner(r) = Owner(c)
    BY <1>3, <1>5, <2>1, ReaderWish DEF Names, EntryInv
  <2>3. r \in Selected(c)
    BY <1>2, <2>1, <2>2 DEF Selected, Visible
  <2> QED
    BY <1>2, <2>3
<1> QED
  BY <1>2, <1>4, <1>5

\* A handler that has not come to an answer changes nothing of the registry.
LEMMA HandlerStutters ==
  ASSUME IInv, [Next]_vars, NEW c \in Calls, Handle(c), UNCHANGED <<answer, got>>
  PROVE  UNCHANGED Promise!vars
<1>1. UNCHANGED <<Wishes, Entries, Asked, Due, Shown>>
  BY HandlerHides
<1>2. Told' = Told
  <2>1. answer[c] = 0 /\ \A d \in Calls \ {c} : page'[d] = page[d]
    BY HandlerFrame DEF IInv
  <2> QED
    BY <2>1, UntoldStays, AskStays DEF IInv
<1> QED
  BY <1>1, <1>2 DEF Promise!vars

\* The registry knows of no pages.
LEMMA NextPageStutters ==
  ASSUME IInv, [Next]_vars, NEW c \in Calls, NextPage(c)
  PROVE  UNCHANGED Promise!vars
<1>1. /\ TypeOK /\ ask' = ask /\ answer[c] = 200 /\ FullPage(c) /\ pc[c] = "done"
      /\ pc \in [Calls -> Labels]
  BY AskStays DEF IInv, NextPage, TypeOK, StageInv, Stage
<1>2. Committed' = Committed /\ UNCHANGED <<known, got, page>>
  BY DEF NextPage, rowVars, Committed
<1>3. Asked' = Asked
  BY <1>1 DEF NextPage, Goto, Asked
<1>4. UNCHANGED <<Wishes, Entries, Asked, Due, Shown>>
  BY <1>2, <1>3, NothingShows
<1>5. Told' = [Told EXCEPT ![c] = 0]
  <2>1. answer'[c] = 0 /\ \A d \in Calls \ {c} : answer'[d] = answer[d]
    BY <1>1 DEF NextPage, TypeOK
  <2> QED
    BY <1>1, <1>2, <2>1, ToldSteps
<1>6. Told[c] = 0
  BY <1>1 DEF Told
<1>7. Told' = Told
  BY ZenonT(60), <1>5, <1>6 DEF Told
<1> QED
  BY <1>4, <1>7 DEF Promise!vars

\* A step of the requests is a step of the registry, or none.
LEMMA RegistryStep == IInv /\ EntryInv /\ [Next]_vars => [Promise!Next]_(Promise!vars)
<1> SUFFICES ASSUME IInv, EntryInv, [Next]_vars
             PROVE  [Promise!Next]_(Promise!vars)
  OBVIOUS
<1> DEFINE Goal == [Promise!Next]_(Promise!vars)
           Refusal(c) == \E code \in {404, 409, 500} : Refused(c, code)
<1>1. ASSUME NEW c \in Calls, Authenticate(c) PROVE Goal
  BY <1>1, AuthenticateAsks DEF Promise!Next
<1>2. ASSUME NEW c \in Calls, Commit(c) PROVE Goal
  BY <1>2, CommitAdds DEF Promise!Next
<1>3. ASSUME NEW c \in Calls, LoadItems(c) PROVE Goal
  BY <1>3, LoadShows DEF Promise!Next
<1>4. ASSUME NEW c \in Calls, Handle(c) \/ Abort(c), got' = got, Refusal(c) PROVE Goal
  <2>1. Promise!Refuse(c)
    BY <1>4, RefusalRefuses
  <2> QED
    BY <2>1 DEF Promise!Next
<1>5. ASSUME NEW c \in Calls, Handle(c), UNCHANGED <<answer, got>> PROVE Goal
  BY <1>5, HandlerStutters
<1>6. ASSUME NEW c \in Calls, InsertCustomer(c)
      PROVE  got' = got /\ (answer' = answer \/ Refusal(c))
  <2>1. ask[c].op = "createCustomer"
    BY <1>6 DEF IInv, StageInv, Stage, InsertCustomer
  <2> QED
    BY <1>6, <2>1 DEF InsertCustomer, Answer, readVars, Refused
<1>7. ASSUME NEW c \in Calls, FindCustomer(c)
      PROVE  got' = got /\ (answer' = answer \/ Refusal(c))
  <2>1. got' = got /\ (answer' = answer \/ Answer(c, 404))
    BY <1>7 DEF FindCustomer, readVars
  <2>2. Answer(c, 404) => Refusal(c)
    <3> SUFFICES ASSUME Answer(c, 404) PROVE Refusal(c)
      OBVIOUS
    <3>1. WishOf(c).ids # {} /\ ~IsList(c) /\ \A r \in known[c] : ~Names(c, r)
      BY <1>7, MissingCustomer
    <3>2. answer' = [answer EXCEPT ![c] = 404]
      BY DEF Answer
    <3>3. Refused(c, 404)
      BY <3>1, <3>2 DEF Refused
    <3> QED
      BY <3>3
  <2> QED
    BY <2>1, <2>2
<1>8. ASSUME NEW c \in Calls, FlushInvoice(c) \/ FlushLines(c) \/ Abort(c)
      PROVE  got' = got /\ ((answer' = answer /\ ~Abort(c)) \/ Refusal(c))
  <2>1. got' = got /\ ((answer' = answer /\ ~Abort(c)) \/ Answer(c, 500))
    BY <1>8 DEF FlushInvoice, FlushLines, Abort, readVars, IInv, TypeOK
  <2>2. Answer(c, 500) => Refusal(c)
    BY DEF Answer, Refused
  <2> QED
    BY <2>1, <2>2
<1>9. ASSUME NEW c \in Calls, Count(c) \/ ReadPage(c)
      PROVE  got' = got /\ (answer' = answer \/ Refusal(c))
  <2>1. got' = got /\ (answer' = answer \/ (ReadPage(c) /\ Answer(c, 404)))
    BY <1>9 DEF Count, ReadPage
  <2>2. ReadPage(c) /\ Answer(c, 404) => Refusal(c)
    <3> SUFFICES ASSUME ReadPage(c), Answer(c, 404) PROVE Refusal(c)
      OBVIOUS
    <3>1. WishOf(c).ids # {} /\ ~IsList(c) /\ \A r \in known[c] : ~Names(c, r)
      BY MissingRow
    <3>2. answer' = [answer EXCEPT ![c] = 404]
      BY DEF Answer
    <3>3. Refused(c, 404)
      BY <3>1, <3>2 DEF Refused
    <3> QED
      BY <3>3
  <2> QED
    BY <2>1, <2>2
<1>10. CASE UNCHANGED vars
  <2>1. Committed' = Committed /\ UNCHANGED <<Asked, known, got, Told>>
    BY <1>10 DEF vars, rowVars, readVars, Committed, Asked, Told, FullPage, IsList
  <2> QED
    BY <2>1, NothingShows DEF Promise!vars
<1> HIDE DEF Refusal, Goal
<1>11. ASSUME NEW c \in Calls, Authenticate(c) \/ Handle(c) \/ Abort(c) \/ NextPage(c)
       PROVE  Goal
  <2>1. CASE Abort(c)
    BY <1>4, <1>8, <2>1
  <2>2. CASE InsertCustomer(c) \/ FindCustomer(c) \/ FlushInvoice(c) \/ FlushLines(c)
             \/ Count(c) \/ ReadPage(c)
    BY <1>4, <1>5, <1>6, <1>7, <1>8, <1>9, <2>2 DEF Handle
  <2>3. CASE NextPage(c)
    BY <2>3, NextPageStutters DEF Goal
  <2> QED
    BY <1>1, <1>2, <1>3, <1>11, <2>1, <2>2, <2>3 DEF Handle
<1>12. UNCHANGED vars => Goal
  BY <1>10 DEF Goal
<1>13. Goal
  BY <1>11, <1>12 DEF Next, Terminated
<1> QED
  BY <1>13 DEF Goal

LEMMA RegistryInit == Init => Promise!Init
<1> SUFFICES ASSUME Init PROVE Promise!Init
  OBVIOUS
<1>1. Entries = {} /\ Asked = {}
  BY DEF Init, Entries, Committed, Asked
<1>2. Due = [c \in Calls |-> {}]
  BY DEF Init, Due
<1>3. Shown = [c \in Calls |-> {}]
  BY DEF Init, Shown
<1>4. Told = [c \in Calls |-> 0]
  BY DEF Init, Told
<1> QED
  BY <1>1, <1>2, <1>3, <1>4 DEF Promise!Init

\* The requests keep the promise of Registry: an entry appears whole, at its commit,
\* and every answer is true of what was there.
THEOREM SpecImplementsRegistry == Spec => ImplementsRegistry
BY RegistryInit, RegistryStep, SpecEntryInv, PTL DEF Spec, ImplementsRegistry, Promise!Spec

===============================================================================
