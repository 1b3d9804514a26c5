------------------------------ MODULE AccountsMC ------------------------------
(***************************************************************************)
(* Small instances of Accounts for TLC.  No workload is another one with   *)
(* its calls renamed, so there is no symmetry to use.                      *)
(***************************************************************************)
EXTENDS Accounts

CONSTANTS b1, b2, k1, k2, k0, e1, e2, e3, c1, c2, c3, c4

MCKeyBusiness == [k \in ApiKeys |-> CASE k = k1 -> b1 [] k = k2 -> b2 [] k = k0 -> NoBusiness]

Register(k, e)       == [op |-> "createCustomer", key |-> k, email |-> e]
Bill(k, c, items)    == [op |-> "createInvoice", key |-> k, customer |-> c, items |-> items]
Get(op, k, c)        == [op |-> op, key |-> k, id |-> c]
List(op, k)          == [op |-> op, key |-> k]

Line(q, u) == [quantity |-> q, unit |-> u]

\* With IntMax = 2 and BigMax = 4: one line, two lines, a total too large by its
\* sum only, a quantity too large in a line that costs nothing.
MCPayloads ==
  {<<Line(2, 1)>>, <<Line(1, 1), Line(2, 0)>>, <<Line(1, 3), Line(2, 1)>>,
   <<Line(1, 1), Line(3, 0)>>}

Of4(a, b, c, d) == (c1 :> a) @@ (c2 :> b) @@ (c3 :> c) @@ (c4 :> d)

\* Three that create customers, one that reads them.
CustomerWorkloads ==
  {Of4(Register(k1, e1), second, third, read) :
     second \in {Register(k1, e1), Register(k1, e2), Register(k2, e1)},
     third  \in {Register(k1, e1), Register(k1, e3), Register(k2, e1)},
     read   \in {List("listCustomers", k1), List("listCustomers", k2),
                 Get("getCustomer", k1, c1), Get("getCustomer", k2, c1)}}

\* A customer, two that bill it, one that reads the bills.
InvoiceWorkloads ==
  {Of4(Register(k1, e1), Bill(k1, c1, items), Bill(k, c1, <<Line(2, 1)>>), read) :
     items \in Payloads, k \in {k1, k2},
     read  \in {List("listInvoices", k1), List("listInvoices", k2),
                Get("getInvoice", k1, c2), Get("getInvoice", k2, c2)}}

\* A key that is not active, and the id of an invoice for that of a customer.
RefusedWorkloads ==
  {Of4(Register(k1, e1), Bill(k1, c1, <<Line(2, 1)>>), refused, read) :
     refused \in {Register(k0, e1), Bill(k0, c1, <<Line(2, 1)>>),
                  Bill(k1, c2, <<Line(2, 1)>>)},
     read    \in {Get("getInvoice", k1, c1), Get("getCustomer", k0, c1)}}

MCWorkloads == CustomerWorkloads \cup InvoiceWorkloads \cup RefusedWorkloads

===============================================================================
