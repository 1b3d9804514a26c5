------------------------------- MODULE Registry -------------------------------
(***************************************************************************)
(* What the requests for customers and invoices promise, with no           *)
(* transactions, flushes, pages or unique index in it: a registry to which *)
(* an entry is added whole, at one moment, and never changed.  Each        *)
(* request is answered once, and its answer says what became of it:        *)
(*   201  its entry was added                                              *)
(*   200  it was shown entries of its business, all that were there when   *)
(*        it was asked among them                                          *)
(*   401  it has no business                                               *)
(*   404  the entry it names was not there when it was asked               *)
(*   409  its e-mail address is taken in its business                      *)
(*   500  nothing came of it                                               *)
(***************************************************************************)
CONSTANTS Requests, Businesses

VARIABLES
  wish,      (* what each request is after; it never changes:              *)
             (*   business  of its key                                     *)
             (*   puts      {} or the entry it would add                   *)
             (*   kind, ids the entries it names, of its business          *)
             (*   all       whether it asks for all of them                *)
  registry,  (* the entries [id, kind, business, of, total, lines], id the *)
             (* request that added it, of the e-mail address of a customer *)
             (* or the customer of an invoice.                             *)
  asked,     (* the requests that were sent.                               *)
  due,       (* the named entries that were there then.                    *)
  shown,     (* the entries each request was shown.                        *)
  told       (* its answer, 0 before.                                      *)

vars == <<wish, registry, asked, due, shown, told>>

Init ==
  /\ registry = {}
  /\ asked = {}
  /\ due   = [c \in Requests |-> {}]
  /\ shown = [c \in Requests |-> {}]
  /\ told  = [c \in Requests |-> 0]

Ids(entries) == {e.id : e \in entries}

\* The entries c names that are there.
Named(c) ==
  {e \in registry : /\ e.id \in wish[c].ids
                    /\ e.kind = wish[c].kind
                    /\ e.business = wish[c].business}

Taken(e) ==
  /\ e.kind = "customer"
  /\ \E x \in registry : /\ x.kind = "customer"
                         /\ x.business = e.business
                         /\ x.of = e.of

Tell(c, code) == told' = [told EXCEPT ![c] = code]

Ask(c) ==
  /\ c \notin asked
  /\ asked' = asked \cup {c}
  /\ due' = [due EXCEPT ![c] = Ids(Named(c))]
  /\ \/ wish[c].business \notin Businesses /\ Tell(c, 401)
     \/ wish[c].business \in Businesses /\ UNCHANGED told
  /\ UNCHANGED <<wish, registry, shown>>

Waiting(c) == c \in asked /\ told[c] = 0

\* An invoice is added next to its customer, a customer under a free address.
Add(c) ==
  /\ Waiting(c)
  /\ Tell(c, 201)
  /\ Ids(Named(c)) = wish[c].ids
  /\ \E e \in wish[c].puts : ~Taken(e) /\ registry' = registry \cup {e}
  /\ UNCHANGED <<wish, asked, due, shown>>

Refuse(c) ==
  /\ Waiting(c)
  /\ \/ Tell(c, 409) /\ \E e \in wish[c].puts : Taken(e)
     \/ Tell(c, 404) /\ ~wish[c].all /\ wish[c].ids # {} /\ due[c] = {}
     \/ Tell(c, 500)
  /\ UNCHANGED <<wish, registry, asked, due, shown>>

\* One page, or the last of them.
Show(c) ==
  /\ Waiting(c)
  /\ wish[c].puts = {}
  /\ \E entries \in SUBSET Named(c) : shown' = [shown EXCEPT ![c] = @ \cup entries]
  /\ \/ wish[c].all /\ UNCHANGED told
     \/ due[c] \subseteq Ids(shown'[c])
        /\ (wish[c].all \/ shown'[c] # {})
        /\ Tell(c, 200)
  /\ UNCHANGED <<wish, registry, asked, due>>

Next == \E c \in Requests : Ask(c) \/ Add(c) \/ Refuse(c) \/ Show(c)

Spec == Init /\ [][Next]_vars

===============================================================================
