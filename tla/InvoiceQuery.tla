---------------------------- MODULE InvoiceQuery ----------------------------
(***************************************************************************)
(* The query builders of invoice_query, as the calls of a caller that      *)
(* builds one query.  A builder remembers which tables it has joined, so   *)
(* that asking for a filter or a join twice joins once; a Join method that *)
(* crosses to another table hands out a new builder, with a memory of its  *)
(* own, over the same statement, and the caller may go on with any of      *)
(* those it holds.  The kind of a join and the values of the filters are   *)
(* left out; a filter with a zero argument adds nothing.                   *)
(***************************************************************************)
EXTENDS Integers, Sequences, FiniteSets

CONSTANT MaxBuilders  \* bound on the builders handed out for one query

ASSUME QueryAssumption == MaxBuilders \in Nat \ {0}

VARIABLE query  \* the statement and the builders handed out for it

Base == {"invoices", "payment_submissions", "payment_histories"}

(* The statement: its base table, its joins in order, each with the table  *)
(* that its ON condition refers to, and the tables of its conditions.  A   *)
(* flag of a builder is named for the table it stands for.                 *)
NewQuery(base) ==
  [base |-> base, joins |-> << >>, where |-> {},
   builders |-> << [table |-> base, joined |-> {}] >>]

(* NewInvoiceQuery, NewPaymentSubmissionQuery or NewPaymentHistoryQuery.   *)
QueryInit == query \in {NewQuery(base) : base \in Base}

Where(q, table) == [q EXCEPT !.where = @ \cup {table}]

(* Builder k remembers that it has joined the table.                       *)
Remember(q, k, table) == [q EXCEPT !.builders[k].joined = @ \cup {table}]

(* Builder k joins the table on another one, unless it has joined it.      *)
Join(q, k, table, on) ==
  IF table \in q.builders[k].joined THEN q
  ELSE Remember([q EXCEPT !.joins = Append(@, [table |-> table, on |-> on])], k, table)

(* The same, over the table that links invoices and submissions.           *)
JoinOverLink(q, k, table, from) ==
  IF table \in q.builders[k].joined THEN q
  ELSE Join(Join(q, k, "invoice_payment_submission", from),
            k, table, "invoice_payment_submission")

HandOut(q, table, joined) ==
  [q EXCEPT !.builders = Append(@, [table |-> table, joined |-> joined])]

Is(k, table) == query.builders[k].table = table

HandsOut(k, table) == Is(k, table) /\ Len(query.builders) < MaxBuilders

(* WithIDs, Status, WithSubmission, CreatedAt and the like.                *)
Filter(k) == query' = Where(query, query.builders[k].table)

JoinTeam(k, team) == Is(k, "invoices") /\ query' = Join(query, k, team, "invoices")

(* FromTeamType, ToTeamType.                                               *)
TeamType(k, team) ==
  Is(k, "invoices") /\ query' = Where(Join(query, k, team, "invoices"), team)

JoinPaymentSubmission(k) ==
  /\ HandsOut(k, "invoices")
  /\ query' = HandOut(JoinOverLink(query, k, "payment_submissions", "invoices"),
                      "payment_submissions", {"invoices", "invoice_payment_submission"})

JoinPaymentHistories(k) ==
  /\ HandsOut(k, "invoices")
  /\ query' = HandOut(Join(query, k, "payment_histories", "invoices"),
                      "payment_histories", {"invoices"})

(* Faulty variant: the new builder does not know of the link table.        *)
JoinInvoiceForgetful(k) ==
  /\ HandsOut(k, "payment_submissions")
  /\ query' = HandOut(JoinOverLink(query, k, "invoices", "payment_submissions"),
                      "invoices", {})

(* JoinInvoice of a query of submissions, and of one of histories.         *)
JoinInvoice(k) ==
  /\ HandsOut(k, "payment_submissions")
  /\ query' = HandOut(JoinOverLink(query, k, "invoices", "payment_submissions"),
                      "invoices", {"invoice_payment_submission", "payment_submissions"})

JoinInvoiceOfHistory(k) ==
  /\ HandsOut(k, "payment_histories")
  /\ query' = HandOut(Join(query, k, "invoices", "payment_histories"),
                      "invoices", {"payment_histories"})

QueryNext ==
  \E k \in DOMAIN query.builders :
    \/ Filter(k)
    \/ \E team \in {"from_team", "to_team"} : JoinTeam(k, team) \/ TeamType(k, team)
    \/ JoinPaymentSubmission(k) \/ JoinPaymentHistories(k)
    \/ JoinInvoice(k) \/ JoinInvoiceOfHistory(k)

QuerySpec == QueryInit /\ [][QueryNext]_query
-----------------------------------------------------------------------------
(* The tables of the statement before its i-th join.                       *)
Before(i) == {query.base} \cup {query.joins[j].table : j \in {n \in DOMAIN query.joins : n < i}}

Tables == Before(Len(query.joins) + 1)

(* Whatever was called on whichever builder, each join, each condition and *)
(* each flag is about tables that are there, and no table is there twice,  *)
(* which the database would refuse, unless the caller was handed two       *)
(* builders for invoices of one query: they do not know of each other's    *)
(* joins.                                                                  *)
JoinsSound ==
  /\ \A i \in DOMAIN query.joins : query.joins[i].on \in Before(i)
  /\ query.where \subseteq Tables
  /\ \A k \in DOMAIN query.builders :
       {query.builders[k].table} \cup query.builders[k].joined \subseteq Tables
  /\ Cardinality({k \in DOMAIN query.builders : Is(k, "invoices")}) <= 1 =>
       \A i \in DOMAIN query.joins : query.joins[i].table \notin Before(i)
=============================================================================
