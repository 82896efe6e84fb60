--------------------------- MODULE MCSubmissions ---------------------------
(* Small instances of Submissions and of the query builders for TLC.  They *)
(* share no state, so that a behavior takes the steps of one or of the     *)
(* other: interleaving them would only multiply the states.                *)
EXTENDS Submissions, InvoiceQuery

CONSTANTS t1, t2, x1, none

(* t1 owes t2; the invoices back go the other way.                         *)
MCPair == {<<t1, t2>>}

MCInit == Init /\ QueryInit

MCNext ==
  \/ Next /\ query = NewQuery("invoices") /\ UNCHANGED query
  \/ QueryNext /\ Init /\ UNCHANGED vars

MCSpec == MCInit /\ [][MCNext]_<<vars, query>>
=============================================================================
