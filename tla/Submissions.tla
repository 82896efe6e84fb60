---------------------------- MODULE Submissions ----------------------------
(***************************************************************************)
(* The legacy payment cycle of invoice_mutations: a payer submits a        *)
(* payment for some of its unpaid invoices, the receiver accepts or        *)
(* rejects it, and a shipping cost that becomes known later readjusts the  *)
(* invoices of a stock transaction.  Callers load with FOR UPDATE NOWAIT   *)
(* and join the invoices of a submission, as the tests do, so that the     *)
(* rows one mutation object works on are its own until its transaction     *)
(* ends; one such object is modelled.                                      *)
(***************************************************************************)
EXTENDS Integers, SequencesExt

CONSTANTS Pair,        \* the <<from, to>> teams of the invoices others create
          Tx, NoTx,    \* stock transactions, and none for an order's invoice
          Amount,      \* invoice amounts
          MaxInvoice,  \* bound on the rows of invoices
          MaxSubmit,   \* bound on the rows of payment_submissions
          MaxReadjust, \* bound on the readjustments
          MaxCalls     \* mutations called on one loaded object

ASSUME SubmissionsAssumption ==
  /\ NoTx \notin Tx
  /\ \A pair \in Pair : pair[1] # pair[2]
  /\ Amount \subseteq Nat \ {0}
  /\ MaxInvoice \in Nat /\ MaxSubmit \in Nat /\ MaxReadjust \in Nat
  /\ MaxCalls \in Nat \ {0}

VARIABLES invoices,     \* the table in order of creation: its indices are the ids
          submissions,  \* payment_submissions with their invoices and their log
          histories,    \* amounts of payment_histories
          data,         \* the object: [id, status] as loaded, its locks and its calls
          readjusted    \* readjustments so far (bound only)

vars == <<invoices, submissions, histories, data, readjusted>>

InvoiceStatus == {"not_final", "not_paid", "paid", "cancel"}
SubmissionStatus == {"submitted", "accepted", "rejected"}
Nothing == [id |-> 0, status |-> "submitted", locked |-> {}, calls |-> 0]

Init ==
  /\ invoices = << >>
  /\ submissions = << >>
  /\ histories = << >>
  /\ data = Nothing
  /\ readjusted = 0

Invoice(pair, tx, status, amount, needAdj, type) ==
  [from |-> pair[1], to |-> pair[2], tx |-> tx, status |-> status, amount |-> amount,
   needAdj |-> needAdj, type |-> type, hasSubmission |-> FALSE, hist |-> 0]

GetAmount(ids) ==
  SumFunctionOnSet([i \in DOMAIN invoices |-> invoices[i].amount], ids)

(* Faulty variant: submissions that wait are not looked up.                *)
BadActive(i) == FALSE

(* Ids in a submission that waits for a decision.                          *)
Active(i) ==
  \E s \in DOMAIN submissions :
    submissions[s].status = "submitted" /\ i \in submissions[s].invoices

(* NOWAIT: an invoice the object has locked cannot be loaded by anyone.    *)
Unlocked(ids) == data.locked \cap ids = {}
-----------------------------------------------------------------------------
(* Invoices are created, and become final, in other services.              *)
CreateInvoice(pair, tx, status, amount, needAdj) ==
  /\ Len(invoices) < MaxInvoice
  /\ invoices' = Append(invoices, Invoice(pair, tx, status, amount, needAdj, "fee"))
  /\ UNCHANGED <<submissions, histories, data, readjusted>>

Finalize(i) ==
  /\ Unlocked({i})
  /\ invoices[i].status = "not_final"
  /\ invoices' = [invoices EXCEPT ![i].status = "not_paid"]
  /\ UNCHANGED <<submissions, histories, data, readjusted>>

(* Faulty variant: a total above the amount is let through.                *)
BadAddsUp(new, amount) == GetAmount(new) >= amount

AddsUp(new, amount) == GetAmount(new) = amount

(* The queried invoices are taken in order of creation until they add up   *)
(* to the amount, which is what all of them cost when none is given.       *)
CreateSubmission(query, given) ==
  LET amount == IF given = 0 THEN GetAmount(query) ELSE given
  IN  /\ data = Nothing
      /\ Len(submissions) < MaxSubmit
      /\ \E last \in query :
           LET seen == {i \in query : i <= last}
               new == {i \in seen : invoices[i].status = "not_paid" /\ ~Active(i)}
           IN  /\ \A i \in seen : invoices[i].status \notin {"not_final", "paid"}
               /\ last \in new
               /\ AddsUp(new, amount)
               /\ submissions' = Append(submissions,
                    [status |-> "submitted", amount |-> amount, invoices |-> new,
                     log |-> <<"submitted">>])
               /\ invoices' = [i \in DOMAIN invoices |->
                    [invoices[i] EXCEPT !.hasSubmission = @ \/ i \in new]]
      /\ data' = [id |-> Len(submissions'), status |-> "submitted", locked |-> query,
                 calls |-> 1]
      /\ UNCHANGED <<histories, readjusted>>

GetFromQuery(s) ==
  /\ data = Nothing
  /\ data' = [id |-> s, status |-> submissions[s].status,
              locked |-> submissions[s].invoices, calls |-> 0]
  /\ UNCHANGED <<invoices, submissions, histories, readjusted>>

(* A decision is a new status and a row of the log.                        *)
Decided(sub, status) == [sub EXCEPT !.status = status, !.log = Append(@, status)]

(* Faulty variant: any submission can be decided, again or not.            *)
BadUpdateStatus(status) ==
  submissions' = [submissions EXCEPT ![data.id] = Decided(@, status)]

(* UpdateStatus looks at the status the object was loaded with.            *)
UpdateStatus(status) ==
  /\ data.status = "submitted"
  /\ submissions' = [submissions EXCEPT ![data.id] = Decided(@, status)]

(* One more mutation of the loaded object, within the bound.               *)
Call ==
  /\ data # Nothing /\ data.calls < MaxCalls
  /\ data' = [data EXCEPT !.calls = @ + 1]

(* The invoice that gives a paid fee back.                                 *)
AdjustmentInvoice(item) ==
  Invoice(<<item.to, item.from>>, NoTx, "not_paid", item.amount, FALSE, "adjustment")

(* What accepting a submission pays: canceled invoices are passed over.    *)
SetPaid(ids) == {i \in ids : invoices[i].status = "not_paid"}

(* Faulty variant: canceled invoices are given back too.                   *)
BadAdjusted(ids) == {i \in ids : invoices[i].needAdj /\ invoices[i].type # "adjustment"}

Adjusted(ids) ==
  {i \in SetPaid(ids) : invoices[i].needAdj /\ invoices[i].type # "adjustment"}

AcceptSubmission ==
  LET ids == submissions[data.id].invoices
      adjust == Adjusted(ids)
      paid == [i \in DOMAIN invoices |->
                 IF i \in SetPaid(ids)
                 THEN [invoices[i] EXCEPT !.status = "paid", !.hist = Len(histories) + 1]
                 ELSE invoices[i]]
  IN  /\ Call
      /\ \A i \in ids : invoices[i].status \notin {"not_final", "paid"}
      /\ UpdateStatus("accepted")
      /\ histories' = Append(histories, submissions[data.id].amount)
      /\ Len(invoices) + Cardinality(adjust) <= MaxInvoice
      /\ invoices' = paid \o [k \in 1 .. Cardinality(adjust) |->
                                AdjustmentInvoice(invoices[SetToSeq(adjust)[k]])]
      /\ UNCHANGED readjusted

RejectSubmission ==
  /\ Call
  /\ UpdateStatus("rejected")
  /\ invoices' = [i \in DOMAIN invoices |->
       [invoices[i] EXCEPT !.hasSubmission = @ /\ i \notin submissions[data.id].invoices]]
  /\ UNCHANGED <<histories, readjusted>>

(* The transaction commits.                                                *)
Commit ==
  /\ data # Nothing
  /\ data' = Nothing
  /\ UNCHANGED <<invoices, submissions, histories, readjusted>>

(* Faulty variant: the refund keeps the sign of the difference.            *)
BadRestInvoice(pair, tx, rest) ==
  Invoice(IF rest > 0 THEN pair ELSE <<pair[2], pair[1]>>, tx, "not_paid", rest, FALSE, "fee")

(* What is still to pay, or to give back when the difference is negative.  *)
RestInvoice(pair, tx, rest) ==
  IF rest > 0 THEN Invoice(pair, tx, "not_paid", rest, FALSE, "fee")
  ELSE Invoice(<<pair[2], pair[1]>>, tx, "not_paid", -rest, FALSE, "fee")

(* Faulty variant: what was paid does not count.                           *)
BadRest(ids, amount) == amount

Rest(ids, amount) == amount - GetAmount({i \in ids : invoices[i].status = "paid"})

(* The invoices of tx are to cost pair amount in all: what is paid counts, *)
(* what is open is canceled, and the difference becomes a new invoice.     *)
ReadjustAmount(tx, pair, amount) ==
  LET ids == {i \in DOMAIN invoices : invoices[i].tx = tx}
      rest == Rest(ids, amount)
      canceled == [i \in DOMAIN invoices |->
                     [invoices[i] EXCEPT !.status =
                        IF i \in ids /\ @ \in {"not_final", "not_paid"} THEN "cancel" ELSE @]]
  IN  /\ readjusted < MaxReadjust
      /\ readjusted' = readjusted + 1
      /\ Unlocked(ids)
      /\ \A i \in ids : invoices[i].from = pair[1] /\ invoices[i].to = pair[2]
      /\ rest = 0 \/ Len(invoices) < MaxInvoice
      /\ invoices' = IF rest = 0 THEN canceled ELSE Append(canceled, RestInvoice(pair, tx, rest))
      /\ UNCHANGED <<submissions, histories, data>>

Next ==
  \/ \E pair \in Pair, tx \in Tx \cup {NoTx}, status \in {"not_final", "not_paid"},
        amount \in Amount, needAdj \in BOOLEAN :
       CreateInvoice(pair, tx, status, amount, needAdj)
  \/ \E i \in DOMAIN invoices : Finalize(i)
  \/ \E query \in SUBSET DOMAIN invoices, given \in Amount \cup {0} :
       CreateSubmission(query, given)
  \/ \E s \in DOMAIN submissions : GetFromQuery(s)
  \/ AcceptSubmission \/ RejectSubmission \/ Commit
  \/ \E tx \in Tx, pair \in Pair, amount \in Amount \cup {0} :
       ReadjustAmount(tx, pair, amount)

Spec == Init /\ [][Next]_vars
-----------------------------------------------------------------------------
(* The types of the tables and of the loaded object.                       *)
TypeOK ==
  /\ \A i \in DOMAIN invoices :
       /\ invoices[i].status \in InvoiceStatus
       /\ invoices[i].amount \in Nat \ {0}
       /\ invoices[i].hist \in 0 .. Len(histories)
  /\ \A s \in DOMAIN submissions :
       /\ submissions[s].status \in SubmissionStatus
       /\ submissions[s].invoices \subseteq DOMAIN invoices
  /\ data.id \in 0 .. Len(submissions)
  /\ data.calls \in 0 .. MaxCalls

(* No invoice is in two submissions that wait for a decision, and          *)
(* has_submission says whether it is in one that waits or was accepted:    *)
(* rejecting frees it for the next submission.                             *)
SubmissionExclusive ==
  \A i \in DOMAIN invoices :
    LET holders == {s \in DOMAIN submissions : /\ submissions[s].status # "rejected"
                                               /\ i \in submissions[s].invoices}
    IN  /\ Cardinality(holders) <= 1
        /\ invoices[i].hasSubmission <=> holders # {}

(* A submission costs what its invoices cost, and each paid invoice was    *)
(* paid by exactly one accepted submission of which the history tells the  *)
(* amount; an invoice that is not paid names no history.                   *)
PaidByItsSubmission ==
  /\ \A s \in DOMAIN submissions :
       submissions[s].amount = GetAmount(submissions[s].invoices)
  /\ \A i \in DOMAIN invoices :
       IF invoices[i].status = "paid"
       THEN \E s \in DOMAIN submissions :
              /\ submissions[s].status = "accepted" /\ i \in submissions[s].invoices
              /\ submissions[s].amount = histories[invoices[i].hist]
              /\ \A j \in submissions[s].invoices :
                   invoices[j].status = "paid" => invoices[j].hist = invoices[i].hist
       ELSE invoices[i].hist = 0

(* Each fee that was paid under reservation is given back exactly once.    *)
AdjustedOnce ==
  LET Fees == {i \in DOMAIN invoices : /\ invoices[i].status = "paid" /\ invoices[i].needAdj
                                       /\ invoices[i].type = "fee"}
      Back == {i \in DOMAIN invoices : invoices[i].type = "adjustment"}
  IN  \A pair \in Pair :
        GetAmount({i \in Fees : invoices[i].from = pair[1] /\ invoices[i].to = pair[2]})
          = GetAmount({i \in Back : invoices[i].from = pair[2] /\ invoices[i].to = pair[1]})

(* What the invoices of tx that stand come to for pair.                    *)
NetCost(tx, pair) ==
  LET standing(p) == {i \in DOMAIN invoices :
        /\ invoices[i].tx = tx /\ invoices[i].status # "cancel"
        /\ invoices[i].from = p[1] /\ invoices[i].to = p[2]}
  IN  GetAmount(standing(pair)) - GetAmount(standing(<<pair[2], pair[1]>>))

(* A readjustment leaves the transaction's standing invoices, paid or not, *)
(* at the amount asked for, whatever was paid or submitted before.         *)
ReadjustReachesAmount ==
  [][\A tx \in Tx, pair \in Pair, amount \in Amount \cup {0} :
       ReadjustAmount(tx, pair, amount) => NetCost(tx, pair)' = amount]_vars

(* payment_submission.go refuses to decide a submission that has been      *)
(* accepted or rejected: its log has at most one decision.                 *)
DecidedOnce ==
  \A s \in DOMAIN submissions :
    LET sub == submissions[s]
    IN  sub.log = IF sub.status = "submitted" THEN <<"submitted">>
                  ELSE <<"submitted", sub.status>>
=============================================================================
