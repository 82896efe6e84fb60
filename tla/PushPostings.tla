---------------------------- MODULE PushPostings ----------------------------
(***************************************************************************)
(* What push_handler.go posts for an event, as a function of the rows it   *)
(* reads.  The tables of the selling and warehouse services are constants: *)
(* the rows of an order, a stock transaction or a payment submission are   *)
(* assumed not to change between two events about it.                      *)
(***************************************************************************)
EXTENDS LedgerOps, SequencesExt

CONSTANTS OrderRow,      \* orders with their items, products and warehouse
          RestockRow,    \* inv_transactions with their restock cost
          ProblemRow,    \* inv_transactions with their lost or broken items
          SubmissionRow  \* payment submissions with their teams and amount

(* A team id of such a row; NoTeam where the joins find no row.            *)
TeamId == Team \cup {NoTeam}

OrderItem == [owned : BOOLEAN, productTeam : TeamId, total : Int]
ProblemItem == [problem : STRING, productTeam : TeamId, total : Int]

(* The columns that are read, of whatever value.  An order is named by the *)
(* log rows about it.                                                      *)
ASSUME RowAssumption ==
  /\ DOMAIN OrderRow \subseteq Ref \ {NoRef}
  /\ \A o \in DOMAIN OrderRow :
       OrderRow[o] \in [team : TeamId, warehouse : TeamId, fee : Int, items : Seq(OrderItem)]
  /\ \A x \in DOMAIN RestockRow :
       RestockRow[x] \in [team : TeamId, warehouse : TeamId, codFee : Int]
  /\ \A x \in DOMAIN ProblemRow :
       ProblemRow[x] \in [warehouse : TeamId, items : Seq(ProblemItem)]
  /\ \A b \in DOMAIN SubmissionRow :
       SubmissionRow[b] \in [fromTeam : TeamId, toTeam : TeamId, amount : Int]

(* Faulty variant: rows without a team are posted.                         *)
DegenerateSelf(team, forTeam, amount) == team = forTeam \/ amount <= 0

(* A row the handlers skip instead of failing on it for ever.              *)
Degenerate(team, forTeam, amount) ==
  team = NoTeam \/ forTeam = NoTeam \/ team = forTeam \/ amount <= 0

Posting(team, forTeam, bt, kind, amount, ref) ==
  [acct |-> <<team, forTeam, bt>>, kind |-> kind, amount |-> amount, ref |-> ref]

(* Faulty variant: the reversal swaps the pair and keeps the balance type. *)
OwesSameType(debtor, creditor, kind, amount, reverse, ref) ==
  IF Degenerate(debtor, creditor, amount) THEN << >>
  ELSE IF reverse
       THEN << Posting(debtor, creditor, "RECEIVABLE", kind, amount, ref) >>
       ELSE << Posting(creditor, debtor, "RECEIVABLE", kind, amount, ref) >>

(* debtor owes creditor amount more, or amount less when reversed.         *)
Owes(debtor, creditor, kind, amount, reverse, ref) ==
  IF Degenerate(debtor, creditor, amount) THEN << >>
  ELSE IF reverse
       THEN << Posting(debtor, creditor, "PAYABLE", kind, amount, ref) >>
       ELSE << Posting(creditor, debtor, "RECEIVABLE", kind, amount, ref) >>

CrossItems(o) == {i \in DOMAIN OrderRow[o].items : ~OrderRow[o].items[i].owned}

postCrossOrderBalance(o, reverse) ==
  LET row == OrderRow[o]
  IN  FlattenSeq([i \in DOMAIN row.items |->
        IF i \in CrossItems(o)
        THEN Owes(row.team, row.items[i].productTeam, "PRODUCT_FEE",
                  row.items[i].total, reverse, o)
        ELSE << >>])

postWarehouseFeeBalance(o, reverse) ==
  LET row == OrderRow[o]
  IN  Owes(row.team, row.warehouse, "WAREHOUSE_FEE", row.fee, reverse, o)

postOrderBalances(o, reverse) ==
  postCrossOrderBalance(o, reverse) \o postWarehouseFeeBalance(o, reverse)

postCodFeeBalance(x) ==
  LET row == RestockRow[x]
  IN  Owes(row.team, row.warehouse, "COD_FEE", row.codFee, FALSE, NoRef)

(* Faulty variant: problems on the supplier's side are charged as well.    *)
postProblemStockBalanceAny(x) ==
  LET items == ProblemRow[x].items
  IN  FlattenSeq([i \in DOMAIN items |->
        Owes(ProblemRow[x].warehouse, items[i].productTeam, "STOCK_PROBLEM",
             items[i].total, FALSE, NoRef)])

postProblemStockBalance(x) ==
  LET items == ProblemRow[x].items
  IN  FlattenSeq([i \in DOMAIN items |->
        IF items[i].problem \in {"lost_w", "broken_w"}
        THEN Owes(ProblemRow[x].warehouse, items[i].productTeam, "STOCK_PROBLEM",
                  items[i].total, FALSE, NoRef)
        ELSE << >>])

(* Settling moves the payer's PAYABLE like the reversal of a debt does.    *)
postPaymentAcceptBalance(b) ==
  LET row == SubmissionRow[b]
  IN  Owes(row.fromTeam, row.toTeam, "PAYMENT", row.amount, TRUE, NoRef)

(* A row that has no amount charges nothing.                               *)
Charge(amount) == IF amount > 0 THEN amount ELSE 0

(* What an order's team owes another for it, read off the order's rows.    *)
OrderDebt(o, creditor) ==
  LET row == OrderRow[o]
      totals == [i \in DOMAIN row.items |-> Charge(row.items[i].total)]
      cross == {i \in CrossItems(o) : row.items[i].productTeam = creditor}
      fee == IF row.warehouse = creditor THEN Charge(row.fee) ELSE 0
  IN  IF creditor = row.team THEN 0 ELSE SumFunctionOnSet(totals, cross) + fee

(* The postings of an event pushed on a subscription; an event of a type   *)
(* the subscription does not handle posts nothing.                         *)
Postings(m) ==
  CASE m.sub = "selling" /\ m.type = "OrderCreated"   -> postOrderBalances(m.subject, FALSE)
    [] m.sub = "selling" /\ m.type = "OrderCanceled"  -> postOrderBalances(m.subject, TRUE)
    [] m.sub = "selling" /\ m.type = "PaymentAccept"  -> postPaymentAcceptBalance(m.subject)
    [] m.sub = "stock"   /\ m.type = "RestockAccepted" -> postCodFeeBalance(m.subject)
    [] m.sub = "stock"   /\ m.type = "StockProblem"   -> postProblemStockBalance(m.subject)
    [] OTHER -> << >>

(* Order events are booked on the day the event carries, however late it   *)
(* is handled; the others on the day of the handler's clock.               *)
PostingDay(m, today) ==
  IF m.sub = "selling" /\ m.type \in {"OrderCreated", "OrderCanceled"} THEN m.day ELSE today

PostAll(d, postings, day) ==
  FoldLeft(LAMBDA e, p : postDoubleEntry(e, p.acct, p.kind, p.amount, day, p.ref),
           d, postings)
=============================================================================
