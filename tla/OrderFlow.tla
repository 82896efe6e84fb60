----------------------------- MODULE OrderFlow -----------------------------
(***************************************************************************)
(* The parts together, as an order meets them.  The owe-limit gate (called *)
(* by the order service, external) is two statements; an admitted order is *)
(* booked later by the push handler, on the day of its event, and may be   *)
(* canceled before or after; payments settle its fees; limits change; and  *)
(* readers run their statements in between, without a transaction.         *)
(*                                                                         *)
(* A transaction of the ledger is one step, as LedgerTxn shows, a message  *)
(* is applied once, as PushHandler shows, and so is the change of a limit, *)
(* as OweLimit shows.                                                      *)
(***************************************************************************)
EXTENDS LedgerViews, PushPostings, OweEval

CONSTANTS EventDay,   \* the days that the published events <<order, type>> carry
          Threshold,  \* the thresholds of default rules at first
          LimitSet,   \* the changes of limits: [team, forTeam, threshold]
          PayPair,    \* who pays whom
          MaxFlight,  \* bound on the orders between the gate and the ledger
          MaxSets,    \* bound on the changes of limits
          Request     \* the requests of the reader

(* Ids and thresholds are integers of 64 bits, so there are finitely many. *)
(* The requests of the reader have the filters that the RPCs demand, and   *)
(* their pages a limit: none stands for one of 100.                        *)
ASSUME FlowAssumption ==
  /\ DOMAIN EventDay \subseteq (DOMAIN OrderRow) \X {"OrderCreated", "OrderCanceled"}
  /\ \A e \in DOMAIN EventDay : EventDay[e] \in Day
  /\ IsFiniteSet(DOMAIN OrderRow) /\ IsFiniteSet(Threshold) /\ IsFiniteSet(LimitSet)
  /\ Threshold \subseteq Nat \ {0}
  /\ \A s \in LimitSet : s.team \in Team /\ s.threshold \in Nat \ {0}
  /\ PayPair \subseteq Team \X Team
  /\ MaxFlight \in Nat /\ MaxSets \in Nat
  /\ \A r \in Request :
       /\ r.op \in {"timeline", "list"}
       /\ r.team \in Readers /\ r.forTeam \in Filters(r.team)
       /\ r.start \in Nat /\ r.end \in Nat
       /\ r.op = "timeline" => r.unit \in Unit
       /\ r.op = "list" => /\ r.sort \in SortKey /\ r.desc \in BOOLEAN /\ r.bt \in BalanceType
                          /\ r.page \in [page : Int, limit : Nat \ {0}]

VARIABLES limits,  \* owe_limit_configurations
          sets,    \* changes of limits so far
          orders,  \* where each order is, and the limits its gate has read
          reader   \* what the reader has read

flowVars == <<db, payments, limits, sets, orders, reader>>

Order == DOMAIN OrderRow

NewOrder == [gate |-> "new", cfgs |-> {}, applied |-> {}]
NoReader == [pc |-> "idle"]

(* Every creditor has a default rule.                                      *)
FlowInit ==
  /\ Init
  /\ \E threshold \in Threshold :
       limits = {Row(<<t>>, t, NoTeam, "true", threshold) : t \in Team}
  /\ sets = 0
  /\ orders = [o \in Order |-> NewOrder]
  /\ reader = NoReader
-----------------------------------------------------------------------------
(* The teams whose rules the gate of an order asks for.                    *)
Creditors(o) == {t \in Team \ {OrderRow[o].team} : OrderDebt(o, t) > 0}

(* Admitted, or being asked for, and not booked.                           *)
InFlight(o) ==
  \/ orders[o].gate = "asked"
  \/ orders[o].gate = "admitted" /\ "OrderCreated" \notin orders[o].applied

(* EvaluateOweLimits, its first statement: the configurations ...          *)
ReadLimits(o) ==
  /\ orders[o].gate = "new"
  /\ Cardinality({x \in Order : InFlight(x)}) < MaxFlight
  /\ orders' = [orders EXCEPT
       ![o] = [@ EXCEPT !.gate = "asked",
                        !.cfgs = Selected(limits, OrderRow[o].team, Creditors(o))]]
  /\ UNCHANGED <<db, payments, limits, sets, reader>>

(* Faulty variant: the stored sign is not turned.                          *)
debtOfStored(debtor, creditors) ==
  [c \in creditors |-> db[<<debtor, c, "PAYABLE">>].balance]

(* ... and its second: the debts, PAYABLE being stored negative.           *)
debtOf(debtor, creditors) ==
  [c \in creditors |-> -db[<<debtor, c, "PAYABLE">>].balance]

(* The caller goes on only when every creditor allows it.                  *)
ReadDebts(o) ==
  /\ orders[o].gate = "asked"
  /\ \E cfgs \in SetToSeqs(orders[o].cfgs) :
       LET team == OrderRow[o].team
           canOwe == EvaluateOweLimits(cfgs, team, Creditors(o), debtOf(team, Creditors(o)))
       IN  orders' = [orders EXCEPT
             ![o] = [@ EXCEPT !.gate = IF \A c \in Creditors(o) : canOwe[c].allow
                                       THEN "admitted" ELSE "refused",
                              !.cfgs = {}]]
  /\ UNCHANGED <<db, payments, limits, sets, reader>>

(* The push handler applies an event of an admitted order.                 *)
ApplyEvent(o, type) ==
  LET day == EventDay[<<o, type>>]
      m == [sub |-> "selling", type |-> type, subject |-> o, day |-> day]
  IN  /\ orders[o].gate = "admitted"
      /\ type \notin orders[o].applied
      /\ db' = PostAll(db, Postings(m), PostingDay(m, day))
      /\ orders' = [orders EXCEPT ![o].applied = @ \cup {type}]
      /\ UNCHANGED <<payments, limits, sets, reader>>

(* A creditor changes its default, or its rule for one debtor.             *)
SetLimit(team, forTeam, threshold) ==
  LET default == forTeam = NoTeam
      old == {r \in limits : r.team = team /\ (r.isDefault = "true" <=> default)
                              /\ (default \/ r.forTeam = forTeam)}
      new == IF old # {} THEN {[r EXCEPT !.threshold = threshold] : r \in old}
             ELSE {Row(<<team, forTeam>>, team, forTeam, "false", threshold)}
  IN  /\ sets < MaxSets
      /\ team # forTeam
      /\ limits' = (limits \ old) \cup new
      /\ sets' = sets + 1
      /\ UNCHANGED <<db, payments, orders, reader>>

Pay ==
  /\ \E pair \in PayPair, id \in PaymentId :
       \/ \E amount \in PayAmount : CreatePayment(id, pair[1], pair[2], amount)
       \/ \E day \in Day : LogRoom /\ AcceptPayment(id, pair[1], pair[2], day)
       \/ RejectPayment(id, pair[1], pair[2])
  /\ UNCHANGED <<limits, sets, orders, reader>>
-----------------------------------------------------------------------------
(* The reader: one request per behavior, statement by statement.           *)

Lens(team) ==
  [a \in {b \in Account : b[1] = team} |-> Len(db[a].log)]

(* TeamBalanceTimeline.                                                    *)
ReadOpening(r) ==
  /\ reader = NoReader /\ r.op = "timeline"
  /\ reader' = [pc |-> "opened", req |-> r, seen |-> Lens(r.team),
                opening |-> Openings(db, r.team, r.forTeam, r.start)]
  /\ UNCHANGED <<db, payments, limits, sets, orders>>

ReadChanges ==
  /\ reader.pc = "opened"
  /\ LET r == reader.req
     IN  reader' = [pc |-> "changed", req |-> r, seen |-> reader.seen,
                    opening |-> reader.opening, upto |-> Lens(r.team),
                    rows |-> WindowRows(db, r.team, r.forTeam, r.start, r.end)]
  /\ UNCHANGED <<db, payments, limits, sets, orders>>

ReadPayments ==
  /\ reader.pc = "changed"
  /\ LET r == reader.req
         paid == PaidRows(payments, r.team, r.forTeam, From(r.start, r.end))
     IN  reader' = [pc |-> "done", req |-> r, seen |-> reader.seen, upto |-> reader.upto,
                    data |-> Timeline(reader.opening, reader.rows, paid, r.unit)]
  /\ UNCHANGED <<db, payments, limits, sets, orders>>

(* TeamBalanceList with the data type TOTAL_PAYABLE or TOTAL_RECEIVABLE.   *)
ReadPage(r) ==
  /\ reader = NoReader /\ r.op = "list"
  /\ LET xs == Counterparties(r.forTeam, r.type)
         column == SortColumn(db, payments, r.sort, r.team, xs, r.start, r.end)
     IN  \E ids \in sortForTeamIDs(column, r.desc, r.page) :
           reader' = [pc |-> "paged", req |-> r, ids |-> ToSet(ids)]
  /\ UNCHANGED <<db, payments, limits, sets, orders>>

ReadTotals ==
  /\ reader.pc = "paged"
  /\ LET r == reader.req
     IN  reader' = [pc |-> "totaled", req |-> r, ids |-> reader.ids, seen |-> Lens(r.team),
                    totals |-> ChangeTotals(db, r.team, reader.ids, r.bt, r.start, r.end)]
  /\ UNCHANGED <<db, payments, limits, sets, orders>>

ReadBreakdown ==
  /\ reader.pc = "totaled"
  /\ LET r == reader.req
         breakdown == ChangeBreakdown(db, r.team, reader.ids, r.bt, r.start, r.end)
     IN  reader' = [pc |-> "done", req |-> r, ids |-> reader.ids, seen |-> reader.seen,
                    upto |-> Lens(r.team), data |-> totalChangeData(reader.totals, breakdown)]
  /\ UNCHANGED <<db, payments, limits, sets, orders>>

Read ==
  \/ \E r \in Request : ReadOpening(r) \/ ReadPage(r)
  \/ ReadChanges \/ ReadPayments \/ ReadTotals \/ ReadBreakdown

FlowNext ==
  \/ \E o \in Order : ReadLimits(o) \/ ReadDebts(o)
  \/ \E e \in DOMAIN EventDay : ApplyEvent(e[1], e[2])
  \/ \E s \in LimitSet : SetLimit(s.team, s.forTeam, s.threshold)
  \/ Pay
  \/ Read

FlowSpec == FlowInit /\ [][FlowNext]_flowVars
-----------------------------------------------------------------------------
(* What the admitted orders that are not booked will add to a debt.        *)
Unbooked(debtor, creditor) ==
  LET waiting == {o \in Order : /\ OrderRow[o].team = debtor /\ orders[o].gate = "admitted"
                                /\ "OrderCreated" \notin orders[o].applied}
  IN  SumFunction([o \in waiting |-> OrderDebt(o, creditor)])

(* What debtor owes creditor because that overpaid it: the credit of an    *)
(* accepted payment, which no gate is asked for.                           *)
Overpaid(debtor, creditor) ==
  LET log == db[<<debtor, creditor, "PAYABLE">>].log
      credits == {i \in DOMAIN log : log[i].kind = "PAYMENT" /\ log[i].change < 0}
  IN  SumFunction([i \in credits |-> -log[i].change])

Thresholds == Threshold \cup {s.threshold : s \in LimitSet}

(* The gate is advisory and looks at booked debts only, so orders that are *)
(* between the gate and the ledger can together pass a limit; but by no    *)
(* more than that: a debt, with what is still to be booked, stays below    *)
(* the highest threshold plus one highest fee for each order in flight,    *)
(* however payments, cancellations and changes of limits interleave.       *)
DebtBounded ==
  \A debtor \in Team : \A creditor \in Team \ {debtor} :
    LET fees == {OrderDebt(o, creditor) : o \in {x \in Order : OrderRow[x].team = debtor}}
        debt == -db[<<debtor, creditor, "PAYABLE">>].balance
    IN  fees # {} =>
          debt + Unbooked(debtor, creditor) - Overpaid(debtor, creditor)
            < Max(Thresholds) + MaxFlight * Max(fees)

(* The rows of the reader's team that were committed between its two       *)
(* statements, of the accounts and on the days given.                      *)
Late(accounts, days) ==
  {row \in LogRows(db, accounts, days) :
     reader.seen[row.account] < row.id /\ row.id <= reader.upto[row.account]}

(* A timeline read while orders are booked: the balance it ends with is    *)
(* that of the log at its second statement, less the rows that were booked *)
(* since the first on days before its window.  Nothing is counted twice,   *)
(* and nothing booked before the read began is missed.                     *)
TimelineMissesOnlyLate ==
  reader.pc = "done" /\ reader.req.op = "timeline" =>
    LET r == reader.req
        b == reader.data
    IN  \A bt \in BalanceType :
          LET accounts == Scope(r.team, r.forTeam, bt)
              known == {row \in LogRows(db, accounts, {day \in Day : day < r.end}) :
                          row.id <= reader.upto[row.account]}
          IN  b # << >> =>
                b[Len(b)].balance[bt]
                  = Changed(known) - Changed(Late(accounts, {day \in Day : day < r.start}))

(* A list read while orders are booked: each counterparty's breakdown adds *)
(* up to its total and the rows booked between the two statements, and it  *)
(* is listed with data whenever there are such rows or a total.            *)
ListAddsUp ==
  reader.pc = "done" /\ reader.req.op = "list" =>
    LET r == reader.req
        late(x) == Late({<<r.team, x, r.bt>>}, Between(r.start, r.end))
    IN  \A x \in reader.ids :
          LET known == {row \in LogRows(db, {<<r.team, x, r.bt>>}, Between(r.start, r.end)) :
                          row.id <= reader.upto[row.account]}
          IN  /\ x \in DOMAIN reader.data <=> known # {}
              /\ known # {} =>
                   /\ SumFunction([c \in reader.data[x].change |-> c.amount]) = Changed(known)
                   /\ reader.data[x].total = Changed(known) - Changed(late(x))

(* At rest, the pages of the list, each a query of its own, add up: a      *)
(* counterparty that ties with no other in the sort is on exactly one page *)
(* whatever order the database chooses among the others, no page has one   *)
(* that is not in the sort's source, and all pages but the last are full.  *)
PagesCover ==
  reader = NoReader =>
    \A r \in {x \in Request : x.op = "list"} : \A sort \in SortKey :
      LET xs == Counterparties(r.forTeam, r.type)
          column == SortColumn(db, payments, sort, r.team, xs, r.start, r.end)
          n == Cardinality(DOMAIN column)
          limit == r.page.limit
          Page(i) == {ToSet(ids) : ids \in
                        sortForTeamIDs(column, r.desc, [page |-> i, limit |-> limit])}
          untied == {x \in DOMAIN column :
                       \A y \in DOMAIN column \ {x} : column[x] # column[y]}
      IN  /\ \A i \in 1 .. n + 1 : \A ids \in Page(i) :
               /\ ids \subseteq DOMAIN column
               /\ Cardinality(ids) = Max({0, Min({limit, n - (i - 1) * limit})})
          /\ \A x \in untied : \E i \in 1 .. n : \A j \in 1 .. n : \A ids \in Page(j) :
               x \in ids <=> j = i
=============================================================================
