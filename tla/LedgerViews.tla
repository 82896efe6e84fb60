---------------------------- MODULE LedgerViews ----------------------------
(***************************************************************************)
(* What the reading RPCs of invoice_v2 compute from the tables of Ledger:  *)
(* the balance timeline, the overview, the list of counterparties, and the *)
(* lists of log rows and payments.  An operator is one SQL statement on    *)
(* the tables d and p, or the work done on the results of several: each    *)
(* statement of a handler may see another state of the tables.             *)
(*                                                                         *)
(* Days are numbers and the instants of rows and windows are the first of  *)
(* their Jakarta days, so that rows can lie on the bounds of a window.     *)
(***************************************************************************)
EXTENDS Ledger, SequencesExt

CONSTANTS Unit,   \* lengths of the periods of a granularity, in days
          teams   \* the rows of the table teams: name (as its rank) and type

(* Ids are integers of 64 bits, so there are finitely many.                *)
ASSUME ViewsAssumption ==
  /\ Day \subseteq Nat
  /\ IsFiniteSet(Team) /\ IsFiniteSet(PaymentId)
  /\ Unit \subseteq Nat \ {0}
  /\ DOMAIN teams \subseteq Team
  /\ \A t \in DOMAIN teams : teams[t].name \in Nat

(* The accounts that pass the filter of team_id and for_team_id; 0 is any. *)
Scope(team, forTeam, bt) ==
  (IF team = NoTeam THEN Team ELSE {team})
    \X (IF forTeam = NoTeam THEN Team ELSE {forTeam}) \X {bt}

From(start, end) == {day \in Day : start <= day /\ day < end}

(* Faulty variant: the end is left out, as in From.                        *)
BetweenOpen(start, end) == From(start, end)

(* SQL's BETWEEN has both of its bounds.                                   *)
Between(start, end) == {day \in Day : start <= day /\ day <= end}

(* The rows of balance_change_logs of the accounts on the days.            *)
LogRows(d, accounts, days) ==
  UNION {{[account |-> a, id |-> i, day |-> d[a].log[i].day, kind |-> d[a].log[i].kind,
           change |-> d[a].log[i].change, balance |-> d[a].log[i].balance] :
             i \in {j \in DOMAIN d[a].log : d[a].log[j].day \in days}} : a \in accounts}

Changed(rows) == SumFunction([r \in rows |-> r.change])

(* The breakdown of a set of rows by change type.                          *)
ChangeSums(rows) ==
  {[kind |-> kind, amount |-> Changed({r \in rows : r.kind = kind}),
    count |-> Cardinality({r \in rows : r.kind = kind})] : kind \in {r.kind : r \in rows}}

(* The rows of invoice_payments of team to forTeam in one of the statuses. *)
PaymentRows(p, team, forTeam, statuses) ==
  {id \in PaymentId : /\ p[id] # NoPayment /\ p[id].status \in statuses
                      /\ team # NoTeam => p[id].team = team
                      /\ forTeam # NoTeam => p[id].forTeam = forTeam}

AcceptedOn(p, team, forTeam, days) ==
  {id \in PaymentRows(p, team, forTeam, {"ACCEPTED"}) : p[id].acceptedAt \cap days # {}}

Amounts(p, ids) == SumFunction([id \in ids |-> p[id].amount])
-----------------------------------------------------------------------------
(* TeamBalanceTimeline.                                                    *)

(* Faulty variant: the window's first day is counted on both sides.        *)
OpeningInclusive(d, accounts, start) ==
  SumFunction([x \in accounts \X {day \in Day : day <= start} |-> d[x[1]].daily[x[2]].change])

(* Statement 1: the daily rows before the window, summed.                  *)
Opening(d, accounts, start) ==
  SumFunction([x \in accounts \X {day \in Day : day < start} |-> d[x[1]].daily[x[2]].change])

(* Statement 3: the payments accepted in the window.                       *)
PaidRows(p, team, forTeam, days) ==
  {[id |-> id, day |-> CHOOSE day \in p[id].acceptedAt : TRUE, amount |-> p[id].amount] :
     id \in AcceptedOn(p, team, forTeam, days)}

(* The period of the day, named by its first day.                          *)
bucket(unit, day) == (day \div unit) * unit

(* The numbers of S in ascending order.                                    *)
Ascending(S) ==
  CHOOSE s \in SetToSeqs(S) : \A i, j \in DOMAIN s : i < j => s[i] < s[j]

(* The balances after none, one, two ... of the changes.                   *)
Running(opening, changes) ==
  LET after[i \in 0 .. Len(changes)] ==
        IF i = 0 THEN opening
        ELSE [bt \in BalanceType |-> after[i - 1][bt] + changes[i][bt]]
  IN  after

InBucket(S, unit, key) == {r \in S : bucket(unit, r.day) = key}

(* The buckets in chronological order, from the opening balances and the   *)
(* rows of the other two statements.                                       *)
Timeline(opening, rows, paid, unit) ==
  LET keys == Ascending({bucket(unit, r.day) : r \in rows \cup paid})
      of(i, bt) == {r \in InBucket(rows, unit, keys[i]) : r.account[3] = bt}
      changes == [i \in DOMAIN keys |-> [bt \in BalanceType |-> Changed(of(i, bt))]]
  IN  [i \in DOMAIN keys |->
         [start |-> keys[i], balance |-> Running(opening, changes)[i], change |-> changes[i],
          breakdown |-> [bt \in BalanceType |-> ChangeSums(of(i, bt))],
          totalPayment |-> SumFunction([r \in InBucket(paid, unit, keys[i]) |-> r.amount])]]

Openings(d, team, forTeam, start) ==
  [bt \in BalanceType |-> Opening(d, Scope(team, forTeam, bt), start)]

WindowRows(d, team, forTeam, start, end) ==
  UNION {LogRows(d, Scope(team, forTeam, bt), From(start, end)) : bt \in BalanceType}

(* The response when the three statements see the same tables.             *)
TeamBalanceTimeline(d, p, team, forTeam, unit, start, end) ==
  Timeline(Openings(d, team, forTeam, start),
           WindowRows(d, team, forTeam, start, end),
           PaidRows(p, team, forTeam, From(start, end)), unit)

-----------------------------------------------------------------------------
(* Overview, one operator per metric; team and forTeam may be 0.           *)

Balances(d, accounts) == SumFunction([a \in accounts |-> d[a].balance])
Pendings(d, accounts) == SumFunction([a \in accounts |-> d[a].pending])

OverviewPayable(d, team, forTeam) ==
  LET v == Balances(d, Scope(team, forTeam, "PAYABLE")) IN IF v < 0 THEN -v ELSE v

OverviewReceivable(d, team, forTeam) == Balances(d, Scope(team, forTeam, "RECEIVABLE"))

OverviewPendingPayment(d, team, forTeam) == Pendings(d, Scope(team, forTeam, "PAYABLE"))

OverviewIncomingPayment(d, team, forTeam) == Pendings(d, Scope(team, forTeam, "RECEIVABLE"))

OverviewTotalPayment(p, team, forTeam, start, end) ==
  Amounts(p, AcceptedOn(p, team, forTeam, Between(start, end)))

(* TOTAL_PAYABLE and TOTAL_RECEIVABLE: the total is added up from the      *)
(* breakdown.                                                              *)
totalChangeOverview(d, team, forTeam, bt, start, end) ==
  LET change == ChangeSums(LogRows(d, Scope(team, forTeam, bt), Between(start, end)))
  IN  [total |-> SumFunction([c \in change |-> c.amount]), change |-> change]
-----------------------------------------------------------------------------
(* TeamBalanceList.  The counterparties of a filter pass its for_team_id   *)
(* and its team type; the types join the table of teams.                   *)

Counterparties(forTeam, type) ==
  {x \in Team : /\ forTeam # NoTeam => x = forTeam
                /\ type # "UNSPECIFIED" => x \in DOMAIN teams /\ teams[x].type = type}

SortKey == {"COMMON", "PAYABLE", "RECEIVABLE", "PENDING_PAYMENT", "INCOMING_PAYMENT",
            "TOTAL_PAYMENT", "TOTAL_PAYABLE", "TOTAL_RECEIVABLE"}

(* What each sort orders by: a function on the counterparties that have a  *)
(* row in its source.                                                      *)
SortColumn(d, p, sort, team, xs, start, end) ==
  LET at(x, bt) == <<team, x, bt>>
      days == Between(start, end)
      withRow(bt) == {x \in xs : d[at(x, bt)].present}
      changed(bt) == {x \in xs : LogRows(d, {at(x, bt)}, days) # {}}
      named == {x \in xs \cap DOMAIN teams : \E bt \in BalanceType : d[at(x, bt)].present}
      totals(bt) == [x \in changed(bt) |-> Changed(LogRows(d, {at(x, bt)}, days))]
  IN  CASE sort = "COMMON" -> [x \in named |-> teams[x].name]
        [] sort = "PAYABLE" -> [x \in withRow("PAYABLE") |-> d[at(x, "PAYABLE")].balance]
        [] sort = "RECEIVABLE" ->
             [x \in withRow("RECEIVABLE") |-> d[at(x, "RECEIVABLE")].balance]
        [] sort = "PENDING_PAYMENT" ->
             [x \in withRow("PAYABLE") |-> d[at(x, "PAYABLE")].pending]
        [] sort = "INCOMING_PAYMENT" ->
             [x \in withRow("RECEIVABLE") |-> d[at(x, "RECEIVABLE")].pending]
        [] sort = "TOTAL_PAYMENT" ->
             [x \in {y \in xs : AcceptedOn(p, team, y, days) # {}} |->
                Amounts(p, AcceptedOn(p, team, x, days))]
        [] sort = "TOTAL_PAYABLE" -> totals("PAYABLE")
        [] sort = "TOTAL_RECEIVABLE" -> totals("RECEIVABLE")

(* Faulty variant: pages are counted from 0.                               *)
pageLimitOffsetFromZero(page) ==
  IF page.limit <= 0 THEN [limit |-> 100, offset |-> 0]
  ELSE [limit |-> page.limit, offset |-> page.page * page.limit]

pageLimitOffset(page) ==
  IF page.limit <= 0 THEN [limit |-> 100, offset |-> 0]
  ELSE [limit |-> page.limit,
        offset |-> IF page.page < 1 THEN 0 ELSE (page.page - 1) * page.limit]

(* The orders in which the database may return the rows of the column:     *)
(* rows with equal values come in any order, and each time in another.     *)
Sorted(column, desc) ==
  {s \in SetToSeqs(DOMAIN column) : \A i, j \in DOMAIN s :
     i < j => IF desc THEN column[s[i]] >= column[s[j]] ELSE column[s[i]] <= column[s[j]]}

PageOf(s, page) ==
  LET q == pageLimitOffset(page)
      last == q.offset + q.limit
  IN  SubSeq(s, q.offset + 1, IF last < Len(s) THEN last ELSE Len(s))

(* The pages that sortForTeamIDs may answer with.                          *)
sortForTeamIDs(column, desc, page) == {PageOf(s, page) : s \in Sorted(column, desc)}

(* The totals of the listed ids, and in a second statement the breakdown;  *)
(* an id that only the second one found gets the total 0.                  *)
ChangeTotals(d, team, ids, bt, start, end) ==
  LET rows(x) == LogRows(d, {<<team, x, bt>>}, Between(start, end))
  IN  [x \in {y \in ids : rows(y) # {}} |-> Changed(rows(x))]

ChangeBreakdown(d, team, ids, bt, start, end) ==
  LET rows(x) == LogRows(d, {<<team, x, bt>>}, Between(start, end))
  IN  [x \in {y \in ids : rows(y) # {}} |-> ChangeSums(rows(x))]

(* Faulty variant: the second statement's rows start an item of their own. *)
totalChangeDataAnew(totals, breakdown) ==
  [x \in DOMAIN totals \cup DOMAIN breakdown |->
     [total |-> IF x \in DOMAIN breakdown THEN 0 ELSE totals[x],
      change |-> IF x \in DOMAIN breakdown THEN breakdown[x] ELSE {}]]

totalChangeData(totals, breakdown) ==
  [x \in DOMAIN totals \cup DOMAIN breakdown |->
     [total |-> IF x \in DOMAIN totals THEN totals[x] ELSE 0,
      change |-> IF x \in DOMAIN breakdown THEN breakdown[x] ELSE {}]]

(* The other data maps over the listed ids.                                *)
fetchTeamBalanceData(d, p, dt, team, ids, start, end) ==
  LET bt == IF dt \in {"PAYABLE", "PENDING_PAYMENT"} THEN "PAYABLE" ELSE "RECEIVABLE"
      withRow == {x \in ids : d[<<team, x, bt>>].present}
      paid(x) == AcceptedOn(p, team, x, Between(start, end))
  IN  CASE dt = "COMMON" -> [x \in ids \cap DOMAIN teams |-> teams[x].name]
        [] dt \in {"PAYABLE", "RECEIVABLE"} ->
             [x \in withRow |-> d[<<team, x, bt>>].balance]
        [] dt \in {"PENDING_PAYMENT", "INCOMING_PAYMENT"} ->
             [x \in withRow |-> d[<<team, x, bt>>].pending]
        [] dt = "TOTAL_PAYMENT" -> [x \in {y \in ids : paid(y) # {}} |-> Amounts(p, paid(x))]
-----------------------------------------------------------------------------
(* ListTeamBalanceLog, ListPayment and ListIncomingPayment: the rows that  *)
(* pass the filters.  They come newest first; paging is db_connect's.  The *)
(* filters by order and by the time a payment was created are left out.    *)

ListTeamBalanceLog(d, team, forTeam, bts, start, end) ==
  {r \in UNION {LogRows(d, Scope(NoTeam, forTeam, bt), Between(start, end)) : bt \in bts} :
     r.account[1] = team}

ListPayment(p, team, forTeam, statuses) ==
  {id \in PaymentRows(p, NoTeam, forTeam, statuses) : p[id].team = team}

ListIncomingPayment(p, forTeam, team, statuses) ==
  {id \in PaymentRows(p, team, NoTeam, statuses) : p[id].forTeam = forTeam}
-----------------------------------------------------------------------------
(* The windows of whole days, by their first and last day.                 *)
Windows == {w \in Day \X Day : w[1] <= w[2]}

(* Whoever reads names its team, as each of the RPCs demands.              *)
Readers == Team \ {NoTeam}

(* The counterparties a reader may name: none, or a team other than its own. *)
Filters(team) == (Team \ {team}) \cup {NoTeam}

(* Whatever the window, the periods and the order in which days were       *)
(* booked, the balance the timeline shows for a period is the replay of    *)
(* all log rows up to the end of the period, or of the window when that is *)
(* first, although the opening comes from daily rows; and the last one is  *)
(* that of the team_balances rows when the window reaches the last day.    *)
TimelineIsLogReplay ==
  \A team \in Readers : \A forTeam \in Filters(team), unit \in Unit, w \in Windows :
    LET b == TeamBalanceTimeline(db, payments, team, forTeam, unit, w[1], w[2] + 1)
    IN  \A i \in DOMAIN b, bt \in BalanceType :
          LET accounts == Scope(team, forTeam, bt)
              until == {day \in Day : day <= w[2] /\ day < b[i].start + unit}
          IN  /\ b[i].balance[bt] = Changed(LogRows(db, accounts, until))
              /\ i = Len(b) /\ (\A day \in Day : day <= w[2])
                   => b[i].balance[bt] = Balances(db, accounts)

(* What the list of counterparties shows of a data type, added up.         *)
Listed(dt, team, forTeam, w) ==
  LET data == fetchTeamBalanceData(db, payments, dt, team, Counterparties(forTeam, "UNSPECIFIED"),
                                   w[1], w[2])
  IN  SumFunction(data)

(* The overview, the list of counterparties, the log list and the daily    *)
(* rows come to the same balances, to the same total of the changes of a   *)
(* window and to the same breakdown, though each selects and adds up the   *)
(* rows in its own way.                                                    *)
TotalsAgree ==
  \A team \in Readers : \A forTeam \in Filters(team), w \in Windows :
    /\ OverviewReceivable(db, team, forTeam) = Listed("RECEIVABLE", team, forTeam, w)
    /\ OverviewPayable(db, team, forTeam)
         = LET v == Listed("PAYABLE", team, forTeam, w) IN IF v < 0 THEN -v ELSE v
    /\ \A bt \in BalanceType :
         LET overview == totalChangeOverview(db, team, forTeam, bt, w[1], w[2])
             rows == ListTeamBalanceLog(db, team, forTeam, {bt}, w[1], w[2])
             xs == Counterparties(forTeam, "UNSPECIFIED")
             list == totalChangeData(ChangeTotals(db, team, xs, bt, w[1], w[2]),
                                     ChangeBreakdown(db, team, xs, bt, w[1], w[2]))
             accounts == Scope(team, forTeam, bt)
         IN  /\ overview = [total |-> Changed(rows), change |-> ChangeSums(rows)]
             /\ overview.total = SumFunction([x \in DOMAIN list |-> list[x].total])
             /\ overview.total
                  = Opening(db, accounts, w[2] + 1) - Opening(db, accounts, w[1])

(* Money paid is money booked: what the overview says a team paid to       *)
(* another in a window, which the list says as well, less what it was      *)
(* paid, is what the PAYMENT changes of the window moved in its favour,    *)
(* unless somebody posted such changes by hand or asked for a payment of   *)
(* less than nothing, which is accepted without a posting; and what is     *)
(* pending is shown to both alike, as the amount of the payments that      *)
(* their lists show as pending.                                            *)
PaymentsAgree ==
  \A team \in Readers : \A forTeam \in Readers \ {team} : \A w \in Windows :
    LET paid == OverviewTotalPayment(payments, team, forTeam, w[1], w[2])
        gotten == OverviewTotalPayment(payments, forTeam, team, w[1], w[2])
        rows == ListTeamBalanceLog(db, team, forTeam, BalanceType, w[1], w[2])
        out == Amounts(payments, ListPayment(payments, team, forTeam, {"PENDING"}))
        in == Amounts(payments, ListIncomingPayment(payments, forTeam, team, {"PENDING"}))
    IN  /\ paid = Listed("TOTAL_PAYMENT", team, forTeam, w)
        /\ "PAYMENT" \notin PostKind /\ PayAmount \subseteq Nat =>
             paid - gotten = Changed({r \in rows : r.kind = "PAYMENT"})
        /\ out = in
        /\ out = OverviewPendingPayment(db, team, forTeam)
        /\ out = OverviewIncomingPayment(db, forTeam, team)
        /\ out = Listed("PENDING_PAYMENT", team, forTeam, w)
        /\ out = Listed("INCOMING_PAYMENT", forTeam, team, w)
=============================================================================
