# A TLA+ verification of invoice_service

invoice_service keeps what teams owe each other: a double-entry ledger of
RECEIVABLE and PAYABLE balances, the payments between teams, the owe limits,
and a Pub/Sub endpoint that books the events of other services. This directory
holds TLA+ models of that logic and of what its reading RPCs report, TLC
configurations that check them on small instances, and TLAPS proofs that all of
the safety that is checked holds for all instances.

Run inside this directory:

    tlasany Ledger.tla                                  # parse
    tlc -workers 2 -config MCLedger.cfg MCLedger.tla    # check
    tlapm LedgerProofs.tla                              # prove

PROJECT.json lists the runs, the faulty variant each property is known to
catch, the source lines every definition stands for, the hazards of the code,
the findings and the theorems. Definitions commented "Faulty variant" are such
variants; no specification uses them.

## 1. The system

| Component | State | Operations | Modelled in |
|---|---|---|---|
| v2 ledger core (`invoice_v2/create_balance_log.go`) | `team_balances`, `balance_change_logs`, `balance_change_order_sources`, `team_balance_daily_logs` | `PostBalanceLog`: two `postEntry` legs; `lockOrCreateBalance`, `adjustPending`, `upsertDailyLog` | LedgerOps, Ledger, LedgerTxn |
| payments (`invoice_v2/*_payment.go`) | `invoice_payments`, the in-flight column of `team_balances` | create, accept (settle debt, book the surplus), reject | Ledger, LedgerTxn |
| push handler (`push_handler.go`) | `invoice_exactly_once_logs` | order created / canceled, payment accepted, restock accepted, stock problem | PushPostings, PushOnce, PushHandler |
| team reconcile and sync-legacy (`invoice_v2/team_reconcile.go`, `cmd/app_production/sync_legacy.go`) | none of its own | read the gap to the legacy invoices, post adjustments; the command loops over teams | Reconcile |
| owe limits (`invoice_v2/check_owe_limit.go`, `owe_limit_*.go`) | `owe_limit_configurations` | set default, set / delete custom, evaluate | OweEval, OweLimit, OrderFlow |
| legacy submissions and invoices (`invoice_mutations/`) | `invoices`, `payment_submissions` and their logs, `payment_histories` | submit, accept, reject, readjust | Submissions |
| legacy limit service (`service.go`; only `cmd/main` mounts it) | `invoice_limit_configurations`, a cache | get (cached), set, delete, two listing reads | LegacyLimit |
| balance timeline, overview, lists (`invoice_v2/team_balance_*.go`, `overview.go`, `list_*.go`) | none | `TeamBalanceTimeline`, `Overview`, `TeamBalanceList`, `ListTeamBalanceLog`, `ListPayment`, `ListIncomingPayment` | LedgerViews, OrderFlow |
| query builders (`invoice_query/`) | the statement under construction, which joins it has | filters, joins that hand out another builder | InvoiceQuery |
| wiring and start-up | none | dependency injection, HTTP | no |

How they interact. Every change of a balance, whatever RPC or event it comes
from, goes through `postDoubleEntry` or a pair of `adjustPending` calls, in one
database transaction per request. The push handler, the RPCs and
TeamReconcile therefore meet only at PostgreSQL row locks and unique keys.
TeamReconcile compares the ledger with the legacy `invoices` table, which
`invoice_mutations` and other services write. `EvaluateOweLimits` reads the
configuration and PAYABLE balances and leaves the decision to its caller. The
reading RPCs run several statements each, outside any transaction, so each
statement may see another state of the tables.

What is hard here:

* *Interleaving and deadlock.* A posting locks its primary account and then the
  mirror, so postings from the two sides of a pair lock in opposite orders. A
  `SELECT ... FOR UPDATE` of a missing row locks nothing; only unique keys stop
  two sessions that both insert it.
* *Delivery.* Pub/Sub delivers again after a crash, a failure or a lost
  acknowledgement, and concurrently; a cancellation may be handled before the
  creation it cancels, and is booked on the day it carries.
* *Reads used later.* Reconcile deltas are read outside the transactions that
  post them; accept splits a payment by a balance it has read; a decision on a
  submission trusts the status that was loaded; the owe-limit gate looks at
  booked debts, while orders it admitted are booked later; the timeline and the
  list combine statements between which postings commit; the legacy answer is
  cached after its two reads.
* *Histories.* Log, daily rows and in-flight amounts must agree with balances
  after any sequence of calls, and so must all that the reports compute from
  them, each in its own way: daily rows or log rows, closed windows or half-open
  ones, totals or sums of breakdowns.

The properties that make each component correct are those of section 3.

## 2. The modules

**LedgerOps** - the primitives as operators on a value `d` of the ledger tables:
`d[<<team, forTeam, type>>]` has the balance row with the log rows (in id
order) and the daily rows of that account. An account without a row
(`present = FALSE`) has the values it will be inserted with.
`balance_change_order_sources` is the `ref` of a log row.

**Ledger** - the abstract specification of the ledger and the payments: each
RPC of `invoice_v2` that writes is one atomic action (`CreateBalanceLog`,
`CreatePayment`, `AcceptPayment`, `RejectPayment`); an RPC that returns an
error changes nothing. `LogRoom` bounds the logs.

**LedgerTxn** - the same RPCs as the SQL statements they execute. A session has
a program of statements (`Program`, `AfterLoad`, `SplitPayment`), private
versions of the rows it has locked, and may wait, miss a row, hit a unique key,
become a deadlock victim or crash. The database's rules are stated at the top
of the module and are external. It instantiates Ledger as `L`, with the
committed tables as the refinement mapping: `Serializable == L!Spec`.

**PushPostings** - what each event posts, as a function of the rows of the
order, stock transaction or submission (constants). **PushOnce** - the promise:
each message is applied at most once, all at once. **PushHandler** - concurrent
executions with the inbox row, crashes, redelivery, lost acknowledgements and
malformed messages; it implements PushOnce with
`applied <- {m : Key(m) \in inbox}`. An execution's postings take effect at its
commit; that transactions may be seen so is what LedgerTxn checks.

**Reconcile** - TeamReconcile and the loop of sync-legacy over LedgerOps. The
legacy invoices of a pair are the sum of the unpaid ones. `owed` and `drift` in
a run are history for the properties.

**OweEval** - `EvaluateOweLimits` as a fold over the configuration rows in any
order. **OweLimit** - set and delete as statements that meet at row locks and
partial unique indexes.

**LedgerViews** - extends Ledger with the reading RPCs: each SQL statement is an
operator on the tables, `Timeline` and `totalChangeData` are the work done on
the results. Windows, periods and days are numbers of days; a row's time is the
first instant of its day, so that rows lie on the bounds of windows, where
BETWEEN and `<` differ. `teams` is the table of names and types.

**OrderFlow** - the composition of LedgerViews, PushPostings and OweEval. An
order passes the gate (two statements), is booked later by the push handler on
its event's day and may be canceled; payments settle its fees; a creditor
changes a limit; a reader runs the timeline's or the list's statements in
between. Transactions of the ledger are single steps (LedgerTxn shows that they
may be), a message is applied once (PushHandler), and a set of a limit is one
step (OweLimit). The order service, which asks the gate and obeys it, is
external.

**Submissions** - the payment cycle of the legacy invoices, with one mutation
object at a time between its load and the end of its transaction.

**InvoiceQuery** - the builders handed out for one statement, each with its own
flags of what is joined; one action per method that adds something.

**LegacyLimit** - get, set and delete of `service.go` as statements without a
transaction, with the cache entry and its expiration.

**MC\*** modules give the constants of the runs.

The proofs:

| Module | Subject |
|---|---|
| SumProofs | sums over finite sets, folds over sets and sequences; no model |
| LedgerOpsProofs | the primitives: one account row, a pair of accounts; what the fees of an order post |
| LedgerProofs | Ledger, the reports of LedgerViews, and OrderFlow |
| LedgerTxnProofs | LedgerTxn, and that it implements Ledger |
| PushHandlerProofs | PushHandler, and that it implements PushOnce |
| ReconcileProofs | Reconcile |
| OweLimitProofs | OweLimit and the evaluation of OweEval |
| SubmissionsProofs | Submissions, and at its end InvoiceQuery |

## 3. The runs

| Run | Shows | Bounds |
|---|---|---|
| `ledger` | `MirrorBooks`, `LogReplays`, `DailySpansLog`, `PaymentsBookedOnce`, `SettlementExact` over all sequences of the RPCs; and in each state, over all windows, periods, teams and filters, `TimelineIsLogReplay`, `TotalsAgree`, `PaymentsAgree` | 2 teams, 2 days, periods of 1 and 2 days, 2 payments of 2, posting amounts 0 and 1, 3 log rows per account |
| `txn_payments` | commits are Ledger steps (`Serializable`), every request ends (`EveryRequestEnds`) | 2 sessions, 5 transactions on one pair, both directions |
| `txn_mixed` | `Serializable` and `DailyNeverContended` with postings from all four accounts of a pair, and which requests can deadlock (`DeadlockNeedsMixedOrder`) | 3 sessions, 4 transactions, 2 days |
| `push` | `AppliedOnce`, `EventuallyApplied`, `OrderNetsOut`, `DebtExplained` for every kind of event | 6 messages (every type and a malformed one, two with the same id on two subscriptions), 2 handlers, 1 crash, 2 event days, the handler's clock on one of them |
| `push_sign` | violation of `PayableNeverPositive` (finding 1) | 3 messages |
| `reconcile` | `NoChangeLost`, `NoTeamSkipped`, `Converges` | 3 teams, 3 pairs, 2 invoice changes, 1 posting by others, 1 failing call |
| `reconcile_overlap` | violation of `AdjustmentsIdempotent` (finding 2) | 2 callers, 1 team |
| `reconcile_truth` | violation of `LegacyTruth` (finding 3) | 1 caller, 2 invoice changes |
| `owe_limit` | `OneRule`, `RulesFollowCalls`, `AnswerFollowsRules`, `EverySetReturns`; and apart from them LegacyLimit's `CacheCatchesUp` | 2 callers, 2 teams, 3 sets, thresholds 0 and 2, debts 0 to 2; LegacyLimit: 2 callers, 1 pair, 3 changes, unpaid 0 to 2 |
| `submissions` | `SubmissionExclusive`, `PaidByItsSubmission`, `AdjustedOnce`, `DecidedOnce`, `ReadjustReachesAmount`; and apart from them InvoiceQuery's `JoinsSound` | 3 invoices, 2 submissions, 2 readjustments, 1 pair, 1 call per loaded object; 4 builders |
| `flow` | `DebtBounded`, `TimelineMissesOnlyLate`, `ListAddsUp`, `PagesCover` | 3 orders and a cancellation, 3 teams, 2 event days, 1 payment, 1 change of a limit, 2 orders in flight, 1 reader per behavior |
| `submissions_reuse` | violation of `DecidedOnce` (finding 4) | 2 calls per loaded object |

Why the bounds are enough to be of use. Accounts of different pairs share no
row, so one pair with both directions has all the sharing that an account can
have, and the proofs cover any number of teams. Two days are enough for days to
alternate and come out of order; two payments for one to be decided while the
other waits; payments larger than one posting and as large as two for partial
payment (of the credit of an earlier overpayment), exact and over-payment. A
window has at most two days and so a bound on each side of every row, and
periods of two days end after, at and before the window's end. A lock cycle
needs two sessions, a third can wait behind or close a longer one. Posting
amounts include 0, teams include the unset id and a team with itself, so
refusals happen. The modelled order of the push runs includes own goods, goods
without a team and two items of one team. In `flow`, two orders in flight are
the least that can pass a limit together, and a third one of another day is
booked around them and around the reader. Four builders are the least that have
a builder of a builder's builder in each direction, and every join of every
kind. Three invoices allow a submission of two and the adjustment invoice of
one of them. Every property has a faulty variant of a mapped definition that
TLC refutes under the same bounds.

LegacyLimit shares no variable with OweLimit, nor InvoiceQuery with Submissions.
MCOweLimit and MCSubmissions check such a pair in one run: a behavior takes
steps of one of the two while the other stays in its initial state. Each of the
two has all of its own behaviors that way, and since they have nothing to
interleave on, none is missed.

`CHECK_DEADLOCK FALSE` stands where the bounds let the system come to rest
(ledger, transactions, owe limits, submissions, flow); it is not there in the
push and reconcile runs, which never stop.

### Fairness

* LedgerTxn: `WF(Execute(s))`. The database executes the statements it has
  accepted and breaks deadlocks; clients need not send requests.
* PushHandler: an execution that waits for nobody moves on (`MovesOn`; its
  subscript is `handler` since only control matters), and Pub/Sub pushes an
  unacknowledged message again and again (`SF(Redeliver(m))`), as at-least-once
  delivery promises. Crashes are bounded: an execution that dies for ever
  applies nothing.
* Reconcile: a run does not stall, and operators start sync-legacy again and
  again. The second is an assumption on operators; `Converges` depends on it,
  the other properties do not.
* OweLimit: as in LedgerTxn, per caller.
* LegacyLimit: the statements of an accepted call return (`GoOn`), and the minute
  of a cache entry passes (`Expire`). Nobody needs to call.
* OrderFlow, Ledger, Submissions, InvoiceQuery: none; safety only.

## 4. What is proved

Every theorem is about all values of the constants that satisfy the named
assumptions of the module. Each component has one inductive invariant
(`...Invariant`, a theorem of its own), which the other theorems follow from.

**SumProofs.** The provers have no induction over data. They do have
induction over the naturals as the existence of a least counterexample, and so
the facts about `SumFunctionOnSet` (a point added, removed, or changed; a sum
of sums; equal terms) and about folds are proved from that: for every finite
set, or every length, take the least one for which the claim fails. A fold of
the community modules is unfolded by `FoldsLeft` and `GreatestLemma`: it is
the last value of a sequence of values of which each one comes from the
one before.

**LedgerProofs**, under `RefAssumption` and `LedgerAssumption`:
`LedgerTypes`, `LedgerMirrored`, `LedgerReplays`, `LedgerDailySpans`,
`LedgerBooksPaymentsOnce` and the action property `LedgerSettlement`.

`LedgerInv` is `Books(db)`, the types of the payments, with every payment
between distinct teams, and what each payment has booked. `Books` is the type
of the tables, the mirror and, for each account, the history facts (replay and
daily spans), which lean on each other. That a daily row starts where the log's
first change of the day started needs that the log's last entry is the balance
(replay), and that a posting on one account leaves the mirror alone needs that
an account is never its own mirror. The lemmas go bottom up: one account row
(`PostEntryRowLemma`, `PostEntryReplays`, `PostEntrySpansDay`,
`AdjustPendingKeepsHistory`), a mirrored pair (`PostDoubleEntryBooks`,
`AdjustPendingPairBooks`), a settlement (`SettleBooks`), then one lemma per RPC
and `LedgerInvStep`. `SettlementExact` uses that the payer's two accounts and
their mirrors are four different rows (`SettleBalances`) and that only
AcceptPayment accepts (`OnlyAcceptAccepts`).

The second half of the module is about the reports, under `ViewsAssumption` (ids
are finitely many, as 64-bit numbers are; days and periods are numbers):
`LedgerTimeline`, `LedgerTotalsAgree` and `LedgerPaymentsAgree`, for every
window, period, filter and team but the unset id, which the handlers refuse.
Their inductive invariant `ViewInv` (`LedgerViewInvariant`) adds to `LedgerInv`
what the reports silently rely on and `LedgerInv` does not have:

* row by row, a daily row records the sum of the log's changes of its day
  (`DailyAdds`), a balance is the sum of its log (`AddsUp`), and an account
  without a row has no history (`Dormant`), so that leaving it out of a list
  loses nothing;
* pair by pair, what is in flight is the amount of the pair's pending payments;
  and the amounts accepted on any set of days, one direction less the other, are
  what the PAYMENT changes of those days moved on the pair's two accounts
  (`PaidBooked`). The last one needs that no PAYMENT change is posted by hand and
  that no payment is negative (one is accepted without a posting); these are
  hypotheses of the invariant's last part and of one conjunct of
  `PaymentsAgree`, and of nothing else.

From there the reports are sums over different partitions of the same rows:
`LogRowsSum` turns the sum over a set of log rows into one over accounts,
`ScopeSum` into one over counterparties, `ChangeSumsTotal` into one over change
types, `DaysSum` into one over days. `OpeningLemma` says that the daily rows
before a day come to the log rows before it, `WindowLemma` that a closed window
is the difference of two openings. For the timeline, `AscendingLemma` shows that
the sorted periods exist and `RunningLemma` unfolds the running balance (by
least counterexample over the periods). `UptoStep` and `UptoRows` then show that
the opening and the first i periods together are exactly the rows up to the end
of period i or of the window: two neighbouring periods that have rows may be far
apart, and the days between them have none.

The last part is about OrderFlow, under `RowAssumption` (the columns of an
order's rows have their types) and `FlowAssumption` (events are about orders and
days of the model, orders and thresholds are finitely many, thresholds and
page sizes positive, requests as the RPCs demand them):

* `FlowViewInvariant`: a step of the flow is one of Ledger, or books the fees of
  an order, and a fee is a posting like another but never a PAYMENT one, so that
  `ViewInv` holds here too (`EventViews`), and with it the books and reports
  (`FlowBooks`).
* `FlowInvariant`: what the reader has in its hands was computed from tables
  that were there once (`ReaderOK`). Nothing else is known of those
  tables, and nothing else is needed: they satisfy the invariant of the views,
  and a log only grows (`FlowExtends`), so they are the present tables with
  each log cut at the length the reader saw. `EarlierRows` turns what the reader
  has added up into a sum over present rows with ids up to there.
  `FlowListAddsUp` follows, since the total is of rows up to `seen` and the
  breakdown of rows up to `upto`, and the rows between are `Late`; and
  `FlowTimeline`, where the opening is of `seen` and the rows of `upto`.
* `FlowPagesCover`: the places of a sorted listing. A counterparty that ties
  with no other has, in every order of the rows that respects the sort, as
  many rows before it as there are better ones (`SortedPlace`), so its place,
  and the page with its place, is the same on each query.
* `FlowGateInvariant` and `FlowDebtBounded`. `DebtBounded` is not inductive: an
  order that is about to be admitted has read its limits long ago, they
  may have changed since, and its answer must still be no higher than a
  threshold of the model. `GateInv` adds that every creditor has a default rule,
  that an order that waits for its second statement has read one for each of its
  creditors (so that none answers "no configuration, owe what you like"), and that
  the orders in flight number at most `MaxFlight`. Its bound speaks of the debt
  with what admitted orders will add (`Expected`) and without credits (`Net`). An
  admission (`ReadDebtsGate`) finds the debt itself below a threshold, and what is
  expected, the new order included, is at most one highest fee for each order in
  flight; this does not use the bound as it was before. A booking (`EventGate`) moves
  as much from `Expected` to the debt, a cancellation lowers the debt, and a payment
  raises it only by a credit (`PayLemma`). That a creditor with a default
  row among those read gets a limit, in whatever order the rows come, is
  `GateLimited`, from the unfolded evaluation.

**LedgerTxnProofs**, under `TxnAssumption` (requests have their fields' types;
a row of one table is no row of another; Ledger's and the views' assumptions):
`TxnSerializable`, `TxnDailyNeverContended`, `TxnDeadlockOrder`, and `TxnBooks`,
which carries the theorems of Ledger through the refinement to the interleaved
transactions (LedgerProofs is instantiated there without orders and readers).

`TxnInv` describes a session by its *plan*, the set of statements of its
request: the rows it holds are those that its finished statements
touched, its private version of such a row is the committed row with the
finished statements applied, what it has left is the rest of the plan, and a
payment row that it loaded FOR UPDATE is locked and as loaded until it
ends. Nobody else commits a held row, so at the commit the private rows are the
result of the atomic RPC on the committed tables; every other step leaves the
committed tables as they are. That the log has room at the commit
comes from counting the rows that open sessions will add. The daily rows:
whoever inserts one holds its account's balance row, so nobody else can insert
it in between. The deadlock: a session that holds any account row holds its
first one; if all sessions of a cycle had the same first account, each of them
would wait for its one holder or hold it, and that holder would wait for itself.

**PushHandlerProofs**, under `PushAssumption` (message ids are unique within a
subscription, a message is about a row of its kind and an order event names a
day) and `RowAssumption` (the columns of those rows have their types; values,
missing teams and repeated items are arbitrary): `PushAppliedOnce`,
`PushTypes`, `PushOrderNetsOut`, `PushDebtExplained`.

An execution that has inserted the inbox row and not ended has the only claim
on the key, and the key is not committed; therefore each commit is the first
application of its message, and everything else stutters. `PushBooks` says what
the tables are then: the *books* of the set of messages applied so far, a
statement that does not know their order. The step that adds a message
(`PostBooks`) has two halves.

* From code to sums: the postings of a message are a sequence, concatenated
  row by row (`FlattenSum`), and posting it is a fold. `PostAllLemma` unfolds it:
  every balance, and what is booked for an order, moves by the sum of what the
  postings move, one by one.
* From sums to rows: `OwesLemma`, `ItemsLemma`, `OrderLemma`, `ProblemLemma` and
  `PostingsLemma` show that this sum is, from either side of the pair and for
  degenerate rows too, the debt that the definition `DebtOf` reads off the rows
  without mentioning postings.

**ReconcileProofs**, under `ReconcileAssumption`: `ReconcileTypes`,
`ReconcileLosesNothing` and the action property `ReconcileSkipsNoTeam`. For a
debt that a call has read, the gap to the legacy invoices is what the call
still has to post plus the drift since the read. A debt appears at most once
in what a call has read, and an invoice's change moves the sum of the unpaid
ones by exactly its term.

**OweLimitProofs**, under `OweLimitAssumption`: `OweLimitTypes`,
`OweLimitOneRule`, the action property `OweLimitRulesFollowCalls`, and
`OweLimitAnswers`. A row that a set has found is locked by it, a row that it
inserts is new and alone for its pair, ids are fresh, and a set for a pair with
a legacy row works on that row. For the answers the fold of the evaluation is
unfolded row by row. After each row the limits "know" exactly the rows seen so
far, in whatever order, and the rule `OneRule` makes unique decides.

**SubmissionsProofs**, under `SubmissionsAssumption`: for any number of
mutations of a loaded object `SubmissionsTypes`, `SubmissionsRefund` and the
action property `SubmissionsReadjust`; and under MaxCalls = 1
`SubmissionsExclusive`, `SubmissionsPaid`, `SubmissionsDecidedOnce`. That
hypothesis is needed: `submissions_reuse` shows `DecidedOnce` violated with two
(finding 4). The invariant says that per pair what was paid under reservation
is what the adjustments gave back, that a submission costs what its invoices
cost, that an accepted one has nothing left to pay, and that the object is a
load of what is stored; with one mutation it also says that no invoice is in
two submissions that wait or were accepted, whose submission paid an invoice,
and which decisions were taken. Then, under `QueryAssumption`,
`QueryJoinsSound` of InvoiceQuery: what is joined, filtered or flagged is about
tables that are there, and a builder that is the only one for invoices knows
all tables of the statement.

Only model-checked is liveness (`EveryRequestEnds`, `EventuallyApplied`,
`Converges`, `EverySetReturns`, `CacheCatchesUp`): the provers reason neither
about fairness nor about ENABLED. Every invariant and every action property
without fairness that a passing run checks is also a theorem. The composition of
OrderFlow takes the steps of its parts as atomic; for the ledger and the inbox
that is `TxnSerializable` and `PushAppliedOnce`, but the composed statement, with
all transactions interleaved, is not stated.

## 5. Findings

1. *PAYABLE above zero* (`push_sign`). A cancellation always moves PAYABLE up by
   the fee. Handled before its creation, or after the debt was paid, it leaves
   PAYABLE positive, although `accept_payment.go` calls `<= 0` the convention.
   The split of a payment still works then (`SettlementExact` covers it): it
   takes the debt for zero.
2. *Overlapping reconciliations* (`reconcile_overlap`). Two TeamReconcile calls
   that read the same gap both post it, against the comment that the posting of
   deltas is idempotent. A later undisturbed call repairs it (`Converges`).
3. *Settled pairs are not reconciled* (`reconcile_truth`). The query starts from
   unpaid invoices, so a pair whose invoices have all been paid or canceled is
   not listed and keeps its v2 debt. `Converges` is stated for owed pairs only.
4. *A second decision on one object* (`submissions_reuse`). The guard against
   deciding a submission twice reads a status that is not refreshed; accept
   followed by reject on one loaded object leaves a rejected submission with
   paid invoices. With one call per load `DecidedOnce` holds.

## 6. Abstractions and what is left out

* Money is an integer number of its smallest unit; float64 rounding and the
  `reconcileEpsilon` tolerance for it are not modelled.
* Requests are what the handlers see after authentication and decoding. This
  repository does not exclude payments of a negative amount;
  `SettlementExact`, and `PaymentsBookedOnce` for accepted payments, are stated
  for amounts from 0 up.
* Rows of the selling and warehouse services do not change between the events
  about them. If they did, a cancellation might not undo its creation (hazard
  without a property).
* A publisher that sends one event under two message ids gets it applied twice;
  the inbox keys on the message id.
* Reconcile's gap and an order's own posting can both book the same invoice
  until the next run: the posting of others in the model.
* Legacy invoices join distinct teams. Submissions takes it, as the tests do,
  that callers load FOR UPDATE NOWAIT and join the invoices; callers are not in
  this repository.
* An invoice that is readjusted away while it waits in a submission still
  counts in the payment history's amount; nothing in the repository says what
  should happen (hazard without a property).
* The owe-limit answer is advisory. `DebtBounded` says how far two orders that
  pass the same check can exceed a limit: by less than one highest fee for each
  order in flight. What a receiver owes because it was overpaid is not counted,
  since no gate is asked for it.
* Views. Requests that a handler refuses (no window, no metric) show nothing and
  are left out; so are the direction in which the timeline's ids are listed, the
  order and paging of the log and payment lists, which `db_connect` does, their
  filters by order and by the creation time of a payment, and the sort by team
  type, which has the shape of the one by name. Sums of float64 do not depend on
  the order of addition here.
* LegacyLimit: the cache is external and modelled from its use: an entry is
  replaced by a later `Add` and goes when its minute is over. Two racing first
  sets of one pair insert two rows and no index forbids it; `CacheCatchesUp`
  takes either row's answer (hazard without a property). `LimitInvoiceList` and
  `DeterminedLimitInvoice` only read, and compute nothing from what they read
  but the join with names and sums; they are not modelled.
* InvoiceQuery: the kind of a join and the values of conditions. That
  `JoinPaymentSubmission` passes its kind on to the last join only, so that a
  LEFT JOIN still inner-joins the link table, is therefore not seen here.
* Wiring and process start (`register.go`, `cmd/`) have no state but which
  handlers exist; not modelled.

## 7. Plan

Done in this order: the ledger and its payments, their transactions, the proofs
about them, the push handler, reconciliation, owe limits, submissions; the
views, the composition, the query builders, the legacy limit service; the
proofs about the transactions and their refinement, the push handler's
refinement and its books, reconciliation, owe limits, submissions and the query
builders, the reports, and OrderFlow.
What remains would be new models rather than proofs: the composition at the
level of SQL statements instead of RPCs, and rows of other services that change
between two events about them.
