----------------------------- MODULE Reconcile -----------------------------
(***************************************************************************)
(* TeamReconcile and the sync-legacy command: for each team, read the gap  *)
(* between its unpaid legacy invoices and its PAYABLE balances in one      *)
(* query, then close each gap with an ADJUSTMENT in a transaction of its   *)
(* own.  In between, and outside any transaction, legacy invoices change,  *)
(* other writers post and other callers reconcile; any posting may fail.   *)
(***************************************************************************)
EXTENDS LedgerOps, FiniteSets

CONSTANTS Caller,     \* operators of sync-legacy and clients of TeamReconcile
          Scope,      \* the sets of teams a caller reconciles one by one
          Debt,       \* the <<from, to>> pairs of teams that invoices join
          Amount,     \* unpaid totals of a pair, and amounts others post
          MaxChange,  \* bound on the changes of legacy invoices
          MaxPost,    \* bound on the postings of other writers
          MaxFail,    \* bound on the failing calls
          MaxLog      \* bound on the log rows of one account

ASSUME ReconcileAssumption ==
  /\ Scope \subseteq SUBSET Team
  /\ Debt \subseteq {pair \in Team \X Team : pair[1] # pair[2]}
  /\ Amount \subseteq Nat \ {0}
  /\ MaxChange \in Nat /\ MaxPost \in Nat /\ MaxFail \in Nat /\ MaxLog \in Nat

VARIABLES db,
          unpaid,  \* per pair, the sum of its positive not_paid invoices
          run,     \* what each caller is doing
          used     \* how much of each bound is used up

vars == <<db, unpaid, run, used>>

(* Between two calls a run has only teams to do.  During the call for team *)
(* it has the rows still to post.  owed and drift record, for the          *)
(* properties, the creditors team owed when it read, and by how much       *)
(* everyone else has moved each of its gaps since.                         *)
NoDrift == [t \in Team |-> 0]
Between(todo) ==
  [todo |-> todo, calling |-> FALSE, team |-> NoTeam, rows |-> {},
   owed |-> {}, drift |-> NoDrift]

Init ==
  /\ db = EmptyLedger
  /\ unpaid = [pair \in Debt |-> 0]
  /\ run = [c \in Caller |-> Between({})]
  /\ used = [changes |-> 0, posts |-> 0, fails |-> 0]
-----------------------------------------------------------------------------
(* delta_balance: zero when PAYABLE is minus the unpaid total.             *)
gap(pair) == unpaid[pair] + db[<<pair[1], pair[2], "PAYABLE">>].balance

(* Faulty variants: closed gaps are listed too; a debt without a balance   *)
(* row is lost in the join.                                                *)
payableReconcileAll(team) ==
  {[team |-> pair[1], forTeam |-> pair[2], delta |-> gap(pair)] :
     pair \in {p \in Debt : p[1] = team /\ unpaid[p] > 0}}

payableReconcileInnerJoin(team) ==
  {[team |-> pair[1], forTeam |-> pair[2], delta |-> gap(pair)] :
     pair \in {p \in Debt : /\ p[1] = team /\ unpaid[p] > 0 /\ gap(p) # 0
                            /\ db[<<p[1], p[2], "PAYABLE">>].present}}

(* The rows of reconcilePayableSQL; a difference below reconcileEpsilon is *)
(* zero in whole units of money.                                           *)
payableReconcile(team) ==
  {[team |-> pair[1], forTeam |-> pair[2], delta |-> gap(pair)] :
     pair \in {p \in Debt : p[1] = team /\ unpaid[p] > 0 /\ gap(p) # 0}}

(* Faulty variant: an overstated debt is accrued once more.                *)
adjustmentAccruing(row) ==
  [acct |-> <<row.forTeam, row.team, "RECEIVABLE">>,
   amount |-> IF row.delta > 0 THEN row.delta ELSE -row.delta]

(* The request that closes a gap: accrue an understated debt on the        *)
(* creditor's RECEIVABLE, pay an overstated one down on the PAYABLE.       *)
adjustment(row) ==
  IF row.delta > 0
  THEN [acct |-> <<row.forTeam, row.team, "RECEIVABLE">>, amount |-> row.delta]
  ELSE [acct |-> <<row.team, row.forTeam, "PAYABLE">>, amount |-> -row.delta]

(* What a change of the gap of pair by delta means to the runs of others.  *)
Drifted(others, pair, delta) ==
  [c \in Caller |->
     IF c \in others /\ run[c].calling /\ run[c].team = pair[1]
     THEN [run[c] EXCEPT !.drift[pair[2]] = @ + delta]
     ELSE run[c]]

LogRoom == \A a \in Account : Len(db[a].log) < MaxLog
-----------------------------------------------------------------------------
StartRun(c, teams) ==
  /\ ~run[c].calling /\ run[c].todo = {}
  /\ run' = [run EXCEPT ![c] = Between(teams)]
  /\ UNCHANGED <<db, unpaid, used>>

ReadGaps(c, team) ==
  /\ ~run[c].calling /\ team \in run[c].todo
  /\ run' = [run EXCEPT ![c] =
       [@ EXCEPT !.calling = TRUE, !.team = team,
                 !.rows = payableReconcile(team),
                 !.owed = {t \in Team : <<team, t>> \in Debt /\ unpaid[<<team, t>>] > 0},
                 !.drift = NoDrift]]
  /\ UNCHANGED <<db, unpaid, used>>

PostAdjustment(c, row, day) ==
  LET req == adjustment(row)
  IN  /\ LogRoom
      /\ row \in run[c].rows
      /\ ValidPosting(req.acct[1], req.acct[2], req.acct[3], "ADJUSTMENT", req.amount)
      /\ db' = postDoubleEntry(db, req.acct, "ADJUSTMENT", req.amount, day, NoRef)
      /\ run' = [Drifted(Caller \ {c}, <<row.team, row.forTeam>>, -row.delta)
                   EXCEPT ![c].rows = @ \ {row}]
      /\ UNCHANGED <<unpaid, used>>

EndCall(c) == run' = [run EXCEPT ![c] = Between(run[c].todo \ {run[c].team})]

Reconciled(c) ==
  /\ run[c].calling /\ run[c].rows = {}
  /\ EndCall(c)
  /\ UNCHANGED <<db, unpaid, used>>

(* Faulty variant: the first failure ends the run.                         *)
CallFailsAbort(c) ==
  /\ run[c].calling
  /\ used.fails < MaxFail
  /\ used' = [used EXCEPT !.fails = @ + 1]
  /\ run' = [run EXCEPT ![c] = Between({})]
  /\ UNCHANGED <<db, unpaid>>

(* A posting fails or the service is lost: earlier rows stay posted, later *)
(* ones are dropped, and sync-legacy goes on with the next team.           *)
CallFails(c) ==
  /\ run[c].calling
  /\ used.fails < MaxFail
  /\ used' = [used EXCEPT !.fails = @ + 1]
  /\ EndCall(c)
  /\ UNCHANGED <<db, unpaid>>

(* Legacy invoices of a pair are created, paid or canceled.                *)
InvoicesChange(pair, total) ==
  /\ used.changes < MaxChange
  /\ used' = [used EXCEPT !.changes = @ + 1]
  /\ unpaid' = [unpaid EXCEPT ![pair] = total]
  /\ run' = Drifted(Caller, pair, total - unpaid[pair])
  /\ UNCHANGED db

(* Another writer books a debt of the pair, the push handler for one.      *)
OtherPosting(pair, amount, day) ==
  /\ LogRoom
  /\ used.posts < MaxPost
  /\ used' = [used EXCEPT !.posts = @ + 1]
  /\ db' = postDoubleEntry(db, <<pair[2], pair[1], "RECEIVABLE">>, "PRODUCT_FEE",
                           amount, day, NoRef)
  /\ run' = Drifted(Caller, pair, -amount)
  /\ UNCHANGED unpaid

Step(c) ==
  \/ \E team \in Team : ReadGaps(c, team)
  \/ \E row \in run[c].rows, day \in Day : PostAdjustment(c, row, day)
  \/ Reconciled(c)

Next ==
  \/ \E c \in Caller : \/ \E teams \in Scope : StartRun(c, teams)
                       \/ Step(c)
                       \/ CallFails(c)
  \/ \E pair \in Debt, total \in Amount \cup {0} : InvoicesChange(pair, total)
  \/ \E pair \in Debt, amount \in Amount, day \in Day : OtherPosting(pair, amount, day)

SafeSpec == Init /\ [][Next]_vars

(* Operators run sync-legacy again and again, and a run does not stall.    *)
Spec ==
  /\ SafeSpec
  /\ \A c \in Caller : /\ WF_vars(Step(c))
                       /\ WF_vars(\E teams \in Scope : StartRun(c, teams))
-----------------------------------------------------------------------------
(* The types of the books, the invoice totals and the runs.                *)
TypeOK ==
  /\ db \in Ledgers
  /\ unpaid \in [Debt -> Nat]
  /\ DOMAIN run = Caller
  /\ \A c \in Caller :
       /\ run[c].todo \subseteq Team
       /\ run[c].calling => run[c].team \in run[c].todo
       /\ run[c].rows \subseteq [team : {run[c].team}, forTeam : run[c].owed, delta : Int \ {0}]
       /\ run[c].drift \in [Team -> Int]

(* A call takes its deltas from one read and posts them one by one later.  *)
(* Each debt it saw is then off by exactly what is left to post plus what  *)
(* others moved since the read: it neither loses nor repeats a change, and *)
(* a call that nobody interfered with ends with PAYABLE at the target.     *)
NoChangeLost ==
  \A c \in Caller : \A t \in run[c].owed :
    LET left == {row \in run[c].rows : row.forTeam = t}
        delta == IF left = {} THEN 0 ELSE (CHOOSE row \in left : TRUE).delta
    IN  gap(<<run[c].team, t>>) = delta + run[c].drift[t]

(* Whichever calls fail, a run is through with a team only when that       *)
(* team's own call has ended: no failure makes it skip another team.       *)
NoTeamSkipped ==
  [][\A c \in Caller : \A team \in run[c].todo \ run'[c].todo :
       run[c].calling /\ run[c].team = team]_vars

(* Once invoices, other writers and failures come to rest, re-running      *)
(* sync-legacy ends with every owed pair's PAYABLE at minus its unpaid     *)
(* total, for good.                                                        *)
Converges == <>[](\A pair \in Debt : unpaid[pair] > 0 => gap(pair) = 0)

(* team_reconcile.go: "Because it posts only the delta, re-running         *)
(* converges (delta -> 0) and is idempotent": an adjustment never moves a  *)
(* pair away from its target.                                              *)
AdjustmentsIdempotent ==
  [][\A pair \in Debt :
       (UNCHANGED unpaid /\ used' = used /\ gap(pair) = 0) =>
          unpaid'[pair] + db'[<<pair[1], pair[2], "PAYABLE">>].balance = 0]_vars

(* sync_legacy.go: the run reconciles "each team's balances to legacy      *)
(* truth": a call that nobody interfered with leaves no gap of its team.   *)
LegacyTruth ==
  \A c \in Caller : run[c].calling /\ run[c].rows = {} =>
    \A pair \in Debt :
      pair[1] = run[c].team /\ run[c].drift[pair[2]] = 0 => gap(pair) = 0
=============================================================================
