----------------------------- MODULE LedgerOps -----------------------------
(***************************************************************************)
(* The double-entry primitives of invoice_v2/create_balance_log.go, as     *)
(* operators on the value of the ledger tables.                            *)
(*                                                                         *)
(* A ledger value d maps every account <<team, for_team, balance_type>> to *)
(* its team_balances row together with the rows keyed by the same account: *)
(* its balance_change_logs in id order and its team_balance_daily_logs by  *)
(* Jakarta day.  Money is an integer number of its smallest unit: the      *)
(* rounding of the float64 columns is not modelled.                        *)
(***************************************************************************)
EXTENDS Integers, Sequences, Functions

CONSTANTS Team,    \* the team ids that occur in requests and in rows
          NoTeam,  \* the id 0 of an unset field; it may or may not be in Team
          Day,     \* the Jakarta days a transaction's clock can name
          Ref,     \* what a log row is attributed to: a payment or an order
          NoRef    \* the attribution of a row that names neither

ASSUME RefAssumption == NoRef \in Ref

(* The two valid balance types; a request may also leave the type unset.   *)
BalanceType == {"PAYABLE", "RECEIVABLE"}

ChangeType == {"UNSPECIFIED", "PAYMENT", "PRODUCT_FEE", "WAREHOUSE_FEE",
               "COD_FEE", "STOCK_PROBLEM", "ADJUSTMENT"}

oppositeBalance(bt) == IF bt = "PAYABLE" THEN "RECEIVABLE" ELSE "PAYABLE"

Account == Team \X Team \X BalanceType

(* The account of the counter leg: teams swapped, opposite balance type.   *)
Mirror(a) == <<a[2], a[1], oppositeBalance(a[3])>>

LogEntry == [kind : ChangeType, change : Int, balance : Int, day : Day, ref : Ref]

DailyRow == [present : BOOLEAN, start : Int, end : Int, change : Int]

AccountRow == [present : BOOLEAN, balance : Int, pending : Int,
               log : Seq(LogEntry), daily : [Day -> DailyRow]]

Ledgers == [Account -> AccountRow]

NoDaily == [present |-> FALSE, start |-> 0, end |-> 0, change |-> 0]

(* An account with no team_balances row.  The values the row would be      *)
(* inserted with are already in place.                                     *)
NoAccount == [present |-> FALSE, balance |-> 0, pending |-> 0,
              log |-> <<>>, daily |-> [day \in Day |-> NoDaily]]

EmptyLedger == [a \in Account |-> NoAccount]
-----------------------------------------------------------------------------
(* Operators on one account row r.                                         *)

lockOrCreateBalance(r) == [r EXCEPT !.present = TRUE]

adjustPendingRow(r, delta) ==
  [lockOrCreateBalance(r) EXCEPT !.pending = r.pending + delta]

(* Faulty variant: the balance is recorded before the change.              *)
logEntryBefore(r, kind, delta, day, ref) ==
  [kind |-> kind, change |-> delta, balance |-> r.balance, day |-> day, ref |-> ref]

(* The log row of a change: it records the balance the change results in.  *)
logEntry(r, kind, delta, day, ref) ==
  [kind |-> kind, change |-> delta, balance |-> r.balance + delta,
   day |-> day, ref |-> ref]

(* The balance update and the log insert of postEntry.                     *)
moveBalance(r, kind, delta, day, ref) ==
  [lockOrCreateBalance(r) EXCEPT
     !.balance = r.balance + delta,
     !.log = Append(r.log, logEntry(r, kind, delta, day, ref))]

(* Faulty variant: every change restarts the day.                          *)
upsertDailyLogRestart(c, prev, new, delta) ==
  [present |-> TRUE, start |-> prev, end |-> new, change |-> c.change + delta]

(* The daily row c after a change that took the balance from prev to new.  *)
upsertDailyLog(c, prev, new, delta) ==
  IF c.present
  THEN [c EXCEPT !.change = c.change + delta, !.end = new]
  ELSE [present |-> TRUE, start |-> prev, end |-> new, change |-> delta]

postEntryRow(r, kind, delta, day, ref) ==
  [moveBalance(r, kind, delta, day, ref) EXCEPT
     !.daily = [r.daily EXCEPT
        ![day] = upsertDailyLog(r.daily[day], r.balance, r.balance + delta, delta)]]

(* What the rows of a log that are attributed to ref add up to.            *)
Booked(log, ref) ==
  SumFunctionOnSet([i \in DOMAIN log |-> log[i].change],
                   {i \in DOMAIN log : log[i].ref = ref})
-----------------------------------------------------------------------------
(* Operators on the ledger d.                                              *)

postEntry(d, a, kind, delta, day, ref) ==
  [d EXCEPT ![a] = postEntryRow(d[a], kind, delta, day, ref)]

adjustPending(d, a, delta) == [d EXCEPT ![a] = adjustPendingRow(d[a], delta)]

(* Faulty variant: both legs carry the same sign.                          *)
postDoubleEntrySameSign(d, a, kind, amount, day, ref) ==
  postEntry(postEntry(d, a, kind, amount, day, ref),
            Mirror(a), kind, amount, day, ref)

postDoubleEntry(d, a, kind, amount, day, ref) ==
  postEntry(postEntry(d, a, kind, amount, day, ref),
            Mirror(a), kind, -amount, day, ref)

(* The validation of PostBalanceLog, which every posting but those of an   *)
(* accepted payment goes through.                                          *)
ValidPosting(team, forTeam, bt, kind, amount) ==
  /\ bt \in BalanceType
  /\ team # NoTeam
  /\ forTeam # NoTeam
  /\ team # forTeam
  /\ amount > 0
  /\ kind # "UNSPECIFIED"

(* The in-flight amount of a payment from team to forTeam, on both sides.  *)
adjustPendingPair(d, team, forTeam, delta) ==
  adjustPending(adjustPending(d, <<team, forTeam, "PAYABLE">>, delta),
                <<forTeam, team, "RECEIVABLE">>, delta)
=============================================================================
