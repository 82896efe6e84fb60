------------------------------- MODULE Ledger -------------------------------
(***************************************************************************)
(* The v2 ledger as its clients see it: every RPC of invoice_v2 that       *)
(* changes the ledger or a payment is one atomic step on the committed     *)
(* tables.  LedgerTxn shows that the SQL transactions of these RPCs        *)
(* implement this specification.                                           *)
(***************************************************************************)
EXTENDS LedgerOps

CONSTANTS PaymentId,   \* ids of invoice_payments
          PostKind,    \* change types of CreateBalanceLog requests
          PostAmount,  \* amounts of CreateBalanceLog requests
          PayAmount,   \* amounts of CreatePayment requests
          MaxLog       \* bound on the log rows of one account

ASSUME LedgerAssumption ==
  /\ PaymentId \subseteq Ref
  /\ NoRef \notin PaymentId
  /\ PostKind \subseteq ChangeType
  /\ PostAmount \subseteq Int
  /\ PayAmount \subseteq Int
  /\ MaxLog \in Nat

VARIABLES db,       \* team_balances, balance_change_logs, team_balance_daily_logs
          payments  \* invoice_payments

vars == <<db, payments>>

NoPayment == [status |-> "NONE"]

(* acceptedAt is the nullable accepted_at: no day, or the day of acceptance. *)
InvoicePayment == [status : {"PENDING", "ACCEPTED", "REJECTED"},
                   team : Team, forTeam : Team, amount : Int, acceptedAt : SUBSET Day]

Init ==
  /\ db = EmptyLedger
  /\ payments = [id \in PaymentId |-> NoPayment]
-----------------------------------------------------------------------------
(* What each transaction computes from the tables it has locked.           *)

(* Faulty variant: the whole payment is taken for debt.                    *)
settledPartUncapped(balance, amount) == amount

(* The debt a payment of this amount settles when the payer's PAYABLE      *)
(* stands at balance; the rest of the payment is an overpayment.           *)
settledPart(balance, amount) ==
  LET outstanding == IF balance < 0 THEN -balance ELSE 0
  IN  IF amount > outstanding THEN outstanding ELSE amount

(* The postings of an accepted payment p: the debt it settles on the       *)
(* payer's PAYABLE, the surplus as a credit on the payer's RECEIVABLE.     *)
settle(d, id, p, day) ==
  LET pay == <<p.team, p.forTeam, "PAYABLE">>
      rec == <<p.team, p.forTeam, "RECEIVABLE">>
      s == settledPart(d[pay].balance, p.amount)
      paid == IF s > 0
              THEN postDoubleEntry(d, pay, "PAYMENT", s, day, id) ELSE d
  IN  IF p.amount - s > 0
      THEN postDoubleEntry(paid, rec, "PAYMENT", p.amount - s, day, id)
      ELSE paid

(* Faulty variant: a decided payment can be decided again.                 *)
loadPendingPaymentAnyStatus(id, team, forTeam) ==
  /\ payments[id] # NoPayment
  /\ payments[id].team = team
  /\ payments[id].forTeam = forTeam

loadPendingPayment(id, team, forTeam) ==
  /\ payments[id] # NoPayment
  /\ payments[id].team = team
  /\ payments[id].forTeam = forTeam
  /\ payments[id].status = "PENDING"
-----------------------------------------------------------------------------
CreateBalanceLog(team, forTeam, bt, kind, amount, day) ==
  /\ ValidPosting(team, forTeam, bt, kind, amount)
  /\ db' = postDoubleEntry(db, <<team, forTeam, bt>>, kind, amount, day, NoRef)
  /\ UNCHANGED payments

(* Faulty variant: the status is left unset.                               *)
CreatePaymentNoStatus(id, team, forTeam, amount) ==
  /\ payments[id] = NoPayment
  /\ team # forTeam
  /\ payments' = [payments EXCEPT
       ![id] = [status |-> "UNSPECIFIED", team |-> team, forTeam |-> forTeam,
                amount |-> amount, acceptedAt |-> {}]]
  /\ db' = adjustPendingPair(db, team, forTeam, amount)

CreatePayment(id, team, forTeam, amount) ==
  /\ payments[id] = NoPayment
  /\ team # forTeam
  /\ payments' = [payments EXCEPT
       ![id] = [status |-> "PENDING", team |-> team, forTeam |-> forTeam,
                amount |-> amount, acceptedAt |-> {}]]
  /\ db' = adjustPendingPair(db, team, forTeam, amount)

AcceptPayment(id, team, forTeam, day) ==
  /\ loadPendingPayment(id, team, forTeam)
  /\ LET p == payments[id]
     IN  db' = adjustPendingPair(settle(db, id, p, day), team, forTeam, -p.amount)
  /\ payments' = [payments EXCEPT ![id].status = "ACCEPTED", ![id].acceptedAt = {day}]

(* Faulty variant: the in-flight amount is not released.                   *)
RejectPaymentKeepsPending(id, team, forTeam) ==
  /\ loadPendingPayment(id, team, forTeam)
  /\ payments' = [payments EXCEPT ![id].status = "REJECTED"]
  /\ UNCHANGED db

RejectPayment(id, team, forTeam) ==
  /\ loadPendingPayment(id, team, forTeam)
  /\ db' = adjustPendingPair(db, team, forTeam, -payments[id].amount)
  /\ payments' = [payments EXCEPT ![id].status = "REJECTED"]

(* The bound: nothing more is posted once an account's log is full.        *)
LogRoom == \A a \in Account : Len(db[a].log) < MaxLog

Next ==
  \/ \E team, forTeam \in Team \cup {NoTeam}, bt \in BalanceType \cup {"UNSPECIFIED"},
        kind \in PostKind, amount \in PostAmount, day \in Day :
       LogRoom /\ CreateBalanceLog(team, forTeam, bt, kind, amount, day)
  \/ \E team, forTeam \in Team, id \in PaymentId :
       \/ \E amount \in PayAmount : CreatePayment(id, team, forTeam, amount)
       \/ \E day \in Day : LogRoom /\ AcceptPayment(id, team, forTeam, day)
       \/ RejectPayment(id, team, forTeam)

Spec == Init /\ [][Next]_vars
-----------------------------------------------------------------------------
(* Every table row has its type.                                           *)
TypeOK ==
  /\ db \in Ledgers
  /\ payments \in [PaymentId -> InvoicePayment \cup {NoPayment}]

(* What a team owes is what its counterpart is owed: an account and its    *)
(* mirror carry opposite balances and the same in-flight amount, and one   *)
(* has a row exactly when the other has.  postDoubleEntry and the pairs of *)
(* adjustPending calls of the payment RPCs must keep it together.          *)
Mirrored(d) ==
  \A a \in Account :
    /\ d[a].balance + d[Mirror(a)].balance = 0
    /\ d[a].pending = d[Mirror(a)].pending
    /\ d[a].present <=> d[Mirror(a)].present

MirrorBooks == Mirrored(db)

(* Replaying an account's balance_change_logs from zero reproduces every   *)
(* recorded running balance and ends at the stored balance, as the balance *)
(* timeline assumes.                                                       *)
Replays(r) ==
  LET before(i) == IF i = 1 THEN 0 ELSE r.log[i - 1].balance
  IN  /\ \A i \in 1 .. Len(r.log) : r.log[i].balance = before(i) + r.log[i].change
      /\ r.balance = IF Len(r.log) = 0 THEN 0 ELSE r.log[Len(r.log)].balance

LogReplays == \A a \in Account : Replays(db[a])

(* A daily row exists exactly for the days the account's log names, starts *)
(* at the balance before the first change posted for that day and ends at  *)
(* the balance after the last one, whatever order the days came in.        *)
SpansDay(r, day) ==
  LET on == {i \in 1 .. Len(r.log) : r.log[i].day = day}
  IN  IF r.daily[day].present
      THEN \E first, last \in on :
             /\ \A i \in on : first <= i /\ i <= last
             /\ r.daily[day].start = r.log[first].balance - r.log[first].change
             /\ r.daily[day].end = r.log[last].balance
      ELSE on = {}

DailySpansLog == \A a \in Account, day \in Day : SpansDay(db[a], day)

(* What the log says payment id moved in the payer's favour.               *)
BookedFor(id, team, forTeam) ==
  Booked(db[<<team, forTeam, "PAYABLE">>].log, id)
    + Booked(db[<<team, forTeam, "RECEIVABLE">>].log, id)

(* A payment is booked in full exactly once, when it is accepted; a        *)
(* pending or rejected one is not in the log at all.                       *)
PaymentsBookedOnce ==
  \A id \in PaymentId :
    LET p == payments[id]
    IN  IF p.status = "ACCEPTED"
        THEN p.amount >= 0 => BookedFor(id, p.team, p.forTeam) = p.amount
        ELSE \A a \in Account : \A i \in DOMAIN db[a].log : db[a].log[i].ref # id

(* The payer's position against the receiver: what it is owed less what it *)
(* owes, PAYABLE being stored negative.                                    *)
NetPosition(d, team, forTeam) ==
  d[<<team, forTeam, "PAYABLE">>].balance + d[<<team, forTeam, "RECEIVABLE">>].balance

(* Accepting a payment moves the payer's net position by its amount, never *)
(* pushes a debt past zero, and grants no credit while debt is left.       *)
SettlementStep ==
  \A id \in PaymentId :
    LET p == payments[id]
        pay == <<p.team, p.forTeam, "PAYABLE">>
        rec == <<p.team, p.forTeam, "RECEIVABLE">>
    IN  p.status = "PENDING" /\ payments'[id].status = "ACCEPTED" /\ p.amount >= 0 =>
          /\ NetPosition(db', p.team, p.forTeam)
               = NetPosition(db, p.team, p.forTeam) + p.amount
          /\ db[pay].balance <= 0 => db'[pay].balance <= 0
          /\ db'[rec].balance > db[rec].balance => db'[pay].balance >= 0

SettlementExact == [][SettlementStep]_vars
=============================================================================
