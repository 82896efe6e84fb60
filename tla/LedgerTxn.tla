----------------------------- MODULE LedgerTxn -----------------------------
(***************************************************************************)
(* The RPCs of Ledger as the SQL transactions they run: each handler is a  *)
(* program of statements, and the statements of concurrent sessions        *)
(* interleave under the rules of a READ COMMITTED database with row locks  *)
(* (the database is external: it is modelled by how the code uses it).     *)
(*   - SELECT ... FOR UPDATE of a committed row waits for the row's lock   *)
(*     and reads the latest committed version; of a missing row it locks   *)
(*     nothing, even while another session is inserting that row;          *)
(*   - an INSERT of a key another session has inserted but not committed   *)
(*     waits for it; one of a committed key fails (uniq_team_balances);    *)
(*   - any error rolls the transaction back and ends the request;          *)
(*   - a cycle of waiting sessions is broken by failing one of them.       *)
(***************************************************************************)
EXTENDS LedgerOps, SequencesExt

CONSTANTS Session,    \* concurrent connections
          Free,       \* the holder of a row nobody holds
          PaymentId,  \* ids of invoice_payments
          Request,    \* the requests clients may send
          MaxTxn      \* bound on the transactions started

(* What a client can ask for: the fields of the four requests and the day  *)
(* on which each is executed.                                              *)
Requests ==
  [op : {"post"}, team : Team \cup {NoTeam}, forTeam : Team \cup {NoTeam},
   bt : BalanceType \cup {"UNSPECIFIED"}, kind : ChangeType, amount : Int, day : Day]
  \cup [op : {"create"}, team : Team, forTeam : Team, amount : Int, day : Day]
  \cup [op : {"accept", "reject"}, id : PaymentId, team : Team, forTeam : Team, day : Day]

(* Rows of different tables are different rows, whatever their keys; ids   *)
(* are integers of 64 bits, and days are numbered.                         *)
ASSUME TxnAssumption ==
  /\ Free \notin Session
  /\ PaymentId \subseteq Ref \ {NoRef}
  /\ PaymentId \cap Account = {}
  /\ Request \subseteq Requests
  /\ MaxTxn \in Nat
  /\ IsFiniteSet(Team) /\ IsFiniteSet(PaymentId) /\ Day \subseteq Nat

VARIABLES db, payments,  \* the committed tables
          lock,          \* the session that holds a row, or its uncommitted key
          sess,          \* what each session is executing
          started        \* transactions started so far (bound only)

vars == <<db, payments, lock, sess, started>>

Posts == {r \in Request : r.op = "post"}
Creates == {r \in Request : r.op = "create"}

(* The tables as clients see them; the bound on its log is never met here. *)
L == INSTANCE Ledger WITH
       PostKind <- {r.kind : r \in Posts}, PostAmount <- {r.amount : r \in Posts},
       PayAmount <- {r.amount : r \in Creates}, MaxLog <- MaxTxn + 1

NoPayment == L!NoPayment

Idle == [pc |-> "idle", req |-> [op |-> "none"], todo |-> <<>>, missed |-> FALSE,
         work |-> EmptyLedger, id |-> NoRef, pay |-> NoPayment]

Row == Account \cup PaymentId

Init ==
  /\ db = EmptyLedger
  /\ payments = [id \in PaymentId |-> NoPayment]
  /\ lock = [row \in Row |-> Free]
  /\ sess = [s \in Session |-> Idle]
  /\ started = 0
-----------------------------------------------------------------------------
(* Statements, and the statement sequences of the handlers.                *)

Statement(op) == [op |-> op, acct |-> <<>>, kind |-> "", delta |-> 0]
OnAccount(op, a, kind, delta) == [op |-> op, acct |-> a, kind |-> kind, delta |-> delta]

Legs(a, kind, amount) ==
  << OnAccount("entry", a, kind, amount), OnAccount("entry", Mirror(a), kind, -amount) >>

PendingPair(team, forTeam, delta) ==
  << OnAccount("pend", <<team, forTeam, "PAYABLE">>, "", delta),
     OnAccount("pend", <<forTeam, team, "RECEIVABLE">>, "", delta) >>

(* Faulty variant: a new payment takes the receiver's row first.           *)
ProgramReversed(r) ==
  CASE r.op = "post" -> Legs(<<r.team, r.forTeam, r.bt>>, r.kind, r.amount)
    [] r.op = "create" -> << Statement("insertPayment") >>
                            \o Reverse(PendingPair(r.team, r.forTeam, r.amount))
    [] r.op \in {"accept", "reject"} -> << Statement("loadPayment") >>

(* The first statements of a request; the rest of accept and reject        *)
(* depends on the payment row they load.                                   *)
Program(r) ==
  CASE r.op = "post" -> Legs(<<r.team, r.forTeam, r.bt>>, r.kind, r.amount)
    [] r.op = "create" -> << Statement("insertPayment") >>
                            \o PendingPair(r.team, r.forTeam, r.amount)
    [] r.op \in {"accept", "reject"} -> << Statement("loadPayment") >>

AfterLoad(r, p) ==
  IF r.op = "accept"
  THEN << OnAccount("split", <<p.team, p.forTeam, "PAYABLE">>, "", 0) >>
         \o PendingPair(p.team, p.forTeam, -p.amount) \o << Statement("setAccepted") >>
  ELSE PendingPair(p.team, p.forTeam, -p.amount) \o << Statement("setRejected") >>

(* The postings AcceptPayment decides on when it has read the balance.     *)
SplitPayment(balance, p) ==
  LET s == L!settledPart(balance, p.amount)
  IN  (IF s > 0 THEN Legs(<<p.team, p.forTeam, "PAYABLE">>, "PAYMENT", s) ELSE << >>)
      \o (IF p.amount - s > 0
          THEN Legs(<<p.team, p.forTeam, "RECEIVABLE">>, "PAYMENT", p.amount - s)
          ELSE << >>)

Valid(r) ==
  CASE r.op = "post" -> ValidPosting(r.team, r.forTeam, r.bt, r.kind, r.amount)
    [] r.op = "create" -> r.team # r.forTeam
    [] OTHER -> TRUE
-----------------------------------------------------------------------------
(* What a running session does next and whom it waits for.                 *)

Running(s) == sess[s].pc = "run"
NextIs(s, ops) == Running(s) /\ sess[s].todo # << >> /\ Head(sess[s].todo).op \in ops
BalanceOps == {"entry", "pend", "split"}
NextAccount(s) == Head(sess[s].todo).acct
Holds(s, row) == lock[row] = s

(* The row the next statement needs while another session has it locked.   *)
WaitsFor(s) ==
  LET a == NextAccount(s)
      holder == CASE NextIs(s, BalanceOps) -> IF db[a].present # sess[s].missed
                                              THEN lock[a] ELSE Free
                  [] NextIs(s, {"loadPayment"}) -> lock[sess[s].req.id]
                  [] OTHER -> Free
  IN  IF holder = s THEN Free ELSE holder

(* Sessions that wait for each other in a cycle.                           *)
Cycle(C) == C # {} /\ {WaitsFor(s) : s \in C} = C

Unlocked(s) == [row \in Row |-> IF lock[row] = s THEN Free ELSE lock[row]]

(* The statement is done and the session goes on with the statements rest. *)
Continue(s, rest) == [sess[s] EXCEPT !.todo = rest, !.missed = FALSE]

(* Faulty variant: the error path returns without ending the transaction.  *)
RollbackKeepsLocks(s) ==
  /\ sess' = [sess EXCEPT ![s] = Idle]
  /\ UNCHANGED <<db, payments, lock, started>>

Rollback(s) ==
  /\ lock' = Unlocked(s)
  /\ sess' = [sess EXCEPT ![s] = Idle]
  /\ UNCHANGED <<db, payments, started>>
-----------------------------------------------------------------------------
(* A session's private version of a row it has just locked: the columns of *)
(* team_balances, and none yet of the log and daily rows it will write.    *)
PrivateRow(c) == [c EXCEPT !.log = << >>, !.daily = NoAccount.daily]

(* The next statement applied to the account row w of session s.           *)
Apply(s, w) ==
  LET q == sess[s]
      h == Head(q.todo)
      moved == CASE h.op = "entry" -> moveBalance(w, h.kind, h.delta, q.req.day, q.id)
                 [] h.op = "pend" -> adjustPendingRow(w, h.delta)
                 [] OTHER -> lockOrCreateBalance(w)
      rest == CASE h.op = "entry" -> << [h EXCEPT !.op = "daily"] >> \o Tail(q.todo)
                [] h.op = "split" -> SplitPayment(w.balance, q.pay) \o Tail(q.todo)
                [] OTHER -> Tail(q.todo)
  IN  sess' = [sess EXCEPT ![s] = [Continue(s, rest) EXCEPT !.work[h.acct] = moved]]

(* The bounds: transactions started, and ids left for the payments being   *)
(* created.                                                                *)
WithinBounds(r) ==
  /\ started < MaxTxn
  /\ r.op = "create" =>
       Cardinality({s \in Session : Running(s) /\ sess[s].req.op = "create"})
         < Cardinality({id \in PaymentId : payments[id] = NoPayment})

Begin(s, r) ==
  /\ sess[s] = Idle
  /\ WithinBounds(r)
  /\ started' = started + 1
  /\ sess' = IF Valid(r)
             THEN [sess EXCEPT ![s] = [Idle EXCEPT !.pc = "run", !.req = r,
                                                   !.todo = Program(r)]]
             ELSE sess
  /\ UNCHANGED <<db, payments, lock>>

(* Faulty variant: the row is read without waiting for its lock.           *)
SelectNoWait(s) ==
  /\ NextIs(s, BalanceOps) /\ ~sess[s].missed
  /\ LET a == NextAccount(s)
     IN  \/ /\ Holds(s, a)
            /\ Apply(s, sess[s].work[a])
            /\ UNCHANGED lock
         \/ /\ db[a].present
            /\ Apply(s, PrivateRow(db[a]))
            /\ lock' = [lock EXCEPT ![a] = s]
  /\ UNCHANGED <<db, payments, started>>

(* SELECT ... FOR UPDATE finds the row, this session's own or a committed  *)
(* one whose lock is free; the statement's update follows.                 *)
SelectForUpdate(s) ==
  /\ NextIs(s, BalanceOps) /\ ~sess[s].missed
  /\ LET a == NextAccount(s)
     IN  \/ /\ Holds(s, a)
            /\ Apply(s, sess[s].work[a])
            /\ UNCHANGED lock
         \/ /\ db[a].present /\ lock[a] = Free
            /\ Apply(s, PrivateRow(db[a]))
            /\ lock' = [lock EXCEPT ![a] = s]
  /\ UNCHANGED <<db, payments, started>>

SelectMisses(s) ==
  /\ NextIs(s, BalanceOps) /\ ~sess[s].missed
  /\ ~db[NextAccount(s)].present /\ ~Holds(s, NextAccount(s))
  /\ sess' = [sess EXCEPT ![s].missed = TRUE]
  /\ UNCHANGED <<db, payments, lock, started>>

(* The INSERT of the zero row, once nobody else is inserting the same key. *)
InsertBalance(s) ==
  /\ NextIs(s, BalanceOps) /\ sess[s].missed
  /\ LET a == NextAccount(s)
     IN  /\ ~db[a].present /\ lock[a] = Free
         /\ Apply(s, PrivateRow(NoAccount))
         /\ lock' = [lock EXCEPT ![a] = s]
  /\ UNCHANGED <<db, payments, started>>

(* The row was committed after the SELECT missed it: uniq_team_balances.   *)
UniqueViolation(s) ==
  /\ NextIs(s, BalanceOps) /\ sess[s].missed
  /\ db[NextAccount(s)].present
  /\ Rollback(s)

(* Another session's uncommitted daily row of the same account and day.    *)
DailyTaken(s) ==
  \E o \in Session \ {s} : sess[o].work[NextAccount(s)].daily[sess[s].req.day].present

(* The daily row is found in the session's own writes or the committed     *)
(* table, and updated or inserted.                                         *)
UpsertDaily(s) ==
  /\ NextIs(s, {"daily"})
  /\ ~DailyTaken(s)
  /\ LET h == Head(sess[s].todo)
         day == sess[s].req.day
         w == sess[s].work[h.acct]
         c == IF w.daily[day].present THEN w.daily[day] ELSE db[h.acct].daily[day]
     IN  sess' = [sess EXCEPT ![s] =
           [Continue(s, Tail(sess[s].todo)) EXCEPT
              !.work[h.acct].daily[day] =
                 upsertDailyLog(c, w.balance - h.delta, w.balance, h.delta)]]
  /\ UNCHANGED <<db, payments, lock, started>>

InsertPayment(s, id) ==
  /\ NextIs(s, {"insertPayment"})
  /\ payments[id] = NoPayment /\ lock[id] = Free
  /\ lock' = [lock EXCEPT ![id] = s]
  /\ LET r == sess[s].req
     IN  sess' = [sess EXCEPT ![s] =
           [Continue(s, Tail(sess[s].todo)) EXCEPT
              !.id = id,
              !.pay = [status |-> "PENDING", team |-> r.team, forTeam |-> r.forTeam,
                       amount |-> r.amount, acceptedAt |-> {}]]]
  /\ UNCHANGED <<db, payments, started>>

Pending(r) ==
  LET p == payments[r.id]
  IN  p # NoPayment /\ p.team = r.team /\ p.forTeam = r.forTeam /\ p.status = "PENDING"

LoadPendingPayment(s) ==
  /\ NextIs(s, {"loadPayment"})
  /\ LET r == sess[s].req
         p == payments[r.id]
     IN  /\ lock[r.id] = Free
         /\ Pending(r)
         /\ lock' = [lock EXCEPT ![r.id] = s]
         /\ sess' = [sess EXCEPT ![s] = [Continue(s, AfterLoad(r, p)) EXCEPT
                                           !.id = r.id, !.pay = p]]
  /\ UNCHANGED <<db, payments, started>>

(* Not found (an uncommitted payment is not visible), of another pair, or  *)
(* already decided.                                                        *)
RefusePayment(s) ==
  /\ NextIs(s, {"loadPayment"})
  /\ LET r == sess[s].req
     IN  /\ payments[r.id] # NoPayment => lock[r.id] = Free
         /\ ~Pending(r)
  /\ Rollback(s)

SetStatus(s) ==
  /\ NextIs(s, {"setAccepted", "setRejected"})
  /\ LET done == IF NextIs(s, {"setAccepted"})
                 THEN [sess[s].pay EXCEPT !.status = "ACCEPTED",
                                          !.acceptedAt = {sess[s].req.day}]
                 ELSE [sess[s].pay EXCEPT !.status = "REJECTED"]
     IN  sess' = [sess EXCEPT ![s] = [Continue(s, Tail(sess[s].todo)) EXCEPT !.pay = done]]
  /\ UNCHANGED <<db, payments, lock, started>>

(* A committed row after a commit of the private version w.                *)
Merge(c, w) ==
  [w EXCEPT !.log = c.log \o w.log,
            !.daily = [day \in Day |-> IF w.daily[day].present THEN w.daily[day]
                                       ELSE c.daily[day]]]

Commit(s) ==
  /\ Running(s) /\ sess[s].todo = << >>
  /\ db' = [a \in Account |-> IF Holds(s, a) THEN Merge(db[a], sess[s].work[a]) ELSE db[a]]
  /\ payments' = [id \in PaymentId |-> IF Holds(s, id) THEN sess[s].pay ELSE payments[id]]
  /\ lock' = Unlocked(s)
  /\ sess' = [sess EXCEPT ![s] = Idle]
  /\ UNCHANGED started

(* The database fails a session that waits in a cycle.                     *)
DeadlockVictim(s) ==
  /\ Running(s)
  /\ \E C \in SUBSET Session : s \in C /\ Cycle(C)
  /\ Rollback(s)

(* The process or its connection dies, or the request is cancelled.        *)
Crash(s) == Running(s) /\ Rollback(s)

Execute(s) ==
  \/ SelectForUpdate(s) \/ SelectMisses(s) \/ InsertBalance(s) \/ UniqueViolation(s)
  \/ UpsertDaily(s) \/ LoadPendingPayment(s) \/ RefusePayment(s) \/ SetStatus(s)
  \/ \E id \in PaymentId : InsertPayment(s, id)
  \/ Commit(s) \/ DeadlockVictim(s)

Next ==
  \E s \in Session :
    \/ \E r \in Request : Begin(s, r)
    \/ Execute(s)
    \/ Crash(s)

Spec == Init /\ [][Next]_vars

(* The database executes the statements of every session and looks for     *)
(* deadlocks; clients need not send requests and nothing need crash.       *)
FairSpec == Spec /\ \A s \in Session : WF_vars(Execute(s))
-----------------------------------------------------------------------------
(* Whatever the interleaving, rollbacks and crashes, every committed       *)
(* transaction is one atomic step of the client's view of the ledger.  A   *)
(* balance read before another session's commit and written after it, or   *)
(* a payment decided twice, would be no such step.                         *)
Serializable == L!Spec

(* The daily row is only protected by the lock on the balance row taken    *)
(* before it: no session ever finds another's daily row in its way, so     *)
(* uniq_team_balance_daily_logs cannot fail a posting.                     *)
DailyNeverContended ==
  \A s \in Session : NextIs(s, {"daily"}) => ~DailyTaken(s)

(* The account whose row a request locks first.                            *)
FirstAccount(r) ==
  IF r.op = "post" THEN <<r.team, r.forTeam, r.bt>> ELSE <<r.team, r.forTeam, "PAYABLE">>

(* Requests that start from the same account never deadlock: payments of   *)
(* one payer to one receiver, created, accepted or rejected, and postings  *)
(* of one kind between one pair.  Every cycle has two requests that take   *)
(* the legs of a pair in opposite orders.                                  *)
DeadlockNeedsMixedOrder ==
  \A C \in SUBSET Session :
    Cycle(C) => Cardinality({FirstAccount(sess[s].req) : s \in C}) > 1

(* Every request ends, committed or failed: waiting on locks and on other  *)
(* sessions' inserts never lasts forever.                                  *)
EveryRequestEnds == \A s \in Session : Running(s) ~> ~Running(s)
=============================================================================
