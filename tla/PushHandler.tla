---------------------------- MODULE PushHandler ----------------------------
(***************************************************************************)
(* The Pub/Sub push endpoint: concurrent handlers, each one transaction    *)
(* that inserts the message's inbox row, reads the rows the event is       *)
(* about, posts and commits.  Pub/Sub (external) delivers every message at *)
(* least once: concurrently, again after a failure, again after its        *)
(* acknowledgement got lost.  The postings of a transaction take effect at *)
(* its commit; that concurrent transactions may be seen so is what         *)
(* LedgerTxn checks.                                                       *)
(***************************************************************************)
EXTENDS PushPostings

CONSTANTS Message,   \* published messages: [id, sub, type, subject, day]
          Handler,   \* concurrent executions of the push handler
          Clock,     \* the days that the handlers' clock may show
          MaxCrash   \* bound on the executions that die midway

(* The columns that identify a delivery in the inbox.                      *)
Key(m) == <<m.id, m.sub>>

(* The rows a message can be about; a row that is not there is read as one *)
(* without teams and amounts.                                              *)
Subjects(type) ==
  CASE type \in {"OrderCreated", "OrderCanceled"} -> DOMAIN OrderRow
    [] type = "PaymentAccept"   -> DOMAIN SubmissionRow
    [] type = "RestockAccepted" -> DOMAIN RestockRow
    [] type = "StockProblem"    -> DOMAIN ProblemRow

MessageType == {"OrderCreated", "OrderCanceled", "PaymentAccept",
                "RestockAccepted", "StockProblem"}

(* Pub/Sub gives every message of a subscription an id of its own.         *)
ASSUME PushAssumption ==
  /\ \A m, n \in Message : Key(m) = Key(n) => m = n
  /\ \A m \in Message :
       m.type \in MessageType => m.subject \in Subjects(m.type) /\ m.day \in Day
  /\ Clock \subseteq Day
  /\ MaxCrash \in Nat

VARIABLES db, inbox,  \* committed tables
          handler,    \* what each execution is doing
          acked,      \* messages Pub/Sub has been told are done
          crashes

vars == <<db, inbox, handler, acked, crashes>>

NoMessage == [type |-> "none"]
Idle == [pc |-> "idle", msg |-> NoMessage]

Init ==
  /\ db = EmptyLedger
  /\ inbox = {}
  /\ handler = [h \in Handler |-> Idle]
  /\ acked = {}
  /\ crashes = 0

Receive(h, m) ==
  /\ handler[h] = Idle
  /\ handler' = [handler EXCEPT ![h] = [pc |-> "claim", msg |-> m]]
  /\ UNCHANGED <<db, inbox, acked, crashes>>

(* Another execution has inserted the same inbox row and not committed.    *)
ClaimedByOther(h) ==
  \E o \in Handler \ {h} :
    handler[o].pc = "post" /\ Key(handler[o].msg) = Key(handler[h].msg)

(* Faulty variant: the conflict is not looked at.                          *)
ClaimAnyway(h) ==
  /\ handler[h].pc = "claim"
  /\ ~ClaimedByOther(h)
  /\ handler' = [handler EXCEPT ![h].pc = "post"]
  /\ UNCHANGED <<db, inbox, acked, crashes>>

(* INSERT ... ON CONFLICT DO NOTHING, which waits for an uncommitted row   *)
(* of the same key.                                                        *)
Claim(h) ==
  /\ handler[h].pc = "claim"
  /\ ~ClaimedByOther(h)
  /\ Key(handler[h].msg) \notin inbox
  /\ handler' = [handler EXCEPT ![h].pc = "post"]
  /\ UNCHANGED <<db, inbox, acked, crashes>>

(* The response of a handler that returned nil: Pub/Sub gets it or not.    *)
Acknowledge(m) == acked' \in {acked, acked \cup {m}}

AlreadyProcessed(h) ==
  /\ handler[h].pc = "claim"
  /\ Key(handler[h].msg) \in inbox
  /\ handler' = [handler EXCEPT ![h] = Idle]
  /\ Acknowledge(handler[h].msg)
  /\ UNCHANGED <<db, inbox, crashes>>

(* PostBalanceLog accepts every posting of a message that can be decoded.  *)
Applicable(m) ==
  /\ m.type # "Malformed"
  /\ \A i \in DOMAIN Postings(m) :
       LET p == Postings(m)[i]
       IN  ValidPosting(p.acct[1], p.acct[2], p.acct[3], p.kind, p.amount)

(* Faulty variant: the inbox row lacks the subscription.                   *)
PostAndCommitById(h, today) ==
  LET m == handler[h].msg
  IN  /\ handler[h].pc = "post"
      /\ Applicable(m)
      /\ db' = PostAll(db, Postings(m), PostingDay(m, today))
      /\ inbox' = inbox \cup {<<m.id>>}
      /\ handler' = [handler EXCEPT ![h] = Idle]
      /\ Acknowledge(m)
      /\ UNCHANGED crashes

PostAndCommit(h, today) ==
  LET m == handler[h].msg
  IN  /\ handler[h].pc = "post"
      /\ Applicable(m)
      /\ db' = PostAll(db, Postings(m), PostingDay(m, today))
      /\ inbox' = inbox \cup {Key(m)}
      /\ handler' = [handler EXCEPT ![h] = Idle]
      /\ Acknowledge(m)
      /\ UNCHANGED crashes

(* A payload that cannot be decoded, or a posting that is refused, fails   *)
(* the transaction, inbox row included; the message is delivered again.    *)
Reject(h) ==
  /\ handler[h].pc = "post"
  /\ ~Applicable(handler[h].msg)
  /\ handler' = [handler EXCEPT ![h] = Idle]
  /\ UNCHANGED <<db, inbox, acked, crashes>>

(* The process dies, a statement fails or the transaction is a deadlock    *)
(* victim: everything of it is rolled back.                                *)
Crash(h) ==
  /\ handler[h] # Idle
  /\ crashes < MaxCrash
  /\ crashes' = crashes + 1
  /\ handler' = [handler EXCEPT ![h] = Idle]
  /\ UNCHANGED <<db, inbox, acked>>

Work(h) ==
  \/ Claim(h) \/ AlreadyProcessed(h) \/ Reject(h)
  \/ \E today \in Clock : PostAndCommit(h, today)

Next ==
  \E h \in Handler :
    \/ \E m \in Message : Receive(h, m)
    \/ Work(h)
    \/ Crash(h)

Redeliver(m) == m \notin acked /\ \E h \in Handler : Receive(h, m)

SafeSpec == Init /\ [][Next]_vars

(* An execution that does not wait for another one moves on: it claims the *)
(* message, or it ends.                                                    *)
MovesOn(h) ==
  /\ handler[h].pc = "post" \/ (handler[h].pc = "claim" /\ ~ClaimedByOther(h))
  /\ handler' \in {[handler EXCEPT ![h] = Idle], [handler EXCEPT ![h].pc = "post"]}

(* Executions do not stall, and Pub/Sub pushes an unacknowledged message   *)
(* again and again while other messages come and go.                       *)
Spec ==
  /\ SafeSpec
  /\ \A h \in Handler : WF_handler(MovesOn(h))
  /\ \A m \in Message : SF_vars(Redeliver(m))
-----------------------------------------------------------------------------
(* The types of the committed tables and of the executions of the handler. *)
TypeOK ==
  /\ db \in Ledgers
  /\ inbox \subseteq {Key(m) : m \in Message}
  /\ handler \in [Handler -> [pc : {"idle", "claim", "post"}, msg : Message \cup {NoMessage}]]
  /\ acked \subseteq Message
  /\ crashes \in 0 .. MaxCrash

(* Redeliveries, concurrent duplicates, lost acknowledgements and crashes  *)
(* notwithstanding, each message is applied at most once and completely:   *)
(* the inbox is the set of messages applied.                               *)
Once == INSTANCE PushOnce WITH applied <- {m \in Message : Key(m) \in inbox}
AppliedOnce == Once!Spec

(* Every message that can be decoded is applied in the end.                *)
EventuallyApplied ==
  \A m \in Message : m.type # "Malformed" => <>(Key(m) \in inbox)

(* How often an order's event of a type has been applied.                  *)
Times(o, type) ==
  Cardinality({m \in Message : /\ Key(m) \in inbox
                               /\ m.sub = "selling" /\ m.type = type /\ m.subject = o})

(* The log rows attributed to an order sum up, per account, to the order's *)
(* fees once for its creation less once for its cancellation, so creation  *)
(* and cancellation in either order net to zero.                           *)
OrderNetsOut ==
  \A o \in DOMAIN OrderRow : \A team, creditor \in Team \ {NoTeam} :
    team = OrderRow[o].team /\ team # creditor =>
      Booked(db[<<team, creditor, "PAYABLE">>].log, o)
        = (Times(o, "OrderCanceled") - Times(o, "OrderCreated")) * OrderDebt(o, creditor)

(* What the lost or broken items of a stock transaction cost their owner.  *)
Losses(x, owner) ==
  LET items == ProblemRow[x].items
      lost == {i \in DOMAIN items : /\ items[i].problem \in {"lost_w", "broken_w"}
                                    /\ items[i].productTeam = owner}
  IN  SumFunctionOnSet([i \in DOMAIN items |-> Charge(items[i].total)], lost)

(* By how much an event increases what debtor owes creditor.               *)
DebtOf(m, debtor, creditor) ==
  CASE m.sub = "selling" /\ m.type = "OrderCreated" ->
         IF OrderRow[m.subject].team = debtor THEN OrderDebt(m.subject, creditor) ELSE 0
    [] m.sub = "selling" /\ m.type = "OrderCanceled" ->
         IF OrderRow[m.subject].team = debtor THEN -OrderDebt(m.subject, creditor) ELSE 0
    [] m.sub = "selling" /\ m.type = "PaymentAccept" ->
         LET row == SubmissionRow[m.subject]
         IN  IF row.fromTeam = debtor /\ row.toTeam = creditor THEN -Charge(row.amount) ELSE 0
    [] m.sub = "stock" /\ m.type = "RestockAccepted" ->
         LET row == RestockRow[m.subject]
         IN  IF row.team = debtor /\ row.warehouse = creditor THEN Charge(row.codFee) ELSE 0
    [] m.sub = "stock" /\ m.type = "StockProblem" ->
         IF ProblemRow[m.subject].warehouse = debtor THEN Losses(m.subject, creditor) ELSE 0
    [] OTHER -> 0

DebtTable ==
  [pair \in Team \X Team |-> [m \in Message |-> DebtOf(m, pair[1], pair[2])]]

(* What a team owes another is the sum, over the messages applied, of the  *)
(* debt each brings by the rows it is about: in whatever order they came,  *)
(* and seen alike from the debtor's and from the creditor's account.       *)
DebtExplained ==
  \A debtor, creditor \in Team \ {NoTeam} : debtor # creditor =>
    LET debt == SumFunctionOnSet(DebtTable[<<debtor, creditor>>],
                                 {m \in Message : Key(m) \in inbox})
    IN  /\ db[<<debtor, creditor, "PAYABLE">>].balance = -debt
        /\ db[<<creditor, debtor, "RECEIVABLE">>].balance = debt

(* accept_payment.go takes it that the payer's PAYABLE is never positive.  *)
PayableNeverPositive ==
  \A team, forTeam \in Team : db[<<team, forTeam, "PAYABLE">>].balance <= 0
=============================================================================
