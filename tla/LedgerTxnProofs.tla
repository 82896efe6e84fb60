--------------------------- MODULE LedgerTxnProofs ---------------------------
(***************************************************************************)
(* Theorems about LedgerTxn, for every set of sessions, requests, teams,   *)
(* days and payments: the interleaved transactions implement the atomic    *)
(* steps of Ledger, and the lock on a balance row protects its daily rows. *)
(***************************************************************************)
EXTENDS LedgerTxn, LedgerOpsProofs, SequenceTheorems
-----------------------------------------------------------------------------
(* The types of the tables, the locks and the sessions.                    *)

Stmt == [op : {"entry", "daily", "pend", "split", "insertPayment", "loadPayment",
               "setAccepted", "setRejected"},
         acct : Account \cup {<< >>}, kind : ChangeType \cup {""}, delta : Int]

SessionRecord ==
  [pc : {"idle", "run"}, req : Request \cup {Idle.req}, todo : Seq(Stmt),
   missed : BOOLEAN, work : Ledgers, id : PaymentId \cup {NoRef},
   pay : L!InvoicePayment \cup {NoPayment}]

Types ==
  /\ db \in Ledgers
  /\ payments \in [PaymentId -> L!InvoicePayment \cup {NoPayment}]
  /\ lock \in [Row -> Session \cup {Free}]
  /\ sess \in [Session -> SessionRecord]
  /\ started \in Nat /\ started <= MaxTxn
-----------------------------------------------------------------------------
(* What a session's transaction consists of, as sets of statements.        *)

Left(q) == Range(q.todo)

TwoLegs(a, kind, amount) ==
  {OnAccount("entry", a, kind, amount), OnAccount("entry", Mirror(a), kind, -amount)}

PayAccount(p) == <<p.team, p.forTeam, "PAYABLE">>
RecAccount(p) == <<p.team, p.forTeam, "RECEIVABLE">>

SplitLegs(balance, p) ==
  LET s == L!settledPart(balance, p.amount)
  IN  (IF s > 0 THEN TwoLegs(PayAccount(p), "PAYMENT", s) ELSE {})
      \cup (IF p.amount - s > 0 THEN TwoLegs(RecAccount(p), "PAYMENT", p.amount - s) ELSE {})

(* The transaction has its payment row, or needs none.                     *)
Begun(q) == q.req.op = "post" \/ q.id # NoRef

(* The postings: those of an accepted payment are known once the session   *)
(* has read, and so locked, the payer's balance.                           *)
Entries(q, held, d) ==
  CASE q.req.op = "post" ->
         TwoLegs(<<q.req.team, q.req.forTeam, q.req.bt>>, q.req.kind, q.req.amount)
    [] q.req.op = "accept" /\ held \cap Account # {} ->
         SplitLegs(d[PayAccount(q.pay)].balance, q.pay)
    [] OTHER -> {}

TwoPends(team, forTeam, delta) ==
  {OnAccount("pend", <<team, forTeam, "PAYABLE">>, "", delta),
   OnAccount("pend", <<forTeam, team, "RECEIVABLE">>, "", delta)}

Pends(q) ==
  CASE q.req.op = "create" -> TwoPends(q.req.team, q.req.forTeam, q.req.amount)
    [] q.req.op \in {"accept", "reject"} ->
         TwoPends(q.pay.team, q.pay.forTeam, -q.pay.amount)
    [] OTHER -> {}

Split(q) == OnAccount("split", PayAccount(q.pay), "", 0)

Closing(q) ==
  CASE q.req.op = "accept" -> {Statement("setAccepted")}
    [] q.req.op = "reject" -> {Statement("setRejected")}
    [] OTHER -> {}

DailyOf(h) == [h EXCEPT !.op = "daily"]

(* What is left of a transaction that has touched no account.              *)
Opening(q) ==
  IF ~Begun(q) \/ q.req.op = "post" THEN Program(q.req)
  ELSE IF q.req.op = "create" THEN PendingPair(q.req.team, q.req.forTeam, q.req.amount)
  ELSE AfterLoad(q.req, q.pay)
-----------------------------------------------------------------------------
(* The private version w of a row whose committed version is c, when the   *)
(* statements left are still to come.                                      *)

Unmoved(c, w) ==
  /\ w.balance = c.balance
  /\ w.log = << >>
  /\ w.daily = NoAccount.daily

Moved(h, c, w, left, day, ref) ==
  /\ w.balance = c.balance + h.delta
  /\ w.log = << logEntry(c, h.kind, h.delta, day, ref) >>
  /\ w.daily = IF DailyOf(h) \in left THEN NoAccount.daily
               ELSE [NoAccount.daily EXCEPT ![day] =
                       upsertDailyLog(c.daily[day], c.balance, c.balance + h.delta, h.delta)]

RowState(a, c, w, E, P, left, day, ref) ==
  /\ \A h \in E : h.acct = a =>
       IF h \in left THEN Unmoved(c, w) /\ DailyOf(h) \notin left
       ELSE Moved(h, c, w, left, day, ref)
  /\ (\A h \in E : h.acct # a) => Unmoved(c, w)
  /\ \A h \in P : h.acct = a =>
       w.pending = IF h \in left THEN c.pending ELSE c.pending + h.delta
  /\ (\A h \in P : h.acct # a) => w.pending = c.pending

RowOK(a, held, c, w, E, P, left, day, ref) ==
  IF a \in held
  THEN /\ w.present
       /\ RowState(a, c, w, E, P, left, day, ref)
       /\ \E h \in E \cup P : h.acct = a
  ELSE /\ w = NoAccount
       /\ \A h \in E \cup P : h.acct = a => h \in left
       /\ \A h \in E : h.acct = a => DailyOf(h) \notin left

PlanOK(q, held, d) ==
  LET E == Entries(q, held, d)
      P == Pends(q)
  IN  /\ \A h \in Left(q) :
           \/ h \in E \cup P \cup Closing(q)
           \/ \E e \in E : h = DailyOf(e)
           \/ q.req.op = "accept" /\ held \cap Account = {} /\ h = Split(q)
      /\ \A a \in Account : RowOK(a, held, d[a], q.work[a], E, P, Left(q), q.req.day, q.id)

AcceptedOn(p, day) == [p EXCEPT !.status = "ACCEPTED", !.acceptedAt = {day}]

Rejected(p) == [p EXCEPT !.status = "REJECTED"]

(* The payment row a session works on: created by it, or locked while it   *)
(* was pending.                                                            *)
PaymentOK(q, held, pm) ==
  /\ held \cap PaymentId = {q.id} \ {NoRef}
  /\ q.req.op = "post" => q.id = NoRef
  /\ q.req.op = "create" =>
       /\ pm[q.id] = NoPayment
       /\ q.pay = [status |-> "PENDING", team |-> q.req.team, forTeam |-> q.req.forTeam,
                   amount |-> q.req.amount, acceptedAt |-> {}]
  /\ q.req.op \in {"accept", "reject"} =>
       /\ q.id = q.req.id
       /\ pm[q.id] \in L!InvoicePayment
       /\ pm[q.id].status = "PENDING"
       /\ pm[q.id].team = q.req.team /\ pm[q.id].forTeam = q.req.forTeam
       /\ q.req.team # q.req.forTeam
       /\ q.pay = IF Closing(q) \subseteq Left(q) THEN pm[q.id]
                  ELSE IF q.req.op = "accept" THEN AcceptedOn(pm[q.id], q.req.day)
                  ELSE Rejected(pm[q.id])

SessionOK(q, held, d, pm) ==
  IF q.pc = "idle" THEN q = Idle /\ held = {}
  ELSE /\ q.req \in Request /\ Valid(q.req)
       /\ IsInjective(q.todo)
       /\ held \cap Account = {} => q.todo = Opening(q)
       /\ held \cap Account # {} => FirstAccount(q.req) \in held
       /\ IF Begun(q) THEN PaymentOK(q, held, pm) /\ PlanOK(q, held, d)
          ELSE held = {} /\ q.work = EmptyLedger

HeldBy(lk, s) == {row \in Row : lk[row] = s}

(* A row that is not there has no columns and no history; a payment is     *)
(* from one team to another.                                               *)
Committed ==
  /\ \A a \in Account : ~db[a].present => db[a] = NoAccount
  /\ \A id \in PaymentId : payments[id] # NoPayment => payments[id].team # payments[id].forTeam

(* Every transaction that has started and not failed posts to an account   *)
(* once at most.                                                           *)
RunningSessions == {s \in Session : Running(s)}

Counted ==
  /\ IsFiniteSet(RunningSessions)
  /\ \A a \in Account : Len(db[a].log) + Cardinality(RunningSessions) <= started

TxnInv ==
  /\ Types
  /\ Committed
  /\ Counted
  /\ \A s \in Session : SessionOK(sess[s], HeldBy(lock, s), db, payments)
-----------------------------------------------------------------------------
(* Sequences of statements and the sets of their elements.                 *)

(* Taking the first of distinct elements leaves the others.                *)
LEMMA HeadTailSet ==
  ASSUME NEW S, NEW q \in Seq(S), q # << >>, IsInjective(q)
  PROVE  /\ Head(q) \in Range(q) /\ Head(q) \in S
         /\ Tail(q) \in Seq(S)
         /\ IsInjective(Tail(q))
         /\ Range(Tail(q)) = Range(q) \ {Head(q)}
  <1>1. /\ Len(q) \in Nat \ {0} /\ DOMAIN q = 1 .. Len(q)
        /\ Tail(q) \in Seq(S) /\ Len(Tail(q)) = Len(q) - 1
        /\ DOMAIN Tail(q) = 1 .. Len(q) - 1
        /\ \A i \in 1 .. Len(q) - 1 : Tail(q)[i] = q[i + 1]
    BY EmptySeq, LenProperties, HeadTailProperties
  <1>2. Head(q) = q[1] /\ Head(q) \in S
    BY <1>1
  <1>3. \A i, j \in 1 .. Len(q) : q[i] = q[j] => i = j
    BY <1>1 DEF IsInjective
  <1>4. IsInjective(Tail(q))
    BY <1>1, <1>3 DEF IsInjective
  <1>5. ASSUME NEW x
        PROVE  x \in Range(Tail(q)) <=> x \in Range(q) /\ x # Head(q)
    <2>1. x \in Range(q) <=> \E i \in 1 .. Len(q) : x = q[i]
      BY <1>1 DEF Range
    <2>2. x \in Range(Tail(q)) <=> \E i \in 1 .. Len(q) - 1 : x = q[i + 1]
      BY <1>1 DEF Range
    <2>3. ASSUME x \in Range(Tail(q)) PROVE x \in Range(q) /\ x # Head(q)
      <3>1. PICK i \in 1 .. Len(q) - 1 : x = q[i + 1]
        BY <2>2, <2>3
      <3>2. i + 1 \in 1 .. Len(q) /\ i + 1 # 1 /\ 1 \in 1 .. Len(q)
        BY <1>1
      <3> QED
        BY <1>2, <1>3, <2>1, <3>1, <3>2
    <2>4. ASSUME x \in Range(q), x # Head(q) PROVE x \in Range(Tail(q))
      <3>1. PICK i \in 1 .. Len(q) : x = q[i]
        BY <2>1, <2>4
      <3>2. i - 1 \in 1 .. Len(q) - 1 /\ i = (i - 1) + 1
        BY <1>1, <1>2, <2>4, <3>1
      <3> QED
        BY <2>2, <3>1, <3>2
    <2> QED
      BY <2>3, <2>4
  <1>6. Head(q) \in Range(q)
    BY <1>1, <1>2 DEF Range
  <1> QED
    BY <1>1, <1>2, <1>4, <1>5, <1>6

(* One sequence after another has the elements of both.                    *)
LEMMA ConcatSet ==
  ASSUME NEW S, NEW s \in Seq(S), NEW t \in Seq(S)
  PROVE  /\ s \o t \in Seq(S)
         /\ Range(s \o t) = Range(s) \cup Range(t)
         /\ IsInjective(s) /\ IsInjective(t) /\ (\A x \in Range(s) : x \notin Range(t))
              => IsInjective(s \o t)
  <1> DEFINE m == Len(s)  n == Len(t)  u == s \o t
  <1>1. /\ m \in Nat /\ n \in Nat /\ DOMAIN s = 1 .. m /\ DOMAIN t = 1 .. n
        /\ u \in Seq(S) /\ DOMAIN u = 1 .. m + n
        /\ \A i \in 1 .. m + n : u[i] = IF i <= m THEN s[i] ELSE t[i - m]
    BY LenProperties, ConcatProperties
  <1> HIDE DEF m, n, u
  <1>2. \A i \in 1 .. m : i \in 1 .. m + n /\ u[i] = s[i]
    BY <1>1
  <1>3. \A i \in 1 .. n : i + m \in 1 .. m + n /\ u[i + m] = t[i]
    <2> TAKE i \in 1 .. n
    <2>1. i + m \in 1 .. m + n /\ ~(i + m <= m) /\ (i + m) - m = i
      BY <1>1
    <2> QED
      BY <1>1, <2>1
  <1>4. \A i \in 1 .. m + n : \/ i \in 1 .. m /\ u[i] = s[i]
                              \/ i - m \in 1 .. n /\ u[i] = t[i - m]
    BY <1>1
  <1>5. Range(u) = Range(s) \cup Range(t)
    <2>1. /\ \A x : x \in Range(u) <=> \E i \in 1 .. m + n : x = u[i]
          /\ \A x : x \in Range(s) <=> \E i \in 1 .. m : x = s[i]
          /\ \A x : x \in Range(t) <=> \E i \in 1 .. n : x = t[i]
      BY <1>1 DEF Range
    <2>2. \A x \in Range(u) : x \in Range(s) \cup Range(t)
      BY <1>4, <2>1
    <2>3. \A x \in Range(s) : x \in Range(u)
      BY <1>2, <2>1
    <2>4. \A x \in Range(t) : x \in Range(u)
      BY <1>3, <2>1
    <2> HIDE DEF u
    <2> QED
      BY <2>2, <2>3, <2>4
  <1>6. ASSUME IsInjective(s), IsInjective(t), \A x \in Range(s) : x \notin Range(t)
        PROVE  IsInjective(u)
    <2>1. SUFFICES ASSUME NEW i \in 1 .. m + n, NEW j \in 1 .. m + n, u[i] = u[j]
                   PROVE  i = j
      BY <1>1 DEF IsInjective
    <2>2. \A k \in 1 .. m, l \in 1 .. n : s[k] # t[l]
      BY <1>1, <1>6 DEF Range
    <2>3. /\ \A k, l \in 1 .. m : s[k] = s[l] => k = l
          /\ \A k, l \in 1 .. n : t[k] = t[l] => k = l
      BY <1>1, <1>6 DEF IsInjective
    <2>4. CASE i \in 1 .. m /\ u[i] = s[i]
      BY <1>1, <1>4, <2>1, <2>2, <2>3, <2>4
    <2>5. CASE i - m \in 1 .. n /\ u[i] = t[i - m]
      <3>1. j - m \in 1 .. n /\ u[j] = t[j - m]
        BY <1>4, <2>1, <2>2, <2>5
      <3>2. i - m = j - m
        BY <2>1, <2>3, <2>5, <3>1
      <3> QED
        BY <1>1, <3>2
    <2> QED
      BY <1>4, <2>4, <2>5
  <1> QED
    BY <1>1, <1>5, <1>6 DEF u

(* Sequences written out.                                                  *)
LEMMA ShortSeqSet ==
  ASSUME NEW S, NEW x \in S, NEW y \in S
  PROVE  /\ << >> \in Seq(S) /\ Range(<< >>) = {} /\ IsInjective(<< >>)
         /\ <<x>> \in Seq(S) /\ Range(<<x>>) = {x} /\ IsInjective(<<x>>)
         /\ <<x, y>> \in Seq(S) /\ Range(<<x, y>>) = {x, y}
         /\ Head(<<x, y>>) = x /\ <<x, y>> # << >>
         /\ x # y => IsInjective(<<x, y>>)
  <1>1. << >> \in Seq(S) /\ <<x>> \in Seq(S) /\ <<x, y>> \in Seq(S)
    OBVIOUS
  <1>2. DOMAIN << >> = {} /\ DOMAIN <<x>> = {1} /\ DOMAIN <<x, y>> = {1, 2}
    OBVIOUS
  <1>3. Head(<<x, y>>) = x /\ <<x, y>> # << >>
    OBVIOUS
  <1> QED
    BY <1>1, <1>2, <1>3 DEF Range, IsInjective
-----------------------------------------------------------------------------
(* The statements of a transaction.                                        *)

(* At most one statement of the kind op for each account.                  *)
OnePerAccount(H, op) ==
  /\ H \subseteq Stmt
  /\ \A h \in H : /\ h.op = op /\ h.acct \in Account
                  /\ op = "entry" => h.kind \in ChangeType
  /\ \A g, h \in H : g.acct = h.acct => g = h

LEMMA EntryStatement ==
  ASSUME NEW a \in Account, NEW kind \in ChangeType, NEW delta \in Int
  PROVE  LET h == OnAccount("entry", a, kind, delta)
         IN  h \in Stmt /\ h.op = "entry" /\ h.acct = a /\ h.kind = kind /\ h.delta = delta
  BY DEF OnAccount, Stmt

LEMMA PendStatement ==
  ASSUME NEW a \in Account, NEW delta \in Int
  PROVE  LET h == OnAccount("pend", a, "", delta)
         IN  h \in Stmt /\ h.op = "pend" /\ h.acct = a /\ h.delta = delta
  BY DEF OnAccount, Stmt

LEMMA OtherStatements ==
  /\ \A a \in Account : LET h == OnAccount("split", a, "", 0)
                       IN  h \in Stmt /\ h.op = "split" /\ h.acct = a
  /\ \A op \in {"insertPayment", "loadPayment", "setAccepted", "setRejected"} :
       Statement(op) \in Stmt /\ Statement(op).op = op
  <1>1. ASSUME NEW a \in Account
        PROVE  LET h == OnAccount("split", a, "", 0)
               IN  h \in Stmt /\ h.op = "split" /\ h.acct = a
    BY DEF OnAccount, Stmt
  <1>2. ASSUME NEW op \in {"insertPayment", "loadPayment", "setAccepted", "setRejected"}
        PROVE  Statement(op) \in Stmt /\ Statement(op).op = op
    BY DEF Statement, Stmt
  <1> QED
    BY <1>1, <1>2

LEMMA DailyOfLemma ==
  ASSUME NEW h \in Stmt
  PROVE  /\ DailyOf(h) \in Stmt
         /\ DailyOf(h).op = "daily"
         /\ DailyOf(h).acct = h.acct
         /\ DailyOf(h).kind = h.kind
         /\ DailyOf(h).delta = h.delta
  BY DEF DailyOf, Stmt

(* The legs of a posting are entries on an account and its mirror.         *)
LEMMA LegsLemma ==
  ASSUME NEW a \in Account, NEW kind \in ChangeType, NEW amount \in Int
  PROVE  /\ Legs(a, kind, amount) \in Seq(Stmt)
         /\ Range(Legs(a, kind, amount)) = TwoLegs(a, kind, amount)
         /\ IsInjective(Legs(a, kind, amount))
         /\ Legs(a, kind, amount) # << >>
         /\ Head(Legs(a, kind, amount)).acct = a /\ Head(Legs(a, kind, amount)).op = "entry"
         /\ OnePerAccount(TwoLegs(a, kind, amount), "entry")
         /\ \A h \in TwoLegs(a, kind, amount) :
              /\ h.acct \in {a, Mirror(a)} /\ h.kind = kind
              /\ h.delta = IF h.acct = a THEN amount ELSE -amount
  <1> DEFINE x == OnAccount("entry", a, kind, amount)
             y == OnAccount("entry", Mirror(a), kind, -amount)
  <1>1. Mirror(a) \in Account /\ Mirror(a) # a /\ -amount \in Int
    BY MirrorLemma
  <1>2. x \in Stmt /\ x.op = "entry" /\ x.acct = a /\ x.kind = kind /\ x.delta = amount
    BY EntryStatement
  <1>5. /\ y \in Stmt /\ y.op = "entry" /\ y.acct = Mirror(a) /\ y.kind = kind
        /\ y.delta = -amount
    BY <1>1, EntryStatement
  <1>3. Legs(a, kind, amount) = <<x, y>> /\ TwoLegs(a, kind, amount) = {x, y}
    BY DEF Legs, TwoLegs
  <1> HIDE DEF x, y
  <1>4. /\ <<x, y>> \in Seq(Stmt) /\ Range(<<x, y>>) = {x, y} /\ IsInjective(<<x, y>>)
        /\ <<x, y>> # << >> /\ Head(<<x, y>>) = x
    <2>1. x # y
      BY <1>1, <1>2, <1>5
    <2> QED
      BY <1>2, <1>5, <2>1, ShortSeqSet
  <1> QED
    BY <1>1, <1>2, <1>3, <1>4, <1>5 DEF OnePerAccount

(* The in-flight changes of a payment are on an account and its mirror.    *)
LEMMA PendingAccounts ==
  ASSUME NEW team \in Team, NEW forTeam \in Team
  PROVE  /\ <<team, forTeam, "PAYABLE">> \in Account
         /\ <<forTeam, team, "RECEIVABLE">> \in Account
         /\ <<team, forTeam, "PAYABLE">> # <<forTeam, team, "RECEIVABLE">>
         /\ Mirror(<<team, forTeam, "PAYABLE">>) = <<forTeam, team, "RECEIVABLE">>
  BY DEF Account, BalanceType, Mirror, oppositeBalance

LEMMA PendingSet ==
  ASSUME NEW team \in Team, NEW forTeam \in Team, NEW delta \in Int
  PROVE  /\ OnePerAccount(TwoPends(team, forTeam, delta), "pend")
         /\ \A h \in TwoPends(team, forTeam, delta) :
              /\ h.acct \in {<<team, forTeam, "PAYABLE">>, <<forTeam, team, "RECEIVABLE">>}
              /\ h.delta = delta
         /\ \E h \in TwoPends(team, forTeam, delta) : h.acct = <<team, forTeam, "PAYABLE">>
         /\ \E h \in TwoPends(team, forTeam, delta) : h.acct = <<forTeam, team, "RECEIVABLE">>
  <1> DEFINE a == <<team, forTeam, "PAYABLE">>
             b == <<forTeam, team, "RECEIVABLE">>
             x == OnAccount("pend", a, "", delta)
             y == OnAccount("pend", b, "", delta)
  <1>1. a \in Account /\ b \in Account /\ a # b
    BY PendingAccounts
  <1>2. TwoPends(team, forTeam, delta) = {x, y}
    BY DEF TwoPends
  <1> HIDE DEF a, b
  <1>3. x \in Stmt /\ x.op = "pend" /\ x.acct = a /\ x.delta = delta
    BY <1>1, PendStatement
  <1>4. y \in Stmt /\ y.op = "pend" /\ y.acct = b /\ y.delta = delta
    BY <1>1, PendStatement
  <1> HIDE DEF x, y
  <1> QED
    BY <1>1, <1>2, <1>3, <1>4 DEF OnePerAccount, a, b

LEMMA PendingSeq ==
  ASSUME NEW team \in Team, NEW forTeam \in Team, NEW delta \in Int
  PROVE  /\ PendingPair(team, forTeam, delta) \in Seq(Stmt)
         /\ PendingPair(team, forTeam, delta) # << >>
         /\ Range(PendingPair(team, forTeam, delta)) = TwoPends(team, forTeam, delta)
         /\ IsInjective(PendingPair(team, forTeam, delta))
         /\ Head(PendingPair(team, forTeam, delta)).acct = <<team, forTeam, "PAYABLE">>
  <1> DEFINE a == <<team, forTeam, "PAYABLE">>
             b == <<forTeam, team, "RECEIVABLE">>
             x == OnAccount("pend", a, "", delta)
             y == OnAccount("pend", b, "", delta)
  <1>1. a \in Account /\ b \in Account /\ a # b
    BY PendingAccounts
  <1>2. PendingPair(team, forTeam, delta) = <<x, y>> /\ TwoPends(team, forTeam, delta) = {x, y}
    BY DEF PendingPair, TwoPends
  <1> HIDE DEF a, b
  <1>3. x \in Stmt /\ x.acct = a
    BY <1>1, PendStatement
  <1>4. y \in Stmt /\ y.acct = b
    BY <1>1, PendStatement
  <1>5. x # y
    BY <1>1, <1>3, <1>4
  <1> HIDE DEF x, y
  <1>6. /\ <<x, y>> \in Seq(Stmt) /\ Range(<<x, y>>) = {x, y} /\ IsInjective(<<x, y>>)
        /\ Head(<<x, y>>) = x /\ <<x, y>> # << >>
    BY <1>3, <1>4, <1>5, ShortSeqSet
  <1> QED
    BY <1>2, <1>3, <1>6 DEF a

(* The postings that settle a payment between two teams: at most one for   *)
(* each of the four accounts of the pair.                                  *)
LEMMA SplitLemma ==
  ASSUME NEW p \in L!InvoicePayment, p.team # p.forTeam, NEW balance \in Int
  PROVE  /\ SplitPayment(balance, p) \in Seq(Stmt)
         /\ Range(SplitPayment(balance, p)) = SplitLegs(balance, p)
         /\ IsInjective(SplitPayment(balance, p))
         /\ OnePerAccount(SplitLegs(balance, p), "entry")
         /\ L!settledPart(balance, p.amount) \in Int
         /\ PayAccount(p) \in Account /\ RecAccount(p) \in Account
         /\ {PayAccount(p), Mirror(PayAccount(p))} \cap {RecAccount(p), Mirror(RecAccount(p))} = {}
  <1> DEFINE s == L!settledPart(balance, p.amount)
             a == PayAccount(p)
             b == RecAccount(p)
  <1>1. p.amount \in Int /\ p.team \in Team /\ p.forTeam \in Team
    BY DEF L!InvoicePayment
  <1>2. s \in Int
    BY <1>1 DEF L!settledPart
  <1>3. a \in Account /\ b \in Account
    BY <1>1 DEF PayAccount, RecAccount, Account, BalanceType
  <1>4. {a, Mirror(a)} \cap {b, Mirror(b)} = {}
    BY <1>1 DEF PayAccount, RecAccount, Mirror, oppositeBalance
  <1>5. "PAYMENT" \in ChangeType
    BY DEF ChangeType
  <1>6. SplitPayment(balance, p) =
          (IF s > 0 THEN Legs(a, "PAYMENT", s) ELSE << >>)
            \o (IF p.amount - s > 0 THEN Legs(b, "PAYMENT", p.amount - s) ELSE << >>)
    BY DEF SplitPayment, PayAccount, RecAccount
  <1>7. SplitLegs(balance, p) =
          (IF s > 0 THEN TwoLegs(a, "PAYMENT", s) ELSE {})
            \cup (IF p.amount - s > 0 THEN TwoLegs(b, "PAYMENT", p.amount - s) ELSE {})
    BY DEF SplitLegs
  <1> HIDE DEF s, a, b
  <1> DEFINE u == IF s > 0 THEN Legs(a, "PAYMENT", s) ELSE << >>
             v == IF p.amount - s > 0 THEN Legs(b, "PAYMENT", p.amount - s) ELSE << >>
             U == IF s > 0 THEN TwoLegs(a, "PAYMENT", s) ELSE {}
             V == IF p.amount - s > 0 THEN TwoLegs(b, "PAYMENT", p.amount - s) ELSE {}
  <1>8. << >> \in Seq(Stmt) /\ Range(<< >>) = {} /\ IsInjective(<< >>)
    <2>1. Statement("insertPayment") \in Stmt
      BY OtherStatements
    <2> QED
      BY <2>1, ShortSeqSet
  <1>9. /\ u \in Seq(Stmt) /\ Range(u) = U /\ IsInjective(u)
        /\ OnePerAccount(U, "entry") /\ \A h \in U : h.acct \in {a, Mirror(a)}
    <2>1. CASE s > 0
      BY <1>2, <1>3, <1>5, <2>1, LegsLemma
    <2>2. CASE ~(s > 0)
      BY <1>8, <2>2 DEF OnePerAccount
    <2> QED
      BY <2>1, <2>2
  <1>10. /\ v \in Seq(Stmt) /\ Range(v) = V /\ IsInjective(v)
         /\ OnePerAccount(V, "entry") /\ \A h \in V : h.acct \in {b, Mirror(b)}
    <2>1. CASE p.amount - s > 0
      <3> DEFINE rest == p.amount - s
      <3>1. rest \in Int
        BY <1>1, <1>2
      <3>2. v = Legs(b, "PAYMENT", rest) /\ V = TwoLegs(b, "PAYMENT", rest)
        BY <2>1
      <3> HIDE DEF rest, v, V
      <3> QED
        BY <1>3, <1>5, <3>1, <3>2, LegsLemma
    <2>2. CASE ~(p.amount - s > 0)
      BY <1>8, <2>2 DEF OnePerAccount
    <2> QED
      BY <2>1, <2>2
  <1> HIDE DEF u, v, U, V
  <1>11. U \cap V = {}
    BY <1>4, <1>9, <1>10
  <1>12. u \o v \in Seq(Stmt) /\ Range(u \o v) = U \cup V /\ IsInjective(u \o v)
    BY <1>9, <1>10, <1>11, ConcatSet
  <1>13. OnePerAccount(U \cup V, "entry")
    <2>1. \A h \in U, k \in V : h.acct # k.acct
      BY <1>4, <1>9, <1>10
    <2>2. OnePerAccount(U, "entry") /\ OnePerAccount(V, "entry")
      BY <1>9, <1>10
    <2> QED
      BY ONLY <2>1, <2>2 DEF OnePerAccount
  <1> QED
    BY <1>2, <1>3, <1>4, <1>6, <1>7, <1>12, <1>13 DEF u, v, U, V, s, a, b
-----------------------------------------------------------------------------
(* One statement on the private version of a row.                          *)

(* Locking a row of which the session has no version yet starts it at the  *)
(* committed row, or at the zero row when there is none.                   *)
LEMMA BaseRow ==
  ASSUME NEW c \in AccountRow, NEW a \in Account, NEW E, NEW P, NEW left, NEW day, NEW ref,
         \A h \in E \cup P : h.acct = a => h \in left,
         \A h \in E : h.acct = a => DailyOf(h) \notin left
  PROVE  /\ PrivateRow(c) \in AccountRow
         /\ RowState(a, c, PrivateRow(c), E, P, left, day, ref)
  <1> DEFINE w == PrivateRow(c)
  <1>1. << >> \in Seq(LogEntry) /\ NoAccount.daily \in [Day -> DailyRow]
    <2>1. NoAccount \in AccountRow
      BY EmptyLedgerLemma
    <2> QED
      BY <2>1 DEF AccountRow
  <1>2. w = [c EXCEPT !.log = << >>, !.daily = NoAccount.daily]
    BY DEF PrivateRow
  <1> HIDE DEF w
  <1>3. /\ w \in AccountRow
        /\ w.balance = c.balance /\ w.pending = c.pending
        /\ w.log = << >> /\ w.daily = NoAccount.daily
    BY <1>1, <1>2 DEF AccountRow
  <1>4. RowState(a, c, w, E, P, left, day, ref)
    BY <1>3 DEF RowState, Unmoved
  <1> QED
    BY <1>3, <1>4 DEF w

LEMMA EntryOnRow ==
  ASSUME NEW c \in AccountRow, NEW w \in AccountRow, NEW a \in Account,
         NEW E, NEW P, NEW left, NEW day \in Day, NEW ref \in Ref,
         OnePerAccount(E, "entry"), OnePerAccount(P, "pend"),
         NEW h \in E, h.acct = a, h \in left,
         RowState(a, c, w, E, P, left, day, ref)
  PROVE  LET v == moveBalance(w, h.kind, h.delta, day, ref)
         IN  /\ v \in AccountRow /\ v.present
             /\ RowState(a, c, v, E, P, (left \ {h}) \cup {DailyOf(h)}, day, ref)
  <1> DEFINE v == moveBalance(w, h.kind, h.delta, day, ref)
             then == (left \ {h}) \cup {DailyOf(h)}
  <1>1. h \in Stmt /\ h.kind \in ChangeType /\ h.delta \in Int
    BY DEF OnePerAccount, Stmt
  <1>2. /\ v \in AccountRow /\ v.present
        /\ v.balance = w.balance + h.delta
        /\ v.pending = w.pending
        /\ v.log = Append(w.log, logEntry(w, h.kind, h.delta, day, ref))
        /\ v.daily = w.daily
    <2>1. ASSUME NEW kind \in ChangeType, NEW delta \in Int
          PROVE  LET m == moveBalance(w, kind, delta, day, ref)
                 IN  /\ m \in AccountRow /\ m.present
                     /\ m.balance = w.balance + delta
                     /\ m.pending = w.pending
                     /\ m.log = Append(w.log, logEntry(w, kind, delta, day, ref))
                     /\ m.daily = w.daily
      BY MoveBalanceLemma
    <2> QED
      BY <1>1, <2>1
  <1> HIDE DEF v
  <1>3. Unmoved(c, w) /\ DailyOf(h) \notin left
    BY DEF RowState
  <1>4. /\ v.balance = c.balance + h.delta
        /\ v.log = << logEntry(c, h.kind, h.delta, day, ref) >>
        /\ v.daily = NoAccount.daily
    <2>1. logEntry(w, h.kind, h.delta, day, ref) = logEntry(c, h.kind, h.delta, day, ref)
      BY <1>3 DEF Unmoved, logEntry
    <2>2. \A e : Append(<< >>, e) = <<e>>
      OBVIOUS
    <2> QED
      BY <1>2, <1>3, <2>1, <2>2 DEF Unmoved
  <1>5. DailyOf(h) # h /\ DailyOf(h).op = "daily" /\ h.op = "entry"
    BY <1>1, DailyOfLemma DEF OnePerAccount
  <1>6. h \notin then /\ DailyOf(h) \in then
    BY <1>5
  <1>7. Moved(h, c, v, then, day, ref)
    BY <1>4, <1>6 DEF Moved
  <1>8. \A g \in E : g.acct = a => g = h
    BY DEF OnePerAccount
  <1>9. \A g \in P : g \in then <=> g \in left
    BY <1>5 DEF OnePerAccount
  <1> HIDE DEF then
  <1>10. RowState(a, c, v, E, P, then, day, ref)
    BY <1>2, <1>6, <1>7, <1>8, <1>9 DEF RowState
  <1> QED
    BY <1>2, <1>10 DEF v, then

LEMMA PendOnRow ==
  ASSUME NEW c \in AccountRow, NEW w \in AccountRow, NEW a \in Account,
         NEW E, NEW P, NEW left, NEW day \in Day, NEW ref \in Ref,
         OnePerAccount(E, "entry"), OnePerAccount(P, "pend"),
         NEW h \in P, h.acct = a, h \in left,
         RowState(a, c, w, E, P, left, day, ref)
  PROVE  LET v == adjustPendingRow(w, h.delta)
         IN  /\ v \in AccountRow /\ v.present
             /\ RowState(a, c, v, E, P, left \ {h}, day, ref)
  <1> DEFINE v == adjustPendingRow(w, h.delta)
             then == left \ {h}
  <1>1. h \in Stmt /\ h.delta \in Int
    BY DEF OnePerAccount, Stmt
  <1>2. /\ v \in AccountRow /\ v.present
        /\ v.pending = w.pending + h.delta
        /\ v.balance = w.balance /\ v.log = w.log /\ v.daily = w.daily
    BY <1>1, AdjustPendingRowLemma
  <1> HIDE DEF v
  <1>3. w.pending = c.pending
    BY DEF RowState
  <1>4. \A g \in P : g.acct = a => g = h
    BY DEF OnePerAccount
  <1>5. \A g \in E : /\ g \in then <=> g \in left
                     /\ DailyOf(g) \in then <=> DailyOf(g) \in left
    <2>1. \A g \in E : g \in Stmt /\ g.op = "entry"
      BY DEF OnePerAccount
    <2>2. \A g \in E : DailyOf(g).op = "daily"
      BY <2>1, DailyOfLemma
    <2>3. h.op = "pend"
      BY DEF OnePerAccount
    <2> QED
      BY <2>1, <2>2, <2>3
  <1>6. h \notin then
    OBVIOUS
  <1> HIDE DEF then
  <1>7. Unmoved(c, v) <=> Unmoved(c, w)
    BY <1>2 DEF Unmoved
  <1>8. \A g \in E : Moved(g, c, v, then, day, ref) <=> Moved(g, c, w, left, day, ref)
    BY <1>2, <1>5 DEF Moved
  <1>9. RowState(a, c, v, E, P, then, day, ref)
    BY <1>2, <1>3, <1>4, <1>5, <1>6, <1>7, <1>8 DEF RowState
  <1> QED
    BY <1>2, <1>9 DEF v, then

(* The private row w with the daily row of a change by delta that it has   *)
(* already recorded.                                                       *)
WithDaily(w, c, day, delta) ==
  LET x == IF w.daily[day].present THEN w.daily[day] ELSE c.daily[day]
  IN  [w EXCEPT !.daily[day] = upsertDailyLog(x, w.balance - delta, w.balance, delta)]

LEMMA DailyOnRow ==
  ASSUME NEW c \in AccountRow, NEW w \in AccountRow, NEW a \in Account,
         NEW E, NEW P, NEW left, NEW day \in Day, NEW ref \in Ref,
         OnePerAccount(E, "entry"), OnePerAccount(P, "pend"),
         NEW h \in E, h.acct = a, DailyOf(h) \in left,
         RowState(a, c, w, E, P, left, day, ref)
  PROVE  LET v == WithDaily(w, c, day, h.delta)
         IN  /\ v \in AccountRow /\ v.present = w.present
             /\ RowState(a, c, v, E, P, left \ {DailyOf(h)}, day, ref)
  <1> DEFINE x == IF w.daily[day].present THEN w.daily[day] ELSE c.daily[day]
             y == upsertDailyLog(x, w.balance - h.delta, w.balance, h.delta)
             v == [w EXCEPT !.daily[day] = y]
             then == left \ {DailyOf(h)}
  <1>1. h \in Stmt /\ h.delta \in Int /\ c.balance \in Int /\ w.balance \in Int
    BY RowTypeLemma DEF OnePerAccount, Stmt
  <1>2. h \notin left /\ Moved(h, c, w, left, day, ref)
    BY DEF RowState
  <1>3. w.daily = NoAccount.daily /\ w.balance = c.balance + h.delta
    BY <1>2 DEF Moved
  <1>4. x = c.daily[day]
    BY <1>3 DEF NoAccount, NoDaily
  <1>5. y = upsertDailyLog(c.daily[day], c.balance, c.balance + h.delta, h.delta)
    <2>1. w.balance - h.delta = c.balance
      BY <1>1, <1>3
    <2> QED
      BY <1>3, <1>4, <2>1
  <1>6. y \in DailyRow
    <2>1. c.daily[day] \in DailyRow
      BY DEF AccountRow
    <2>2. c.balance + h.delta \in Int
      BY <1>1
    <2>3. \A new \in Int : upsertDailyLog(c.daily[day], c.balance, new, h.delta) \in DailyRow
      BY <1>1, <2>1, UpsertDailyLemma
    <2> QED
      BY <1>5, <2>2, <2>3
  <1> HIDE DEF x, y
  <1>7. /\ v \in AccountRow /\ v.present = w.present
        /\ v.balance = w.balance /\ v.pending = w.pending /\ v.log = w.log
        /\ v.daily = [w.daily EXCEPT ![day] = y]
    BY <1>6 DEF AccountRow
  <1> HIDE DEF v
  <1>8. h \notin then /\ DailyOf(h) \notin then
    BY <1>2
  <1>9. Moved(h, c, v, then, day, ref)
    BY <1>2, <1>3, <1>5, <1>7, <1>8 DEF Moved
  <1>10. \A g \in E : g.acct = a => g = h
    BY DEF OnePerAccount
  <1>11. \A g \in P : g \in then <=> g \in left
    <2>1. DailyOf(h).op = "daily" /\ \A g \in P : g.op = "pend"
      BY <1>1, DailyOfLemma DEF OnePerAccount
    <2> QED
      BY <2>1
  <1> HIDE DEF then
  <1>12. RowState(a, c, v, E, P, then, day, ref)
    BY <1>7, <1>8, <1>9, <1>10, <1>11 DEF RowState
  <1>13. WithDaily(w, c, day, h.delta) = v
    BY DEF WithDaily, v, x, y
  <1> QED
    BY <1>7, <1>12, <1>13 DEF then

(* A statement on one account leaves the versions of the others.           *)
LEMMA OtherRow ==
  ASSUME NEW a \in Account, NEW c, NEW w, NEW E, NEW P, NEW left, NEW then, NEW held,
         NEW held2, NEW day, NEW ref,
         RowOK(a, held, c, w, E, P, left, day, ref),
         a \in held2 <=> a \in held,
         \A h \in E \cup P : h.acct = a => (h \in then <=> h \in left),
         \A h \in E : h.acct = a => (DailyOf(h) \in then <=> DailyOf(h) \in left)
  PROVE  RowOK(a, held2, c, w, E, P, then, day, ref)
  BY DEF RowOK, RowState, Moved
-----------------------------------------------------------------------------
(* The plan of a session.                                                  *)

LEMMA RequestLemma ==
  ASSUME NEW r \in Request
  PROVE  /\ r.op \in {"post", "create", "accept", "reject"} /\ r.day \in Day
         /\ r.op = "post" =>
              /\ r.team \in Team \cup {NoTeam} /\ r.forTeam \in Team \cup {NoTeam}
              /\ r.bt \in BalanceType \cup {"UNSPECIFIED"} /\ r.kind \in ChangeType
              /\ r.amount \in Int
         /\ r.op = "create" => r.team \in Team /\ r.forTeam \in Team /\ r.amount \in Int
         /\ r.op \in {"accept", "reject"} =>
              r.id \in PaymentId /\ r.team \in Team /\ r.forTeam \in Team
  <1>1. r \in Requests
    BY TxnAssumption
  <1> QED
    BY <1>1 DEF Requests

(* The first account of a valid request is an account; a valid posting is  *)
(* on an account of two real teams.                                        *)
LEMMA FirstLemma ==
  ASSUME NEW r \in Request, Valid(r)
  PROVE  /\ FirstAccount(r) \in Account
         /\ r.op = "post" => r.team \in Team /\ r.forTeam \in Team /\ r.bt \in BalanceType
         /\ r.op = "create" => r.team # r.forTeam
  BY RequestLemma DEF Valid, ValidPosting, FirstAccount, Account, BalanceType

(* A decision changes a payment's status, not what it pays to whom.        *)
LEMMA DecidedPayment ==
  ASSUME NEW p \in L!InvoicePayment, NEW day \in Day
  PROVE  /\ AcceptedOn(p, day) \in L!InvoicePayment
         /\ AcceptedOn(p, day).team = p.team /\ AcceptedOn(p, day).forTeam = p.forTeam
         /\ AcceptedOn(p, day).amount = p.amount
         /\ Rejected(p) \in L!InvoicePayment
         /\ Rejected(p).team = p.team /\ Rejected(p).forTeam = p.forTeam
         /\ Rejected(p).amount = p.amount
  <1>1. /\ AcceptedOn(p, day) \in L!InvoicePayment
        /\ AcceptedOn(p, day).team = p.team /\ AcceptedOn(p, day).forTeam = p.forTeam
        /\ AcceptedOn(p, day).amount = p.amount
    BY DEF L!InvoicePayment, AcceptedOn
  <1>2. /\ Rejected(p) \in L!InvoicePayment
        /\ Rejected(p).team = p.team /\ Rejected(p).forTeam = p.forTeam
        /\ Rejected(p).amount = p.amount
    BY DEF L!InvoicePayment, Rejected
  <1> QED
    BY <1>1, <1>2

(* The payment of a session that decides one is its request's.             *)
LEMMA PayLemma ==
  ASSUME NEW q, q.req \in Request, NEW held, NEW pm, Begun(q), PaymentOK(q, held, pm),
         q.req.op \in {"accept", "reject"}
  PROVE  /\ q.pay \in L!InvoicePayment
         /\ q.pay.team = q.req.team /\ q.pay.forTeam = q.req.forTeam
         /\ q.pay.team # q.pay.forTeam
         /\ q.pay.amount = pm[q.id].amount
         /\ PayAccount(q.pay) = FirstAccount(q.req)
  <1>1. q.req.day \in Day
    BY RequestLemma
  <1>2. /\ pm[q.id] \in L!InvoicePayment
        /\ pm[q.id].team = q.req.team /\ pm[q.id].forTeam = q.req.forTeam
        /\ q.req.team # q.req.forTeam
        /\ \/ q.pay = pm[q.id]
           \/ q.pay = AcceptedOn(pm[q.id], q.req.day)
           \/ q.pay = Rejected(pm[q.id])
    BY DEF PaymentOK
  <1>3. /\ q.pay \in L!InvoicePayment
        /\ q.pay.team = pm[q.id].team /\ q.pay.forTeam = pm[q.id].forTeam
        /\ q.pay.amount = pm[q.id].amount
    <2>1. CASE q.pay = pm[q.id]
      BY <1>2, <2>1
    <2>2. CASE q.pay = AcceptedOn(pm[q.id], q.req.day)
      BY <1>1, <1>2, <2>2, DecidedPayment
    <2>3. CASE q.pay = Rejected(pm[q.id])
      BY <1>1, <1>2, <2>3, DecidedPayment
    <2> QED
      BY <1>2, <2>1, <2>2, <2>3
  <1>4. FirstAccount(q.req) = <<q.req.team, q.req.forTeam, "PAYABLE">>
    BY DEF FirstAccount
  <1> QED
    BY <1>2, <1>3, <1>4 DEF PayAccount

(* The plan has one posting and one in-flight change at most for each      *)
(* account.                                                                *)
LEMMA PlanLemma ==
  ASSUME NEW q, q.req \in Request, Valid(q.req), NEW held, NEW pm, NEW d \in Ledgers,
         Begun(q), PaymentOK(q, held, pm)
  PROVE  /\ OnePerAccount(Entries(q, held, d), "entry")
         /\ OnePerAccount(Pends(q), "pend")
         /\ \A h \in Closing(q) : h \in Stmt /\ h.op \in {"setAccepted", "setRejected"}
         /\ q.req.op = "accept" => Split(q) \in Stmt /\ Split(q).op = "split"
                                   /\ Split(q).acct = PayAccount(q.pay)
  <1> DEFINE r == q.req
  <1>1. r.op \in {"post", "create", "accept", "reject"}
    BY RequestLemma
  <1>2. OnePerAccount({}, "entry") /\ OnePerAccount({}, "pend")
    BY DEF OnePerAccount
  <1>3. \A h \in Closing(q) : h \in Stmt /\ h.op \in {"setAccepted", "setRejected"}
    BY OtherStatements DEF Closing
  <1>4. CASE r.op = "post"
    <2>1. Entries(q, held, d) = TwoLegs(<<r.team, r.forTeam, r.bt>>, r.kind, r.amount)
          /\ Pends(q) = {}
      BY <1>4 DEF Entries, Pends
    <2>2. <<r.team, r.forTeam, r.bt>> \in Account /\ r.kind \in ChangeType /\ r.amount \in Int
      BY <1>4, FirstLemma, RequestLemma DEF Account
    <2>3. OnePerAccount(Entries(q, held, d), "entry")
      BY <2>1, <2>2, LegsLemma
    <2>4. OnePerAccount(Pends(q), "pend")
      BY <1>2, <2>1
    <2> QED
      BY <1>3, <1>4, <2>3, <2>4
  <1>5. CASE r.op = "create"
    <2>1. Entries(q, held, d) = {} /\ Pends(q) = TwoPends(r.team, r.forTeam, r.amount)
      BY <1>5 DEF Entries, Pends
    <2>2. r.team \in Team /\ r.forTeam \in Team /\ r.amount \in Int
      BY <1>5, RequestLemma
    <2> QED
      <3>1. OnePerAccount(Pends(q), "pend")
        BY <2>1, <2>2, PendingSet
      <3> QED
        BY <1>2, <1>3, <1>5, <2>1, <3>1
  <1>6. CASE r.op \in {"accept", "reject"}
    <2>1. /\ q.pay \in L!InvoicePayment /\ q.pay.team # q.pay.forTeam
          /\ PayAccount(q.pay) = FirstAccount(q.req)
      BY <1>6, PayLemma
    <2>2. q.pay.team \in Team /\ q.pay.forTeam \in Team /\ q.pay.amount \in Int
      BY <2>1 DEF L!InvoicePayment
    <2>3. OnePerAccount(Pends(q), "pend")
      <3>1. Pends(q) = TwoPends(q.pay.team, q.pay.forTeam, -q.pay.amount)
        BY <1>6 DEF Pends
      <3>2. -q.pay.amount \in Int
        BY <2>2
      <3>3. \A t, f \in Team, x \in Int : OnePerAccount(TwoPends(t, f, x), "pend")
        BY PendingSet
      <3> QED
        BY <2>2, <3>1, <3>2, <3>3
    <2>4. PayAccount(q.pay) \in Account
      BY <2>1, FirstLemma
    <2>5. OnePerAccount(Entries(q, held, d), "entry")
      <3>1. \/ Entries(q, held, d) = {}
            \/ Entries(q, held, d) = SplitLegs(d[PayAccount(q.pay)].balance, q.pay)
        BY <1>6 DEF Entries
      <3>2. d[PayAccount(q.pay)].balance \in Int
        BY <2>4, RowTypeLemma DEF Ledgers
      <3> QED
        BY <1>2, <2>1, <3>1, <3>2, SplitLemma
    <2>6. Split(q) \in Stmt /\ Split(q).op = "split" /\ Split(q).acct = PayAccount(q.pay)
      BY <2>4, OtherStatements DEF Split
    <2> QED
      BY <1>3, <2>3, <2>5, <2>6
  <1> QED
    BY <1>1, <1>4, <1>5, <1>6

(* A sequence put after one statement.                                     *)
LEMMA ConsLemma ==
  ASSUME NEW S, NEW x \in S, NEW t \in Seq(S)
  PROVE  /\ <<x>> \o t \in Seq(S) /\ <<x>> \o t # << >>
         /\ Head(<<x>> \o t) = x /\ Tail(<<x>> \o t) = t
         /\ Range(<<x>> \o t) = {x} \cup Range(t)
         /\ IsInjective(t) /\ x \notin Range(t) => IsInjective(<<x>> \o t)
  <1>1. /\ <<x>> \o t \in Seq(S) /\ <<x>> \o t # << >>
        /\ Head(<<x>> \o t) = x /\ Tail(<<x>> \o t) = t
    OBVIOUS
  <1> DEFINE s == <<x>>
  <1>2. s \in Seq(S) /\ Range(s) = {x} /\ IsInjective(s)
    BY ShortSeqSet
  <1> HIDE DEF s
  <1>3. /\ Range(s \o t) = Range(s) \cup Range(t)
        /\ IsInjective(s) /\ IsInjective(t) /\ (\A y \in Range(s) : y \notin Range(t))
             => IsInjective(s \o t)
    BY <1>2, ConcatSet
  <1> QED
    BY <1>1, <1>2, <1>3 DEF s

(* What follows the pending payment p when it has been loaded.             *)
LEMMA AfterLoadLemma ==
  ASSUME NEW r \in Request, NEW p \in L!InvoicePayment
  PROVE  LET P == TwoPends(p.team, p.forTeam, -p.amount)
         IN  /\ AfterLoad(r, p) \in Seq(Stmt) /\ AfterLoad(r, p) # << >>
             /\ IsInjective(AfterLoad(r, p))
             /\ Head(AfterLoad(r, p)).acct = PayAccount(p)
             /\ Head(AfterLoad(r, p)).op = IF r.op = "accept" THEN "split" ELSE "pend"
             /\ Range(AfterLoad(r, p)) =
                  IF r.op = "accept"
                  THEN {OnAccount("split", PayAccount(p), "", 0)} \cup P
                         \cup {Statement("setAccepted")}
                  ELSE P \cup {Statement("setRejected")}
  <1> DEFINE P == TwoPends(p.team, p.forTeam, -p.amount)
             t == PendingPair(p.team, p.forTeam, -p.amount)
             x == OnAccount("split", PayAccount(p), "", 0)
             y == Statement("setAccepted")
             z == Statement("setRejected")
  <1>1. p.team \in Team /\ p.forTeam \in Team /\ -p.amount \in Int
    BY DEF L!InvoicePayment
  <1>2. /\ t \in Seq(Stmt) /\ Range(t) = P /\ IsInjective(t)
        /\ Head(t).acct = PayAccount(p) /\ PayAccount(p) \in Account
        /\ OnePerAccount(P, "pend")
        /\ P # {}
    <2>1. OnePerAccount(P, "pend") /\ P # {}
      BY <1>1, PendingSet
    <2>2. t \in Seq(Stmt) /\ Range(t) = P /\ IsInjective(t) /\ Head(t).acct = PayAccount(p)
      BY <1>1, PendingSeq DEF PayAccount
    <2>3. PayAccount(p) \in Account
      BY <1>1, PendingAccounts DEF PayAccount
    <2> QED
      BY <2>1, <2>2, <2>3
  <1>3. /\ x \in Stmt /\ x.op = "split" /\ x.acct = PayAccount(p)
        /\ y \in Stmt /\ y.op = "setAccepted" /\ z \in Stmt /\ z.op = "setRejected"
    BY <1>2, OtherStatements
  <1>4. /\ r.op = "accept" => AfterLoad(r, p) = <<x>> \o t \o <<y>>
        /\ r.op # "accept" => AfterLoad(r, p) = t \o <<z>>
    BY DEF AfterLoad, PayAccount
  <1> HIDE DEF P, t, x, y, z
  <1>5. t # << >> /\ Head(t) \in P
    <2>1. t # << >>
      BY <1>2 DEF Range
    <2> QED
      BY <1>2, <2>1, HeadTailSet
  <1>6. /\ <<y>> \in Seq(Stmt) /\ Range(<<y>>) = {y} /\ IsInjective(<<y>>)
        /\ <<z>> \in Seq(Stmt) /\ Range(<<z>>) = {z} /\ IsInjective(<<z>>)
    BY <1>3, ShortSeqSet
  <1>7. x \notin P /\ y \notin P /\ z \notin P /\ x # y
    BY <1>2, <1>3 DEF OnePerAccount
  <1>8. CASE r.op = "accept"
    <2> DEFINE u == <<x>> \o t
    <2>1. /\ u \in Seq(Stmt) /\ u # << >> /\ Head(u) = x
          /\ Range(u) = {x} \cup P /\ IsInjective(u)
      BY <1>2, <1>3, <1>7, ConsLemma
    <2> HIDE DEF u
    <2> DEFINE v == <<y>>
    <2>2. u \o v \in Seq(Stmt) /\ Range(u \o v) = {x} \cup P \cup {y} /\ IsInjective(u \o v)
      <3>1. v \in Seq(Stmt) /\ Range(v) = {y} /\ IsInjective(v)
        BY <1>6
      <3> HIDE DEF v
      <3> QED
        BY <1>7, <2>1, <3>1, ConcatSet
    <2>3. u \o <<y>> # << >> /\ Head(u \o <<y>>) = Head(u)
      BY <1>6, <2>1
    <2> QED
      BY <1>3, <1>4, <1>8, <2>1, <2>2, <2>3 DEF u, x, y, P
  <1>9. CASE r.op # "accept"
    <2> DEFINE v == <<z>>
    <2>1. t \o v \in Seq(Stmt) /\ Range(t \o v) = P \cup {z} /\ IsInjective(t \o v)
      <3>1. v \in Seq(Stmt) /\ Range(v) = {z} /\ IsInjective(v)
        BY <1>6
      <3> HIDE DEF v
      <3> QED
        BY <1>2, <1>7, <3>1, ConcatSet
    <2>2. t \o <<z>> # << >> /\ Head(t \o <<z>>) = Head(t)
      BY <1>2, <1>5, <1>6
    <2>3. Head(t).op = "pend"
      BY <1>2, <1>5 DEF OnePerAccount
    <2> QED
      BY <1>2, <1>4, <1>9, <2>1, <2>2, <2>3 DEF P, z
  <1> QED
    BY <1>8, <1>9

(* A session that has its payment row and no account yet has the whole     *)
(* plan ahead, beginning with the first account of its request.            *)
LEMMA OpeningLemma ==
  ASSUME NEW q, q.req \in Request, Valid(q.req), NEW held, NEW pm,
         Begun(q), PaymentOK(q, held, pm), held \cap Account = {}, NEW d
  PROVE  /\ Opening(q) \in Seq(Stmt) /\ Opening(q) # << >> /\ IsInjective(Opening(q))
         /\ Head(Opening(q)).acct = FirstAccount(q.req)
         /\ Head(Opening(q)).op = IF q.req.op = "accept" THEN "split"
                                  ELSE IF q.req.op = "post" THEN "entry" ELSE "pend"
         /\ Range(Opening(q)) = Entries(q, held, d) \cup Pends(q) \cup Closing(q)
                                  \cup (IF q.req.op = "accept" THEN {Split(q)} ELSE {})
  <1> DEFINE r == q.req
  <1>1. r.op \in {"post", "create", "accept", "reject"}
    BY RequestLemma
  <1>2. CASE r.op = "post"
    <2> DEFINE a == <<r.team, r.forTeam, r.bt>>
    <2>1. /\ Opening(q) = Legs(a, r.kind, r.amount)
          /\ Entries(q, held, d) = TwoLegs(a, r.kind, r.amount)
          /\ Pends(q) = {} /\ Closing(q) = {} /\ FirstAccount(r) = a
      BY <1>2 DEF Opening, Program, Entries, Pends, Closing, FirstAccount
    <2>2. a \in Account /\ r.kind \in ChangeType /\ r.amount \in Int
      BY <1>2, FirstLemma, RequestLemma DEF Account
    <2> HIDE DEF a
    <2>3. /\ Legs(a, r.kind, r.amount) \in Seq(Stmt)
          /\ Range(Legs(a, r.kind, r.amount)) = TwoLegs(a, r.kind, r.amount)
          /\ IsInjective(Legs(a, r.kind, r.amount))
          /\ Legs(a, r.kind, r.amount) # << >>
          /\ Head(Legs(a, r.kind, r.amount)).acct = a
          /\ Head(Legs(a, r.kind, r.amount)).op = "entry"
      BY <2>2, LegsLemma
    <2> QED
      BY <1>2, <2>1, <2>3
  <1>3. CASE r.op = "create"
    <2>1. /\ Opening(q) = PendingPair(r.team, r.forTeam, r.amount)
          /\ Pends(q) = TwoPends(r.team, r.forTeam, r.amount)
          /\ Entries(q, held, d) = {} /\ Closing(q) = {}
          /\ FirstAccount(r) = <<r.team, r.forTeam, "PAYABLE">>
      BY <1>3 DEF Opening, Entries, Pends, Closing, FirstAccount
    <2>2. r.team \in Team /\ r.forTeam \in Team /\ r.amount \in Int
      BY <1>3, RequestLemma
    <2> DEFINE t == PendingPair(r.team, r.forTeam, r.amount)
    <2>3. /\ t \in Seq(Stmt) /\ t # << >> /\ Range(t) = Pends(q) /\ IsInjective(t)
          /\ Head(t).acct = FirstAccount(r)
      BY <2>1, <2>2, PendingSeq
    <2>4. Head(t).op = "pend"
      <3>1. OnePerAccount(Pends(q), "pend")
        BY <2>1, <2>2, PendingSet
      <3> HIDE DEF t
      <3>2. Head(t) \in Pends(q)
        BY <2>3, HeadTailSet
      <3> QED
        BY <3>1, <3>2 DEF OnePerAccount
    <2> QED
      BY <1>3, <2>1, <2>3, <2>4
  <1>4. CASE r.op \in {"accept", "reject"}
    <2>1. /\ Opening(q) = AfterLoad(r, q.pay)
          /\ Pends(q) = TwoPends(q.pay.team, q.pay.forTeam, -q.pay.amount)
          /\ Entries(q, held, d) = {}
          /\ Closing(q) = IF r.op = "accept" THEN {Statement("setAccepted")}
                          ELSE {Statement("setRejected")}
          /\ Split(q) = OnAccount("split", PayAccount(q.pay), "", 0)
      BY <1>4 DEF Opening, Entries, Pends, Closing, Split
    <2>2. q.pay \in L!InvoicePayment /\ PayAccount(q.pay) = FirstAccount(r)
      BY <1>4, PayLemma
    <2> DEFINE t == AfterLoad(r, q.pay)
    <2>3. /\ t \in Seq(Stmt) /\ t # << >> /\ IsInjective(t)
          /\ Head(t).acct = PayAccount(q.pay)
          /\ Head(t).op = IF r.op = "accept" THEN "split" ELSE "pend"
      BY <2>2, AfterLoadLemma
    <2>4. Range(t) = IF r.op = "accept" THEN {Split(q)} \cup Pends(q) \cup Closing(q)
                     ELSE Pends(q) \cup Closing(q)
      BY <1>4, <2>1, <2>2, AfterLoadLemma, ZenonT(60)
    <2>5. t = Opening(q)
      BY <2>1
    <2> HIDE DEF t
    <2>6. Range(t) = Entries(q, held, d) \cup Pends(q) \cup Closing(q)
                       \cup (IF q.req.op = "accept" THEN {Split(q)} ELSE {})
      BY <2>1, <2>4
    <2> QED
      BY <1>4, <2>2, <2>3, <2>5, <2>6
  <1> QED
    BY <1>1, <1>2, <1>3, <1>4

(* What a running session is told by the statement it comes to.            *)
LEMMA HeadLemma ==
  ASSUME NEW q \in SessionRecord, q.pc = "run", NEW held, NEW d \in Ledgers, NEW pm,
         SessionOK(q, held, d, pm), q.todo # << >>
  PROVE  LET h == Head(q.todo)
         IN  /\ h \in Stmt /\ h \in Left(q)
             /\ Tail(q.todo) \in Seq(Stmt) /\ IsInjective(Tail(q.todo))
             /\ Range(Tail(q.todo)) = Left(q) \ {h}
             /\ h.op \notin {"insertPayment", "loadPayment"} <=> Begun(q)
             /\ h.op = "entry" => h \in Entries(q, held, d)
             /\ h.op = "pend" => h \in Pends(q)
             /\ h.op = "daily" => \E e \in Entries(q, held, d) : h = DailyOf(e)
             /\ h.op = "split" => /\ q.req.op = "accept" /\ held \cap Account = {}
                                  /\ h = Split(q)
             /\ h.op \in {"setAccepted", "setRejected"} => h \in Closing(q)
             /\ h.op \in {"entry", "pend"} /\ held \cap Account = {} =>
                  h.acct = FirstAccount(q.req) /\ q.req.op # "accept"
             /\ h.op \in {"daily", "setAccepted", "setRejected"} => held \cap Account # {}
  <1> DEFINE h == Head(q.todo)
             E == Entries(q, held, d)
             P == Pends(q)
  <1>1. q.todo \in Seq(Stmt)
    BY DEF SessionRecord
  <1>2. /\ q.req \in Request /\ Valid(q.req) /\ IsInjective(q.todo)
        /\ held \cap Account = {} => q.todo = Opening(q)
        /\ IF Begun(q) THEN PaymentOK(q, held, pm) /\ PlanOK(q, held, d) ELSE held = {}
    BY DEF SessionOK
  <1>3. /\ h \in Stmt /\ h \in Left(q)
        /\ Tail(q.todo) \in Seq(Stmt) /\ IsInjective(Tail(q.todo))
        /\ Range(Tail(q.todo)) = Left(q) \ {h}
    BY <1>1, <1>2, HeadTailSet DEF Left
  <1>4. CASE ~Begun(q)
    <2>1. q.todo = Program(q.req)
      BY <1>2, <1>4 DEF Opening
    <2>2. q.req.op \in {"create", "accept", "reject"}
      BY <1>2, <1>4, RequestLemma DEF Begun
    <2>3. h \in {Statement("insertPayment"), Statement("loadPayment")}
      <3>1. CASE q.req.op = "create"
        <4> DEFINE t == PendingPair(q.req.team, q.req.forTeam, q.req.amount)
        <4>1. q.todo = <<Statement("insertPayment")>> \o t
          BY <2>1, <3>1 DEF Program
        <4>2. t \in Seq(Stmt)
          BY <1>2, <3>1, RequestLemma, PendingSeq
        <4>3. Statement("insertPayment") \in Stmt
          BY OtherStatements
        <4> HIDE DEF t
        <4> QED
          BY <4>1, <4>2, <4>3, ConsLemma
      <3>2. CASE q.req.op # "create"
        <4>1. q.todo = <<Statement("loadPayment")>>
          BY <2>1, <2>2, <3>2 DEF Program
        <4> QED
          BY <4>1
      <3> QED
        BY <3>1, <3>2
    <2>4. h.op \in {"insertPayment", "loadPayment"}
      BY <2>3, OtherStatements
    <2> QED
      BY <1>3, <1>4, <2>4
  <1>5. CASE Begun(q)
    <2>1. PaymentOK(q, held, pm) /\ PlanOK(q, held, d)
      BY <1>2, <1>5
    <2>2. /\ OnePerAccount(E, "entry") /\ OnePerAccount(P, "pend")
          /\ \A g \in Closing(q) : g \in Stmt /\ g.op \in {"setAccepted", "setRejected"}
          /\ q.req.op = "accept" => Split(q).op = "split"
      BY <1>2, <1>5, <2>1, PlanLemma
    <2>3. \/ h \in E \cup P \cup Closing(q)
          \/ \E e \in E : h = DailyOf(e)
          \/ q.req.op = "accept" /\ held \cap Account = {} /\ h = Split(q)
      BY <1>3, <2>1 DEF PlanOK
    <2>4. held \cap Account = {} =>
            /\ h.acct = FirstAccount(q.req)
            /\ h.op = IF q.req.op = "accept" THEN "split"
                      ELSE IF q.req.op = "post" THEN "entry" ELSE "pend"
      BY <1>2, <1>5, <2>1, OpeningLemma
    <2>5. \A e \in E : DailyOf(e).op = "daily"
      BY <2>2, DailyOfLemma DEF OnePerAccount
    <2>6. /\ \A e \in E : e.op = "entry"
          /\ \A e \in P : e.op = "pend"
      BY <2>2 DEF OnePerAccount
    <2> HIDE DEF h, E, P
    <2>7. h.op \notin {"insertPayment", "loadPayment"}
      BY <2>2, <2>3, <2>5, <2>6
    <2>8. /\ h.op = "entry" => h \in E
          /\ h.op = "pend" => h \in P
          /\ h.op = "daily" => \E e \in E : h = DailyOf(e)
      BY <2>2, <2>3, <2>5, <2>6
    <2>9. /\ h.op = "split" => /\ q.req.op = "accept" /\ held \cap Account = {}
                               /\ h = Split(q)
          /\ h.op \in {"setAccepted", "setRejected"} => h \in Closing(q)
      BY <2>2, <2>3, <2>5, <2>6
    <2> QED
      BY <1>3, <1>5, <2>4, <2>7, <2>8, <2>9 DEF h, E, P
  <1> QED
    BY <1>4, <1>5
-----------------------------------------------------------------------------
(* What one statement does to the state of its session.                    *)

(* A session's state depends on the rows it holds and on no others.        *)
LEMMA SessionFrame ==
  ASSUME NEW q, NEW held, NEW d, NEW pm, NEW d2, NEW pm2,
         SessionOK(q, held, d, pm),
         \A a \in Account \cap held : d2[a] = d[a],
         \A id \in PaymentId \cap held : pm2[id] = pm[id]
  PROVE  SessionOK(q, held, d2, pm2)
  <1>1. CASE q.pc = "idle"
    BY <1>1 DEF SessionOK
  <1>2. CASE q.pc # "idle" /\ ~Begun(q)
    BY <1>2 DEF SessionOK
  <1>3. CASE q.pc # "idle" /\ Begun(q)
    <2>1. /\ q.req \in Request /\ PaymentOK(q, held, pm) /\ PlanOK(q, held, d)
          /\ held \cap Account # {} => FirstAccount(q.req) \in held
          /\ Valid(q.req)
      BY <1>3 DEF SessionOK
    <2>2. PaymentOK(q, held, pm2)
      <3>1. CASE q.req.op = "post"
        BY <2>1, <3>1 DEF PaymentOK
      <3>2. CASE q.req.op # "post"
        <4>1. q.id \in PaymentId \cap held
          BY <1>3, <2>1, <3>2 DEF Begun, PaymentOK
        <4>2. pm2[q.id] = pm[q.id]
          BY <4>1
        <4> QED
          BY <2>1, <4>2 DEF PaymentOK
      <3> QED
        BY <3>1, <3>2
    <2>3. Entries(q, held, d2) = Entries(q, held, d)
      <3>1. CASE q.req.op = "accept" /\ held \cap Account # {}
        <4>1. PayAccount(q.pay) = FirstAccount(q.req)
          BY <1>3, <2>1, <3>1, PayLemma
        <4>2. PayAccount(q.pay) \in Account \cap held
          BY <2>1, <3>1, <4>1, FirstLemma
        <4> QED
          BY <3>1, <4>2 DEF Entries
      <3>2. CASE ~(q.req.op = "accept" /\ held \cap Account # {})
        BY <3>2 DEF Entries
      <3> QED
        BY <3>1, <3>2
    <2>4. PlanOK(q, held, d2)
      <3> DEFINE E == Entries(q, held, d)
                 P == Pends(q)
      <3>1. \A a \in Account : RowOK(a, held, d[a], q.work[a], E, P, Left(q), q.req.day, q.id)
        BY <2>1 DEF PlanOK
      <3>2. \A a \in Account : RowOK(a, held, d2[a], q.work[a], E, P, Left(q), q.req.day, q.id)
        BY <3>1 DEF RowOK
      <3> QED
        BY <2>1, <2>3, <3>2 DEF PlanOK
    <2> QED
      BY <1>3, <2>1, <2>2, <2>4 DEF SessionOK
  <1> QED
    BY <1>1, <1>2, <1>3

(* Opening and the sets of the plan are the same for sessions that differ  *)
(* in what is left and in their private rows.                              *)
LEMMA SamePlan ==
  ASSUME NEW q, NEW q2, q2.req = q.req, q2.id = q.id, q2.pay = q.pay
  PROVE  /\ Begun(q2) <=> Begun(q)
         /\ Opening(q2) = Opening(q)
         /\ Pends(q2) = Pends(q) /\ Closing(q2) = Closing(q) /\ Split(q2) = Split(q)
         /\ \A held, d : Entries(q2, held, d) = Entries(q, held, d)
  BY DEF Begun, Opening, Pends, Closing, Split, Entries

(* A statement on the account a brings its private row from the plan's one *)
(* state to the next and leaves the other rows.                            *)
LEMMA RowStep ==
  ASSUME NEW q, NEW q2, NEW held \in SUBSET Row, NEW d \in Ledgers, NEW pm, NEW a \in Account,
         q.pc = "run", Begun(q), SessionOK(q, held, d, pm), q.work \in Ledgers,
         q2.pc = "run", q2.req = q.req, q2.id = q.id, q2.pay = q.pay,
         IsInjective(q2.todo),
         NEW v, v.present, q2.work = [q.work EXCEPT ![a] = v],
         held \cap Account = {} => a = FirstAccount(q.req) /\ q.req.op # "accept",
         \E h \in Entries(q, held, d) \cup Pends(q) : h.acct = a,
         RowState(a, d[a], v, Entries(q, held, d), Pends(q), Left(q2), q.req.day, q.id),
         \A h \in Left(q2) : h \in Left(q) \/ \E e \in Entries(q, held, d) : h = DailyOf(e),
         \A h \in Entries(q, held, d) \cup Pends(q) :
           h.acct # a => (h \in Left(q2) <=> h \in Left(q)),
         \A h \in Entries(q, held, d) :
           h.acct # a => (DailyOf(h) \in Left(q2) <=> DailyOf(h) \in Left(q)),
         \A h \in Closing(q) : h \in Left(q2) <=> h \in Left(q)
  PROVE  SessionOK(q2, held \cup {a}, d, pm)
  <1> DEFINE held2 == held \cup {a}
             E == Entries(q, held, d)
             P == Pends(q)
  <1>1. /\ q.req \in Request /\ Valid(q.req)
        /\ held \cap Account # {} => FirstAccount(q.req) \in held
        /\ PaymentOK(q, held, pm) /\ PlanOK(q, held, d)
    BY DEF SessionOK
  <1>2. held2 \cap Account # {} /\ FirstAccount(q.req) \in held2
    BY <1>1
  <1>3. /\ Begun(q2) /\ Pends(q2) = P /\ Closing(q2) = Closing(q) /\ Split(q2) = Split(q)
        /\ Entries(q2, held2, d) = E
    <2>1. /\ Begun(q2) /\ Pends(q2) = P /\ Closing(q2) = Closing(q) /\ Split(q2) = Split(q)
          /\ Entries(q2, held2, d) = Entries(q, held2, d)
      BY SamePlan
    <2>2. Entries(q, held2, d) = E
      BY <1>2 DEF Entries
    <2> QED
      BY <2>1, <2>2
  <1>4. PaymentOK(q2, held2, pm)
    <2>1. held2 \cap PaymentId = held \cap PaymentId
      BY TxnAssumption
    <2>2. Closing(q2) \subseteq Left(q2) <=> Closing(q) \subseteq Left(q)
      BY <1>3
    <2> HIDE DEF held2
    <2> QED
      BY <1>1, <2>1, <2>2 DEF PaymentOK
  <1>5. PlanOK(q2, held2, d)
    <2>1. ASSUME NEW h \in Left(q2)
          PROVE  \/ h \in E \cup P \cup Closing(q2)
                 \/ \E e \in E : h = DailyOf(e)
      <3>1. CASE \E e \in E : h = DailyOf(e)
        BY <3>1
      <3>2. CASE h \in Left(q)
        <4>1. \/ h \in E \cup P \cup Closing(q)
              \/ \E e \in E : h = DailyOf(e)
              \/ q.req.op = "accept" /\ held \cap Account = {} /\ h = Split(q)
          BY <1>1, <3>2 DEF PlanOK
        <4> HIDE DEF E, P
        <4> QED
          BY <1>3, <4>1
      <3> QED
        BY <3>1, <3>2
    <2>2. ASSUME NEW b \in Account
          PROVE  RowOK(b, held2, d[b], q2.work[b], E, P, Left(q2), q2.req.day, q2.id)
      <3>1. RowOK(b, held, d[b], q.work[b], E, P, Left(q), q.req.day, q.id)
        BY <1>1 DEF PlanOK
      <3>2. CASE b = a
        <4>1. q2.work[a] = v
          BY DEF Ledgers
        <4> QED
          BY <3>2, <4>1 DEF RowOK
      <3>3. CASE b # a
        <4>1. q2.work[b] = q.work[b]
          BY <3>3 DEF Ledgers
        <4>2. b \in held2 <=> b \in held
          BY <3>3
        <4>3. /\ \A h \in E \cup P : h.acct = b => (h \in Left(q2) <=> h \in Left(q))
              /\ \A h \in E : h.acct = b => (DailyOf(h) \in Left(q2) <=> DailyOf(h) \in Left(q))
          BY <3>3
        <4> HIDE DEF E, P, held2
        <4> QED
          BY <3>1, <4>1, <4>2, <4>3, OtherRow
      <3> QED
        BY <3>2, <3>3
    <2> HIDE DEF E, P, held2
    <2> QED
      BY <1>3, <2>1, <2>2 DEF PlanOK
  <1> HIDE DEF held2
  <1> QED
    BY <1>1, <1>2, <1>3, <1>4, <1>5 DEF SessionOK, held2

(* The session q when it goes on with rest and has v as its row of a.      *)
Advance(q, rest, a, v) ==
  [[q EXCEPT !.todo = rest, !.missed = FALSE] EXCEPT !.work[a] = v]

LEMMA AdvanceLemma ==
  ASSUME NEW q \in SessionRecord, NEW rest \in Seq(Stmt), NEW a \in Account,
         NEW v \in AccountRow
  PROVE  LET q2 == Advance(q, rest, a, v)
         IN  /\ q2 \in SessionRecord
             /\ q2.pc = q.pc /\ q2.req = q.req /\ q2.id = q.id /\ q2.pay = q.pay
             /\ q2.todo = rest
             /\ q2.work = [q.work EXCEPT ![a] = v]
             /\ Left(q2) = Range(rest)
  <1> DEFINE q2 == Advance(q, rest, a, v)
  <1>1. q.work \in Ledgers
    BY DEF SessionRecord
  <1>2. [q.work EXCEPT ![a] = v] \in Ledgers
    BY <1>1 DEF Ledgers
  <1>3. q2 = [q EXCEPT !.todo = rest, !.missed = FALSE, !.work = [q.work EXCEPT ![a] = v]]
    BY DEF Advance, SessionRecord
  <1> HIDE DEF q2
  <1>4. /\ q2.pc = q.pc /\ q2.req = q.req /\ q2.id = q.id /\ q2.pay = q.pay
        /\ q2.todo = rest /\ q2.work = [q.work EXCEPT ![a] = v]
    BY <1>3 DEF SessionRecord
  <1>5. q2 \in SessionRecord
    BY <1>2, <1>3 DEF SessionRecord
  <1> QED
    BY <1>4, <1>5 DEF Left, q2

(* A running session in the middle of its plan.                            *)
LEMMA MiddleLemma ==
  ASSUME NEW q \in SessionRecord, q.pc = "run", NEW held, NEW d \in Ledgers, NEW pm,
         SessionOK(q, held, d, pm), Begun(q)
  PROVE  /\ q.req \in Request /\ Valid(q.req) /\ q.req.day \in Day /\ q.id \in Ref
         /\ q.work \in Ledgers
         /\ PaymentOK(q, held, pm) /\ PlanOK(q, held, d)
         /\ OnePerAccount(Entries(q, held, d), "entry")
         /\ OnePerAccount(Pends(q), "pend")
         /\ \A h \in Closing(q) : h \in Stmt /\ h.op \in {"setAccepted", "setRejected"}
  <1>1. /\ q.req \in Request /\ Valid(q.req)
        /\ PaymentOK(q, held, pm) /\ PlanOK(q, held, d)
    BY DEF SessionOK
  <1>2. q.id \in PaymentId \cup {NoRef} /\ q.work \in Ledgers
    BY DEF SessionRecord
  <1>3. q.id \in Ref
    BY <1>2, TxnAssumption, RefAssumption
  <1> QED
    BY <1>1, <1>2, <1>3, RequestLemma, PlanLemma

(* The row a statement starts from: the session's own version, or the      *)
(* committed row it has just locked.                                       *)
StartsFrom(w, a, q, held, d) == w = IF a \in held THEN q.work[a] ELSE PrivateRow(d[a])

LEMMA StartLemma ==
  ASSUME NEW q \in SessionRecord, q.pc = "run", NEW held, NEW d \in Ledgers, NEW pm,
         SessionOK(q, held, d, pm), Begun(q), NEW a \in Account, NEW w,
         StartsFrom(w, a, q, held, d)
  PROVE  /\ w \in AccountRow
         /\ RowState(a, d[a], w, Entries(q, held, d), Pends(q), Left(q), q.req.day, q.id)
  <1> DEFINE E == Entries(q, held, d)
             P == Pends(q)
  <1>1. RowOK(a, held, d[a], q.work[a], E, P, Left(q), q.req.day, q.id)
    BY MiddleLemma DEF PlanOK
  <1>2. q.work[a] \in AccountRow /\ d[a] \in AccountRow
    BY MiddleLemma DEF Ledgers
  <1> HIDE DEF E, P
  <1>3. CASE a \in held
    <2>1. w = q.work[a]
      BY <1>3 DEF StartsFrom
    <2>2. RowState(a, d[a], w, E, P, Left(q), q.req.day, q.id)
      BY <1>1, <1>3, <2>1 DEF RowOK
    <2> QED
      BY <1>2, <2>1, <2>2 DEF E, P
  <1>4. CASE a \notin held
    <2>1. /\ \A h \in E \cup P : h.acct = a => h \in Left(q)
          /\ \A h \in E : h.acct = a => DailyOf(h) \notin Left(q)
      BY <1>1, <1>4 DEF RowOK
    <2>2. w = PrivateRow(d[a])
      BY <1>4 DEF StartsFrom
    <2> QED
      BY <1>2, <2>1, <2>2, BaseRow DEF E, P
  <1> QED
    BY <1>3, <1>4

LEMMA EntrySession ==
  ASSUME NEW q \in SessionRecord, q.pc = "run", NEW held \in SUBSET Row, NEW d \in Ledgers,
         NEW pm, SessionOK(q, held, d, pm), q.todo # << >>, Head(q.todo).op = "entry",
         NEW w, StartsFrom(w, Head(q.todo).acct, q, held, d)
  PROVE  LET h == Head(q.todo)
             q2 == Advance(q, << DailyOf(h) >> \o Tail(q.todo), h.acct,
                           moveBalance(w, h.kind, h.delta, q.req.day, q.id))
         IN  /\ q2 \in SessionRecord
             /\ SessionOK(q2, held \cup {h.acct}, d, pm)
  <1> DEFINE h == Head(q.todo)
             a == h.acct
             E == Entries(q, held, d)
             P == Pends(q)
             rest == << DailyOf(h) >> \o Tail(q.todo)
             v == moveBalance(w, h.kind, h.delta, q.req.day, q.id)
             q2 == Advance(q, rest, a, v)
  <1>1. /\ h \in Stmt /\ h \in Left(q) /\ h \in E /\ Begun(q)
        /\ Tail(q.todo) \in Seq(Stmt) /\ IsInjective(Tail(q.todo))
        /\ Range(Tail(q.todo)) = Left(q) \ {h}
        /\ held \cap Account = {} => a = FirstAccount(q.req) /\ q.req.op # "accept"
    BY HeadLemma
  <1>2. /\ q.req.day \in Day /\ q.id \in Ref /\ q.work \in Ledgers
        /\ OnePerAccount(E, "entry") /\ OnePerAccount(P, "pend")
        /\ \A g \in Closing(q) : g.op \in {"setAccepted", "setRejected"}
    BY <1>1, MiddleLemma
  <1>3. /\ DailyOf(h) \in Stmt /\ DailyOf(h).op = "daily" /\ DailyOf(h).acct = a
        /\ h.op = "entry" /\ a \in Account
    BY <1>1, <1>2, DailyOfLemma DEF OnePerAccount
  <1>4. /\ w \in AccountRow /\ d[a] \in AccountRow
        /\ RowState(a, d[a], w, E, P, Left(q), q.req.day, q.id)
    BY <1>1, <1>3, StartLemma DEF Ledgers
  <1>5. /\ v \in AccountRow /\ v.present
        /\ RowState(a, d[a], v, E, P, (Left(q) \ {h}) \cup {DailyOf(h)}, q.req.day, q.id)
    BY <1>1, <1>2, <1>3, <1>4, EntryOnRow
  <1>6. DailyOf(h) \notin Left(q)
    BY <1>1, <1>4 DEF RowState
  <1> HIDE DEF h
  <1>7. /\ rest \in Seq(Stmt) /\ IsInjective(rest)
        /\ Range(rest) = (Left(q) \ {h}) \cup {DailyOf(h)}
    <2> DEFINE x == DailyOf(h)
               t == Tail(q.todo)
    <2>1. x \in Stmt /\ t \in Seq(Stmt) /\ IsInjective(t) /\ Range(t) = Left(q) \ {h}
          /\ x \notin Range(t)
      BY <1>1, <1>3, <1>6
    <2>2. rest = <<x>> \o t
      OBVIOUS
    <2> HIDE DEF x, t, rest
    <2>3. rest \in Seq(Stmt) /\ IsInjective(rest) /\ Range(rest) = {x} \cup Range(t)
      BY <2>1, <2>2, ConsLemma
    <2> QED
      BY <2>1, <2>3 DEF x
  <1> HIDE DEF a, rest, v, E, P
  <1>8. /\ q2 \in SessionRecord
        /\ q2.pc = q.pc /\ q2.req = q.req /\ q2.id = q.id /\ q2.pay = q.pay
        /\ q2.todo = rest
        /\ q2.work = [q.work EXCEPT ![a] = v]
        /\ Left(q2) = (Left(q) \ {h}) \cup {DailyOf(h)}
    BY <1>3, <1>5, <1>7, AdvanceLemma
  <1> HIDE DEF q2
  <1>9. \A g \in E : /\ g \in Stmt /\ g.op = "entry" /\ g.acct \in Account
                     /\ DailyOf(g).op = "daily" /\ DailyOf(g).acct = g.acct
    BY <1>2, DailyOfLemma DEF OnePerAccount
  <1>10. \A g \in P : g.op = "pend"
    BY <1>2 DEF OnePerAccount
  <1>11. \E g \in E \cup P : g.acct = a
    BY <1>1 DEF a
  <1>12. \A g \in Left(q2) : g \in Left(q) \/ \E e \in E : g = DailyOf(e)
    BY <1>1, <1>8
  <1>13. \A g \in E \cup P : g.acct # a => (g \in Left(q2) <=> g \in Left(q))
    BY <1>3, <1>8, <1>9, <1>10 DEF a
  <1>14. \A g \in E : g.acct # a => (DailyOf(g) \in Left(q2) <=> DailyOf(g) \in Left(q))
    BY <1>3, <1>8, <1>9
  <1>15. \A g \in Closing(q) : g \in Left(q2) <=> g \in Left(q)
    BY <1>2, <1>3, <1>8
  <1>16. SessionOK(q2, held \cup {a}, d, pm)
    BY <1>1, <1>2, <1>3, <1>5, <1>7, <1>8, <1>11, <1>12, <1>13, <1>14, <1>15, RowStep, ZenonT(90)
       DEF E, P
  <1> QED
    BY <1>8, <1>16 DEF q2, rest, v, a, h

LEMMA PendSession ==
  ASSUME NEW q \in SessionRecord, q.pc = "run", NEW held \in SUBSET Row, NEW d \in Ledgers,
         NEW pm, SessionOK(q, held, d, pm), q.todo # << >>, Head(q.todo).op = "pend",
         NEW w, StartsFrom(w, Head(q.todo).acct, q, held, d)
  PROVE  LET h == Head(q.todo)
             q2 == Advance(q, Tail(q.todo), h.acct, adjustPendingRow(w, h.delta))
         IN  /\ q2 \in SessionRecord
             /\ SessionOK(q2, held \cup {h.acct}, d, pm)
  <1> DEFINE h == Head(q.todo)
             a == h.acct
             E == Entries(q, held, d)
             P == Pends(q)
             rest == Tail(q.todo)
             v == adjustPendingRow(w, h.delta)
             q2 == Advance(q, rest, a, v)
  <1>1. /\ h \in Stmt /\ h \in Left(q) /\ h \in P /\ Begun(q)
        /\ rest \in Seq(Stmt) /\ IsInjective(rest)
        /\ Range(rest) = Left(q) \ {h}
        /\ held \cap Account = {} => a = FirstAccount(q.req) /\ q.req.op # "accept"
    BY HeadLemma
  <1>2. /\ q.req.day \in Day /\ q.id \in Ref /\ q.work \in Ledgers
        /\ OnePerAccount(E, "entry") /\ OnePerAccount(P, "pend")
        /\ \A g \in Closing(q) : g.op \in {"setAccepted", "setRejected"}
    BY <1>1, MiddleLemma
  <1>3. h.op = "pend" /\ a \in Account
    BY <1>1, <1>2 DEF OnePerAccount
  <1>4. /\ w \in AccountRow /\ d[a] \in AccountRow
        /\ RowState(a, d[a], w, E, P, Left(q), q.req.day, q.id)
    BY <1>1, <1>3, StartLemma DEF Ledgers
  <1>5. /\ v \in AccountRow /\ v.present
        /\ RowState(a, d[a], v, E, P, Left(q) \ {h}, q.req.day, q.id)
    BY <1>1, <1>2, <1>3, <1>4, PendOnRow
  <1> HIDE DEF h, a, rest, v, E, P
  <1>6. /\ q2 \in SessionRecord
        /\ q2.pc = q.pc /\ q2.req = q.req /\ q2.id = q.id /\ q2.pay = q.pay
        /\ q2.todo = rest
        /\ q2.work = [q.work EXCEPT ![a] = v]
        /\ Left(q2) = Left(q) \ {h}
    BY <1>1, <1>3, <1>5, AdvanceLemma
  <1> HIDE DEF q2
  <1>7. \A g \in E : g.op = "entry" /\ DailyOf(g).op = "daily"
    BY <1>2, DailyOfLemma DEF OnePerAccount
  <1>8. \E g \in E \cup P : g.acct = a
    BY <1>1 DEF a
  <1>9. \A g \in Left(q2) : g \in Left(q) \/ \E e \in E : g = DailyOf(e)
    BY <1>6
  <1>10. \A g \in E \cup P : g.acct # a => (g \in Left(q2) <=> g \in Left(q))
    BY <1>6 DEF a
  <1>11. \A g \in E : g.acct # a => (DailyOf(g) \in Left(q2) <=> DailyOf(g) \in Left(q))
    BY <1>3, <1>6, <1>7
  <1>12. \A g \in Closing(q) : g \in Left(q2) <=> g \in Left(q)
    BY <1>2, <1>3, <1>6
  <1>13. SessionOK(q2, held \cup {a}, d, pm)
    BY <1>1, <1>2, <1>3, <1>5, <1>6, <1>8, <1>9, <1>10, <1>11, <1>12, RowStep, ZenonT(90) DEF E, P
  <1> QED
    BY <1>6, <1>13 DEF q2, rest, v, a, h

(* The daily row is written to the session's own version of a row that it  *)
(* holds already.                                                          *)
LEMMA DailySession ==
  ASSUME NEW q \in SessionRecord, q.pc = "run", NEW held \in SUBSET Row, NEW d \in Ledgers,
         NEW pm, SessionOK(q, held, d, pm), q.todo # << >>, Head(q.todo).op = "daily"
  PROVE  LET h == Head(q.todo)
             a == h.acct
             v == WithDaily(q.work[a], d[a], q.req.day, h.delta)
             q2 == Advance(q, Tail(q.todo), a, v)
         IN  /\ a \in Account /\ a \in held
             /\ q2 \in SessionRecord
             /\ SessionOK(q2, held, d, pm)
  <1> DEFINE h == Head(q.todo)
             a == h.acct
             E == Entries(q, held, d)
             P == Pends(q)
             rest == Tail(q.todo)
             w == q.work[a]
             v == WithDaily(w, d[a], q.req.day, h.delta)
             q2 == Advance(q, rest, a, v)
  <1>1. /\ h \in Stmt /\ h \in Left(q) /\ Begun(q)
        /\ \E e \in E : h = DailyOf(e)
        /\ rest \in Seq(Stmt) /\ IsInjective(rest)
        /\ Range(rest) = Left(q) \ {h}
        /\ held \cap Account # {}
    BY HeadLemma
  <1>2. /\ q.req.day \in Day /\ q.id \in Ref /\ q.work \in Ledgers /\ PlanOK(q, held, d)
        /\ OnePerAccount(E, "entry") /\ OnePerAccount(P, "pend")
        /\ \A g \in Closing(q) : g.op \in {"setAccepted", "setRejected"}
    BY <1>1, MiddleLemma
  <1>3. PICK e \in E : h = DailyOf(e)
    BY <1>1
  <1>4. \A g \in E : /\ g \in Stmt /\ g.op = "entry" /\ g.acct \in Account
                     /\ DailyOf(g).op = "daily" /\ DailyOf(g).acct = g.acct
                     /\ DailyOf(g).delta = g.delta
    BY <1>2, DailyOfLemma DEF OnePerAccount
  <1>5. e.acct = a /\ a \in Account /\ e.delta = h.delta /\ h.op = "daily"
    BY <1>3, <1>4
  <1>6. RowOK(a, held, d[a], w, E, P, Left(q), q.req.day, q.id)
    BY <1>2, <1>5 DEF PlanOK
  <1>7. a \in held
    BY <1>1, <1>3, <1>5, <1>6 DEF RowOK
  <1>8. /\ w \in AccountRow /\ d[a] \in AccountRow /\ w.present
        /\ RowState(a, d[a], w, E, P, Left(q), q.req.day, q.id)
    BY <1>2, <1>5, <1>6, <1>7 DEF RowOK, Ledgers
  <1>9. /\ v \in AccountRow /\ v.present
        /\ RowState(a, d[a], v, E, P, Left(q) \ {DailyOf(e)}, q.req.day, q.id)
    <2> HIDE DEF w, E, P, h, a
    <2> DEFINE y == WithDaily(w, d[a], q.req.day, e.delta)
    <2>1. DailyOf(e) \in Left(q)
      BY <1>1, <1>3
    <2>2. /\ y \in AccountRow /\ y.present = w.present
          /\ RowState(a, d[a], y, E, P, Left(q) \ {DailyOf(e)}, q.req.day, q.id)
      BY <1>2, <1>3, <1>5, <1>8, <2>1, DailyOnRow
    <2>3. y = v
      BY <1>5
    <2> HIDE DEF y, v
    <2> QED
      BY <1>8, <2>2, <2>3
  <1>10. q2 = Advance(q, rest, a, v)
    OBVIOUS
  <1> HIDE DEF a, rest, v, w, E, P, q2
  <1>11. /\ q2 \in SessionRecord
         /\ q2.pc = q.pc /\ q2.req = q.req /\ q2.id = q.id /\ q2.pay = q.pay
         /\ q2.todo = rest
         /\ q2.work = [q.work EXCEPT ![a] = v]
         /\ Left(q2) = Left(q) \ {h}
    BY <1>1, <1>5, <1>9, <1>10, AdvanceLemma
  <1> HIDE DEF h
  <1>12. \A g \in P : g.op = "pend"
    BY <1>2 DEF OnePerAccount
  <1>13. \E g \in E \cup P : g.acct = a
    BY <1>3, <1>5
  <1>14. \A g \in Left(q2) : g \in Left(q) \/ \E f \in E : g = DailyOf(f)
    BY <1>11
  <1>15. \A g \in E \cup P : g.acct # a => (g \in Left(q2) <=> g \in Left(q))
    BY <1>4, <1>5, <1>11, <1>12
  <1>16. \A g \in E : g.acct # a => (DailyOf(g) \in Left(q2) <=> DailyOf(g) \in Left(q))
    BY <1>3, <1>4, <1>5, <1>11
  <1>17. \A g \in Closing(q) : g \in Left(q2) <=> g \in Left(q)
    BY <1>2, <1>5, <1>11
  <1>18. SessionOK(q2, held \cup {a}, d, pm)
    BY <1>1, <1>2, <1>3, <1>5, <1>9, <1>11, <1>13, <1>14, <1>15, <1>16, <1>17, RowStep, ZenonT(90)
       DEF E, P
  <1>19. held \cup {a} = held
    BY <1>7
  <1>20. SessionOK(q2, held, d, pm)
    BY <1>18, <1>19
  <1> QED
    BY <1>5, <1>7, <1>11, <1>20 DEF q2, rest, v, w, a, h

(* A session that has just got what it needs to begin has its whole plan   *)
(* ahead.                                                                  *)
LEMMA FreshSession ==
  ASSUME NEW q, q.pc = "run", q.req \in Request, Valid(q.req), NEW held, NEW d, NEW pm,
         Begun(q), PaymentOK(q, held, pm), held \cap Account = {},
         q.todo = Opening(q), q.work = EmptyLedger, d \in Ledgers
  PROVE  SessionOK(q, held, d, pm)
  <1> DEFINE E == Entries(q, held, d)
             P == Pends(q)
  <1>1. /\ IsInjective(q.todo)
        /\ Left(q) = E \cup P \cup Closing(q)
                       \cup (IF q.req.op = "accept" THEN {Split(q)} ELSE {})
    BY OpeningLemma DEF Left
  <1>2. /\ OnePerAccount(E, "entry") /\ OnePerAccount(P, "pend")
        /\ \A h \in Closing(q) : h \in Stmt /\ h.op \in {"setAccepted", "setRejected"}
        /\ q.req.op = "accept" => Split(q).op = "split"
    BY PlanLemma
  <1>3. \A h \in E : DailyOf(h).op = "daily" /\ h.op = "entry"
    BY <1>2, DailyOfLemma DEF OnePerAccount
  <1>4. \A h \in P : h.op = "pend"
    BY <1>2 DEF OnePerAccount
  <1>5. \A h \in Left(q) : \/ h \in E \cup P \cup Closing(q)
                           \/ q.req.op = "accept" /\ held \cap Account = {} /\ h = Split(q)
    BY <1>1
  <1>6. \A h \in E : DailyOf(h) \notin Left(q)
    BY <1>1, <1>2, <1>3, <1>4
  <1> HIDE DEF E, P
  <1>7. ASSUME NEW a \in Account
        PROVE  RowOK(a, held, d[a], q.work[a], E, P, Left(q), q.req.day, q.id)
    <2>1. a \notin held /\ q.work[a] = NoAccount
      BY DEF EmptyLedger
    <2> QED
      BY <1>1, <1>6, <2>1 DEF RowOK
  <1>8. PlanOK(q, held, d)
    BY <1>5, <1>7 DEF PlanOK, E, P
  <1> QED
    BY <1>1, <1>8 DEF SessionOK

LEMMA IdleLemma == Idle \in SessionRecord
  <1>1. << >> \in Seq(Stmt)
    OBVIOUS
  <1> QED
    BY <1>1, EmptyLedgerLemma DEF Idle, SessionRecord

LEMMA BeginSession ==
  ASSUME NEW r \in Request, Valid(r), NEW d \in Ledgers, NEW pm
  PROVE  LET q == [Idle EXCEPT !.pc = "run", !.req = r, !.todo = Program(r)]
         IN  q \in SessionRecord /\ SessionOK(q, {}, d, pm)
  <1> DEFINE q == [Idle EXCEPT !.pc = "run", !.req = r, !.todo = Program(r)]
  <1>1. r.op \in {"post", "create", "accept", "reject"}
    BY RequestLemma
  <1>2. Program(r) \in Seq(Stmt) /\ IsInjective(Program(r))
    <2>1. CASE r.op = "post"
      <3>1. Program(r) = Legs(<<r.team, r.forTeam, r.bt>>, r.kind, r.amount)
        BY <2>1 DEF Program
      <3>2. <<r.team, r.forTeam, r.bt>> \in Account /\ r.kind \in ChangeType /\ r.amount \in Int
        BY <2>1, FirstLemma, RequestLemma DEF Account
      <3> QED
        BY <3>1, <3>2, LegsLemma
    <2>2. CASE r.op = "create"
      <3> DEFINE x == Statement("insertPayment")
                 t == PendingPair(r.team, r.forTeam, r.amount)
      <3>1. Program(r) = <<x>> \o t
        BY <2>2 DEF Program
      <3>2. r.team \in Team /\ r.forTeam \in Team /\ r.amount \in Int
        BY <2>2, RequestLemma
      <3>3. x \in Stmt /\ x.op = "insertPayment"
        BY OtherStatements
      <3>4. /\ t \in Seq(Stmt) /\ IsInjective(t)
            /\ Range(t) = TwoPends(r.team, r.forTeam, r.amount)
        BY <3>2, PendingSeq
      <3>5. x \notin Range(t)
        BY <3>2, <3>3, <3>4, PendingSet DEF OnePerAccount
      <3> HIDE DEF x, t
      <3> QED
        BY <3>1, <3>3, <3>4, <3>5, ConsLemma
    <2>3. CASE r.op \in {"accept", "reject"}
      <3> DEFINE x == Statement("loadPayment")
      <3>1. Program(r) = <<x>>
        BY <2>3 DEF Program
      <3>2. x \in Stmt
        BY OtherStatements
      <3> HIDE DEF x
      <3>3. <<x>> \in Seq(Stmt) /\ IsInjective(<<x>>)
        BY <3>2, ShortSeqSet
      <3> QED
        BY <3>1, <3>3
    <2> QED
      BY <1>1, <2>1, <2>2, <2>3
  <1>3. /\ q.pc = "run" /\ q.req = r /\ q.todo = Program(r) /\ q.missed = FALSE
        /\ q.work = EmptyLedger /\ q.id = NoRef /\ q.pay = NoPayment
    BY DEF Idle
  <1>4. q \in SessionRecord
    BY <1>2, IdleLemma DEF SessionRecord
  <1> HIDE DEF q
  <1>5. CASE r.op = "post"
    <2>1. Begun(q) /\ Opening(q) = Program(r) /\ PaymentOK(q, {}, pm)
      BY <1>3, <1>5 DEF Begun, Opening, PaymentOK
    <2>2. SessionOK(q, {}, d, pm)
      BY <1>3, <2>1, FreshSession
    <2> QED
      BY <1>4, <2>2 DEF q
  <1>6. CASE r.op # "post"
    <2>1. ~Begun(q) /\ Opening(q) = Program(r)
      BY <1>3, <1>6 DEF Begun, Opening
    <2>2. SessionOK(q, {}, d, pm)
      BY <1>2, <1>3, <2>1 DEF SessionOK
    <2> QED
      BY <1>4, <2>2 DEF q
  <1> QED
    BY <1>5, <1>6

(* A session gets its payment row, with what follows ahead.                *)
WithPayment(q, rest, id, p) ==
  [[q EXCEPT !.todo = rest, !.missed = FALSE] EXCEPT !.id = id, !.pay = p]

LEMMA WithPaymentLemma ==
  ASSUME NEW q \in SessionRecord, NEW rest \in Seq(Stmt), NEW id \in PaymentId,
         NEW p \in L!InvoicePayment
  PROVE  LET q2 == WithPayment(q, rest, id, p)
         IN  /\ q2 \in SessionRecord
             /\ q2.pc = q.pc /\ q2.req = q.req /\ q2.work = q.work
             /\ q2.id = id /\ q2.pay = p /\ q2.todo = rest
  <1> DEFINE q2 == WithPayment(q, rest, id, p)
  <1>1. q2 = [q EXCEPT !.todo = rest, !.missed = FALSE, !.id = id, !.pay = p]
    BY DEF WithPayment, SessionRecord
  <1> HIDE DEF q2
  <1>2. /\ q2.pc = q.pc /\ q2.req = q.req /\ q2.work = q.work
        /\ q2.id = id /\ q2.pay = p /\ q2.todo = rest
    BY <1>1 DEF SessionRecord
  <1>3. q2 \in SessionRecord
    BY <1>1 DEF SessionRecord
  <1> QED
    BY <1>2, <1>3 DEF q2

LEMMA InsertSession ==
  ASSUME NEW q \in SessionRecord, q.pc = "run", NEW held, NEW d \in Ledgers, NEW pm,
         SessionOK(q, held, d, pm), q.todo # << >>, Head(q.todo).op = "insertPayment",
         NEW id \in PaymentId, pm[id] = NoPayment
  PROVE  LET r == q.req
             p == [status |-> "PENDING", team |-> r.team, forTeam |-> r.forTeam,
                   amount |-> r.amount, acceptedAt |-> {}]
             q2 == WithPayment(q, Tail(q.todo), id, p)
         IN  /\ held = {}
             /\ q2 \in SessionRecord
             /\ SessionOK(q2, {id}, d, pm)
  <1> DEFINE r == q.req
             t == PendingPair(r.team, r.forTeam, r.amount)
             p == [status |-> "PENDING", team |-> r.team, forTeam |-> r.forTeam,
                   amount |-> r.amount, acceptedAt |-> {}]
             q2 == WithPayment(q, Tail(q.todo), id, p)
  <1>1. ~Begun(q)
    BY HeadLemma
  <1>2. /\ r \in Request /\ Valid(r) /\ held = {} /\ q.work = EmptyLedger
        /\ q.todo = Program(r)
    BY <1>1 DEF SessionOK, Opening
  <1>3. r.op = "create"
    <2>1. r.op \in {"create", "accept", "reject"}
      BY <1>1, <1>2, RequestLemma DEF Begun
    <2>2. r.op # "create" => q.todo = << Statement("loadPayment") >>
      BY <1>2, <2>1 DEF Program
    <2>3. Statement("loadPayment").op = "loadPayment"
      BY OtherStatements
    <2> QED
      BY <2>1, <2>2, <2>3
  <1>4. r.team \in Team /\ r.forTeam \in Team /\ r.amount \in Int
    BY <1>2, <1>3, RequestLemma
  <1>5. t \in Seq(Stmt) /\ Tail(q.todo) = t
    <2>1. q.todo = << Statement("insertPayment") >> \o t
      BY <1>2, <1>3 DEF Program
    <2>2. Statement("insertPayment") \in Stmt
      BY OtherStatements
    <2>3. t \in Seq(Stmt)
      BY <1>4, PendingSeq
    <2> HIDE DEF t
    <2> QED
      BY <2>1, <2>2, <2>3, ConsLemma
  <1>6. p \in L!InvoicePayment
    BY <1>4 DEF L!InvoicePayment
  <1> HIDE DEF p
  <1>7. /\ q2 \in SessionRecord
        /\ q2.pc = "run" /\ q2.req = r /\ q2.work = EmptyLedger
        /\ q2.id = id /\ q2.pay = p /\ q2.todo = t
    <2>1. q2 = WithPayment(q, t, id, p)
      BY <1>5
    <2> HIDE DEF q2, t
    <2> QED
      BY <1>2, <1>5, <1>6, <2>1, WithPaymentLemma
  <1> HIDE DEF q2
  <1>8. id # NoRef
    BY TxnAssumption
  <1>9. Begun(q2) /\ Opening(q2) = t
    BY <1>3, <1>7, <1>8 DEF Begun, Opening
  <1>10. PaymentOK(q2, {id}, pm)
    BY <1>3, <1>7, <1>8 DEF PaymentOK, p
  <1>11. {id} \cap Account = {}
    BY TxnAssumption
  <1>12. SessionOK(q2, {id}, d, pm)
    BY <1>2, <1>7, <1>9, <1>10, <1>11, FreshSession
  <1> QED
    BY <1>2, <1>7, <1>12 DEF q2, p

(* Only the requests that name a payment load one.                         *)
LEMMA LoadRequest ==
  ASSUME NEW q \in SessionRecord, q.pc = "run", NEW held, NEW d \in Ledgers, NEW pm,
         SessionOK(q, held, d, pm), q.todo # << >>, Head(q.todo).op = "loadPayment"
  PROVE  /\ q.req \in Request /\ Valid(q.req) /\ held = {} /\ q.work = EmptyLedger
         /\ q.req.op \in {"accept", "reject"}
         /\ q.req.id \in PaymentId
  <1> DEFINE r == q.req
  <1>1. ~Begun(q)
    BY HeadLemma
  <1>2. /\ r \in Request /\ Valid(r) /\ held = {} /\ q.work = EmptyLedger
        /\ q.todo = Program(r)
    BY <1>1 DEF SessionOK, Opening
  <1>3. r.op \in {"accept", "reject"}
    <2>1. r.op \in {"create", "accept", "reject"}
      BY <1>1, <1>2, RequestLemma DEF Begun
    <2>2. ASSUME r.op = "create" PROVE FALSE
      <3> DEFINE t == PendingPair(r.team, r.forTeam, r.amount)
      <3>1. q.todo = << Statement("insertPayment") >> \o t
        BY <1>2, <2>2 DEF Program
      <3>2. Statement("insertPayment") \in Stmt /\ Statement("insertPayment").op = "insertPayment"
        BY OtherStatements
      <3>3. t \in Seq(Stmt)
        BY <1>2, <2>2, RequestLemma, PendingSeq
      <3> HIDE DEF t
      <3>4. Head(q.todo) = Statement("insertPayment")
        BY <3>1, <3>2, <3>3, ConsLemma
      <3> QED
        BY <3>2, <3>4
    <2> QED
      BY <2>1, <2>2
  <1>4. r.id \in PaymentId
    BY <1>2, <1>3, RequestLemma
  <1> QED
    BY <1>2, <1>3, <1>4

LEMMA LoadSession ==
  ASSUME NEW q \in SessionRecord, q.pc = "run", NEW held, NEW d \in Ledgers, NEW pm,
         SessionOK(q, held, d, pm), q.todo # << >>, Head(q.todo).op = "loadPayment",
         pm[q.req.id] \in L!InvoicePayment, pm[q.req.id].status = "PENDING",
         pm[q.req.id].team = q.req.team, pm[q.req.id].forTeam = q.req.forTeam,
         pm[q.req.id].team # pm[q.req.id].forTeam
  PROVE  LET r == q.req
             q2 == WithPayment(q, AfterLoad(r, pm[r.id]), r.id, pm[r.id])
         IN  /\ held = {} /\ r.id \in PaymentId
             /\ q2 \in SessionRecord
             /\ SessionOK(q2, {r.id}, d, pm)
  <1> DEFINE r == q.req
             p == pm[r.id]
             q2 == WithPayment(q, AfterLoad(r, p), r.id, p)
  <1>1. /\ r \in Request /\ Valid(r) /\ held = {} /\ q.work = EmptyLedger
        /\ r.op \in {"accept", "reject"} /\ r.id \in PaymentId
    BY LoadRequest
  <1>2. AfterLoad(r, p) \in Seq(Stmt) /\ IsInjective(AfterLoad(r, p))
    BY <1>1, AfterLoadLemma
  <1>3. /\ q2 \in SessionRecord
        /\ q2.pc = "run" /\ q2.req = r /\ q2.work = EmptyLedger
        /\ q2.id = r.id /\ q2.pay = p /\ q2.todo = AfterLoad(r, p)
    BY <1>1, <1>2, WithPaymentLemma
  <1> HIDE DEF q2
  <1>4. r.id # NoRef
    BY <1>1, TxnAssumption
  <1>5. Begun(q2) /\ Opening(q2) = AfterLoad(r, p)
    BY <1>1, <1>3, <1>4 DEF Begun, Opening
  <1>6. Closing(q2) \subseteq Left(q2)
    BY <1>1, <1>3, AfterLoadLemma DEF Closing, Left
  <1>7. PaymentOK(q2, {r.id}, pm)
    BY <1>1, <1>3, <1>4, <1>6 DEF PaymentOK
  <1>8. {r.id} \cap Account = {}
    BY <1>1, TxnAssumption
  <1>9. SessionOK(q2, {r.id}, d, pm)
    BY <1>1, <1>3, <1>5, <1>7, <1>8, FreshSession
  <1> QED
    BY <1>1, <1>3, <1>9 DEF q2

(* Reading the payer's balance decides the postings of an accepted         *)
(* payment: it holds the row from then on.                                 *)
LEMMA SplitSession ==
  ASSUME NEW q \in SessionRecord, q.pc = "run", NEW held \in SUBSET Row, NEW d \in Ledgers,
         NEW pm, SessionOK(q, held, d, pm), q.todo # << >>, Head(q.todo).op = "split",
         NEW w, StartsFrom(w, Head(q.todo).acct, q, held, d)
  PROVE  LET h == Head(q.todo)
             q2 == Advance(q, SplitPayment(w.balance, q.pay) \o Tail(q.todo), h.acct,
                           lockOrCreateBalance(w))
         IN  /\ q2 \in SessionRecord
             /\ SessionOK(q2, held \cup {h.acct}, d, pm)
  <1> DEFINE h == Head(q.todo)
             a == h.acct
             r == q.req
             P == Pends(q)
             E2 == SplitLegs(d[a].balance, q.pay)
             rest == SplitPayment(w.balance, q.pay) \o Tail(q.todo)
             v == lockOrCreateBalance(w)
             held2 == held \cup {a}
             q2 == Advance(q, rest, a, v)
  <1>1. /\ Begun(q) /\ r.op = "accept" /\ held \cap Account = {} /\ h = Split(q)
        /\ Tail(q.todo) \in Seq(Stmt) /\ IsInjective(Tail(q.todo))
        /\ Range(Tail(q.todo)) = Left(q) \ {h}
    BY HeadLemma
  <1>2. /\ r \in Request /\ Valid(r) /\ r.day \in Day /\ q.id \in Ref /\ q.work \in Ledgers
        /\ PaymentOK(q, held, pm) /\ PlanOK(q, held, d)
        /\ OnePerAccount(P, "pend")
        /\ \A g \in Closing(q) : g \in Stmt /\ g.op \in {"setAccepted", "setRejected"}
    BY <1>1, MiddleLemma
  <1>3. /\ q.pay \in L!InvoicePayment /\ q.pay.team # q.pay.forTeam
        /\ PayAccount(q.pay) = FirstAccount(r)
    BY <1>1, <1>2, PayLemma
  <1>4. a = FirstAccount(r) /\ a \in Account /\ h.op = "split"
    <2>1. h.acct = PayAccount(q.pay)
      BY <1>1, <1>2, PlanLemma
    <2> QED
      BY <1>2, <1>3, <2>1, FirstLemma
  <1>5. w = PrivateRow(d[a])
    BY <1>1, <1>4 DEF StartsFrom
  <1>6. d[a] \in AccountRow /\ w.balance = d[a].balance /\ d[a].balance \in Int
    <2>1. d[a] \in AccountRow
      BY <1>4 DEF Ledgers
    <2>2. w.balance = d[a].balance
      BY <1>5, <2>1 DEF PrivateRow, AccountRow
    <2> QED
      BY <2>1, <2>2, RowTypeLemma
  <1>7. /\ SplitPayment(w.balance, q.pay) \in Seq(Stmt)
        /\ Range(SplitPayment(w.balance, q.pay)) = E2
        /\ IsInjective(SplitPayment(w.balance, q.pay))
        /\ OnePerAccount(E2, "entry")
    BY <1>3, <1>6, SplitLemma
  <1>8. Left(q) = P \cup Closing(q) \cup {h}
    <2>1. q.todo = Opening(q)
      BY <1>1 DEF SessionOK
    <2>2. Entries(q, held, d) = {}
      BY <1>1 DEF Entries
    <2> QED
      BY <1>1, <1>2, <2>1, <2>2, OpeningLemma DEF Left
  <1> HIDE DEF E2, P, a
  <1>9. \A g \in E2 : /\ g \in Stmt /\ g.op = "entry"
                      /\ DailyOf(g).op = "daily" /\ DailyOf(g).acct = g.acct
    BY <1>7, DailyOfLemma DEF OnePerAccount
  <1>10. \A g \in P : g.op = "pend"
    BY <1>2 DEF OnePerAccount
  <1>11. Range(Tail(q.todo)) = P \cup Closing(q)
    BY <1>1, <1>2, <1>4, <1>8, <1>10
  <1>12. /\ rest \in Seq(Stmt) /\ IsInjective(rest)
         /\ Range(rest) = E2 \cup P \cup Closing(q)
    <2> DEFINE s == SplitPayment(w.balance, q.pay)
               t == Tail(q.todo)
    <2>1. /\ s \in Seq(Stmt) /\ Range(s) = E2 /\ IsInjective(s)
          /\ t \in Seq(Stmt) /\ Range(t) = P \cup Closing(q) /\ IsInjective(t)
      BY <1>1, <1>7, <1>11
    <2>2. \A g \in Range(s) : g \notin Range(t)
      BY <1>2, <1>9, <1>10, <2>1
    <2>3. rest = s \o t
      OBVIOUS
    <2> HIDE DEF rest, s, t
    <2> QED
      BY <2>1, <2>2, <2>3, ConcatSet
  <1>13. \A g \in E2 : g \in Range(rest) /\ DailyOf(g) \notin Range(rest)
    BY <1>2, <1>9, <1>10, <1>12
  <1>14. /\ v \in AccountRow /\ v.present
         /\ RowState(a, d[a], v, E2, P, Range(rest), r.day, q.id)
    <2> HIDE DEF rest
    <2>1. /\ w \in AccountRow
          /\ RowState(a, d[a], w, E2, P, Range(rest), r.day, q.id)
      BY <1>4, <1>5, <1>6, <1>12, <1>13, BaseRow
    <2>2. /\ v \in AccountRow /\ v.present
          /\ v.balance = w.balance /\ v.pending = w.pending
          /\ v.log = w.log /\ v.daily = w.daily
      BY <2>1 DEF lockOrCreateBalance, AccountRow
    <2> HIDE DEF v
    <2>3. Unmoved(d[a], v) <=> Unmoved(d[a], w)
      BY <2>2 DEF Unmoved
    <2>4. \A g \in E2 : Moved(g, d[a], v, Range(rest), r.day, q.id)
                          <=> Moved(g, d[a], w, Range(rest), r.day, q.id)
      BY <2>2 DEF Moved
    <2>5. RowState(a, d[a], v, E2, P, Range(rest), r.day, q.id)
      BY <2>1, <2>2, <2>3, <2>4 DEF RowState
    <2> QED
      BY <2>2, <2>5
  <1> HIDE DEF rest, v
  <1>15. /\ q2 \in SessionRecord
         /\ q2.pc = "run" /\ q2.req = r /\ q2.id = q.id /\ q2.pay = q.pay
         /\ q2.todo = rest
         /\ q2.work = [q.work EXCEPT ![a] = v]
         /\ Left(q2) = E2 \cup P \cup Closing(q)
    <2>1. q2 = Advance(q, rest, a, v)
      BY DEF a
    <2> HIDE DEF q2
    <2> QED
      BY <1>4, <1>12, <1>14, <2>1, AdvanceLemma
  <1> HIDE DEF q2
  <1>16. held2 \cap Account # {} /\ FirstAccount(r) \in held2
    BY <1>4
  <1>17. /\ Begun(q2) /\ Pends(q2) = P /\ Closing(q2) = Closing(q)
         /\ Entries(q2, held2, d) = E2
    <2>1. /\ Begun(q2) /\ Pends(q2) = P /\ Closing(q2) = Closing(q)
          /\ Entries(q2, held2, d) = Entries(q, held2, d)
      BY <1>1, <1>15, SamePlan DEF P
    <2>2. Entries(q, held2, d) = E2
      BY <1>1, <1>3, <1>4, <1>16 DEF Entries, E2
    <2> QED
      BY <2>1, <2>2
  <1>18. PaymentOK(q2, held2, pm)
    <2>1. held2 \cap PaymentId = held \cap PaymentId
      BY <1>4, TxnAssumption
    <2>2. Closing(q2) \subseteq Left(q2) /\ Closing(q) \subseteq Left(q)
      BY <1>8, <1>15, <1>17
    <2> HIDE DEF held2
    <2> QED
      BY <1>1, <1>2, <1>15, <2>1, <2>2 DEF PaymentOK
  <1>19. ASSUME NEW b \in Account
         PROVE  RowOK(b, held2, d[b], q2.work[b], E2, P, Left(q2), r.day, q.id)
    <2>1. CASE b = a
      <3>1. q2.work[a] = v
        BY <1>2, <1>4, <1>15 DEF Ledgers
      <3>2. \E g \in P : g.acct = a
        <4>1. P = TwoPends(q.pay.team, q.pay.forTeam, -q.pay.amount)
          BY <1>1 DEF P, Pends
        <4>2. q.pay.team \in Team /\ q.pay.forTeam \in Team /\ -q.pay.amount \in Int
          BY <1>3 DEF L!InvoicePayment
        <4>3. a = <<q.pay.team, q.pay.forTeam, "PAYABLE">>
          BY <1>3, <1>4 DEF PayAccount
        <4> QED
          BY <4>1, <4>2, <4>3, PendingSet
      <3>3. RowState(a, d[a], v, E2, P, Left(q2), r.day, q.id)
        BY <1>12, <1>14, <1>15
      <3> QED
        BY <1>14, <2>1, <3>1, <3>2, <3>3 DEF RowOK
    <2>2. CASE b # a
      <3>1. q2.work[b] = q.work[b] /\ b \notin held /\ b \notin held2
        BY <1>1, <1>2, <1>15, <2>2 DEF Ledgers
      <3>2. q.work[b] = NoAccount
        BY <1>2, <3>1 DEF PlanOK, RowOK
      <3>3. /\ \A g \in E2 \cup P : g \in Left(q2)
            /\ \A g \in E2 : DailyOf(g) \notin Left(q2)
        BY <1>12, <1>13, <1>15
      <3> QED
        BY <3>1, <3>2, <3>3 DEF RowOK
    <2> QED
      BY <2>1, <2>2
  <1>20. PlanOK(q2, held2, d)
    <2> HIDE DEF held2
    <2> QED
      BY <1>15, <1>17, <1>19 DEF PlanOK
  <1>21. SessionOK(q2, held2, d, pm)
    <2> HIDE DEF held2
    <2> QED
      BY <1>2, <1>12, <1>15, <1>16, <1>17, <1>18, <1>20 DEF SessionOK
  <1> QED
    BY <1>15, <1>21 DEF q2, rest, v, a

(* The payment's new status is the session's until it commits.             *)
WithStatus(q, p) ==
  [[q EXCEPT !.todo = Tail(q.todo), !.missed = FALSE] EXCEPT !.pay = p]

LEMMA SetSession ==
  ASSUME NEW q \in SessionRecord, q.pc = "run", NEW held \in SUBSET Row, NEW d \in Ledgers,
         NEW pm, SessionOK(q, held, d, pm), q.todo # << >>,
         Head(q.todo).op \in {"setAccepted", "setRejected"}
  PROVE  LET p == IF Head(q.todo).op = "setAccepted" THEN AcceptedOn(q.pay, q.req.day)
                  ELSE Rejected(q.pay)
             q2 == WithStatus(q, p)
         IN  /\ q2 \in SessionRecord
             /\ SessionOK(q2, held, d, pm)
  <1> DEFINE h == Head(q.todo)
             r == q.req
             E == Entries(q, held, d)
             P == Pends(q)
             p == IF h.op = "setAccepted" THEN AcceptedOn(q.pay, r.day) ELSE Rejected(q.pay)
             q2 == WithStatus(q, p)
  <1>1. /\ Begun(q) /\ h \in Closing(q) /\ held \cap Account # {} /\ h \in Left(q)
        /\ Tail(q.todo) \in Seq(Stmt) /\ IsInjective(Tail(q.todo))
        /\ Range(Tail(q.todo)) = Left(q) \ {h}
    BY HeadLemma
  <1>2. /\ r \in Request /\ Valid(r) /\ r.day \in Day
        /\ PaymentOK(q, held, pm) /\ PlanOK(q, held, d)
        /\ OnePerAccount(E, "entry") /\ OnePerAccount(P, "pend")
        /\ FirstAccount(r) \in held
    BY <1>1, MiddleLemma DEF SessionOK
  <1>3. /\ r.op \in {"accept", "reject"} /\ Closing(q) = {h}
        /\ h.op = IF r.op = "accept" THEN "setAccepted" ELSE "setRejected"
    BY <1>1, OtherStatements DEF Closing
  <1>4. q.pay \in L!InvoicePayment
    BY <1>1, <1>2, <1>3, PayLemma
  <1>5. /\ p \in L!InvoicePayment
        /\ p.team = q.pay.team /\ p.forTeam = q.pay.forTeam /\ p.amount = q.pay.amount
    BY <1>2, <1>4, DecidedPayment
  <1>6. p = IF r.op = "accept" THEN AcceptedOn(q.pay, r.day) ELSE Rejected(q.pay)
    BY <1>3
  <1> HIDE DEF p, h
  <1>7. /\ q2 \in SessionRecord
        /\ q2.pc = "run" /\ q2.req = r /\ q2.id = q.id /\ q2.pay = p /\ q2.work = q.work
        /\ q2.todo = Tail(q.todo) /\ Left(q2) = Left(q) \ {h}
    <2> DEFINE t == Tail(q.todo)
    <2>1. q2 = [q EXCEPT !.todo = t, !.missed = FALSE, !.pay = p]
      BY DEF WithStatus, SessionRecord
    <2> HIDE DEF t, q2
    <2>2. /\ q2.pc = q.pc /\ q2.req = r /\ q2.id = q.id /\ q2.pay = p /\ q2.work = q.work
          /\ q2.todo = t
      BY <2>1 DEF SessionRecord
    <2>3. q2 \in SessionRecord
      BY <1>1, <1>5, <2>1 DEF SessionRecord, t
    <2> QED
      BY <1>1, <2>2, <2>3 DEF Left, t
  <1> HIDE DEF q2
  <1>8. /\ Begun(q2) /\ Closing(q2) = Closing(q) /\ Pends(q2) = P
        /\ Entries(q2, held, d) = E
    <2>1. Begun(q2) /\ Closing(q2) = Closing(q)
      BY <1>1, <1>7 DEF Begun, Closing
    <2>2. Pends(q2) = P
      BY <1>3, <1>5, <1>7 DEF Pends
    <2>3. PayAccount(q2.pay) = PayAccount(q.pay) /\ RecAccount(q2.pay) = RecAccount(q.pay)
      BY <1>5, <1>7 DEF PayAccount, RecAccount
    <2>4. \A balance : SplitLegs(balance, q2.pay) = SplitLegs(balance, q.pay)
      BY <1>5, <1>7, <2>3 DEF SplitLegs
    <2>5. Entries(q2, held, d) = E
      BY <1>7, <2>3, <2>4 DEF Entries
    <2> QED
      BY <2>1, <2>2, <2>5
  <1>9. PaymentOK(q2, held, pm)
    <2>1. Closing(q) \subseteq Left(q)
      BY <1>1, <1>3
    <2>2. ~(Closing(q2) \subseteq Left(q2))
      BY <1>3, <1>7, <1>8
    <2>3. q.pay = pm[q.id]
      BY <1>2, <1>3, <2>1 DEF PaymentOK
    <2> QED
      BY <1>2, <1>3, <1>6, <1>7, <2>2, <2>3 DEF PaymentOK
  <1>10. /\ \A g \in E : /\ g # h /\ DailyOf(g) # h
         /\ \A g \in P : g # h
    <2>1. \A g \in E : g.op = "entry" /\ DailyOf(g).op = "daily"
      BY <1>2, DailyOfLemma DEF OnePerAccount
    <2>2. \A g \in P : g.op = "pend"
      BY <1>2 DEF OnePerAccount
    <2> QED
      BY <1>3, <2>1, <2>2
  <1> HIDE DEF E, P
  <1>11. PlanOK(q2, held, d)
    <2>1. \A g \in Left(q2) :
            \/ g \in E \cup P \cup Closing(q2)
            \/ \E e \in E : g = DailyOf(e)
      BY <1>1, <1>2, <1>7, <1>8 DEF PlanOK, E, P
    <2>2. ASSUME NEW a \in Account
          PROVE  RowOK(a, held, d[a], q2.work[a], E, P, Left(q2), q2.req.day, q2.id)
      <3>1. RowOK(a, held, d[a], q.work[a], E, P, Left(q), r.day, q.id)
        BY <1>2 DEF PlanOK, E, P
      <3>2. /\ \A g \in E \cup P : g.acct = a => (g \in Left(q2) <=> g \in Left(q))
            /\ \A g \in E : g.acct = a => (DailyOf(g) \in Left(q2) <=> DailyOf(g) \in Left(q))
        BY <1>7, <1>10
      <3> QED
        BY <1>7, <3>1, <3>2, OtherRow
    <2> QED
      BY <1>8, <2>1, <2>2 DEF PlanOK
  <1>12. SessionOK(q2, held, d, pm)
    BY <1>1, <1>2, <1>7, <1>8, <1>9, <1>11 DEF SessionOK
  <1> QED
    BY <1>7, <1>12 DEF q2, p, h
-----------------------------------------------------------------------------
(* The actions.                                                            *)

(* A session that takes a free row holds it besides what it held.          *)
LEMMA TakeRow ==
  ASSUME lock \in [Row -> Session \cup {Free}], NEW s \in Session, NEW row \in Row,
         lock[row] = Free, lock' = [lock EXCEPT ![row] = s]
  PROVE  /\ lock' \in [Row -> Session \cup {Free}]
         /\ HeldBy(lock', s) = HeldBy(lock, s) \cup {row}
         /\ \A o \in Session \ {s} : HeldBy(lock', o) = HeldBy(lock, o)
  <1>1. Free \notin Session
    BY TxnAssumption
  <1>2. lock' \in [Row -> Session \cup {Free}]
    OBVIOUS
  <1>3. \A x \in Row : lock'[x] = IF x = row THEN s ELSE lock[x]
    OBVIOUS
  <1> QED
    BY <1>1, <1>2, <1>3 DEF HeldBy

(* A transaction that ends holds nothing.                                  *)
LEMMA ReleaseRows ==
  ASSUME lock \in [Row -> Session \cup {Free}], NEW s \in Session, lock' = Unlocked(s)
  PROVE  /\ lock' \in [Row -> Session \cup {Free}]
         /\ HeldBy(lock', s) = {}
         /\ \A o \in Session \ {s} : HeldBy(lock', o) = HeldBy(lock, o)
  <1>1. Free \notin Session
    BY TxnAssumption
  <1>2. lock' \in [Row -> Session \cup {Free}]
    BY DEF Unlocked
  <1>3. \A x \in Row : lock'[x] = IF lock[x] = s THEN Free ELSE lock[x]
    BY DEF Unlocked
  <1> QED
    BY <1>1, <1>2, <1>3 DEF HeldBy

(* What a session holds are rows, and it holds what Holds says.            *)
LEMMA HeldLemma ==
  ASSUME NEW s \in Session
  PROVE  /\ HeldBy(lock, s) \in SUBSET Row
         /\ \A row \in Row : row \in HeldBy(lock, s) <=> Holds(s, row)
         /\ Account \subseteq Row /\ PaymentId \subseteq Row
  BY DEF HeldBy, Holds, Row

(* A running session is one of a finite number; ending it frees its place. *)
LEMMA OneEnds ==
  ASSUME Types, Counted, NEW s \in Session, Running(s), NEW q2, q2.pc = "idle",
         sess' = [sess EXCEPT ![s] = q2]
  PROVE  /\ RunningSessions' = RunningSessions \ {s}
         /\ IsFiniteSet(RunningSessions')
         /\ Cardinality(RunningSessions') = Cardinality(RunningSessions) - 1
         /\ Cardinality(RunningSessions) \in Nat /\ Cardinality(RunningSessions') \in Nat
  <1>1. RunningSessions' = RunningSessions \ {s}
    BY DEF RunningSessions, Running, Types
  <1>2. s \in RunningSessions /\ IsFiniteSet(RunningSessions)
    BY DEF RunningSessions, Counted
  <1> QED
    BY <1>1, <1>2, FS_RemoveElement, FS_CardinalityType

(* One more session runs.                                                  *)
LEMMA OneBegins ==
  ASSUME Types, Counted, NEW s \in Session, ~Running(s), NEW q2, q2.pc = "run",
         sess' = [sess EXCEPT ![s] = q2]
  PROVE  /\ IsFiniteSet(RunningSessions')
         /\ Cardinality(RunningSessions') = Cardinality(RunningSessions) + 1
         /\ Cardinality(RunningSessions) \in Nat
  <1>1. RunningSessions' = RunningSessions \cup {s}
    BY DEF RunningSessions, Running, Types
  <1>2. s \notin RunningSessions /\ IsFiniteSet(RunningSessions)
    BY DEF RunningSessions, Counted
  <1> QED
    BY <1>1, <1>2, FS_AddElement, FS_CardinalityType

(* A step of one session that writes no table disturbs no other session.   *)
LEMMA SessionStep ==
  ASSUME TxnInv, NEW s \in Session, NEW q2 \in SessionRecord,
         sess' = [sess EXCEPT ![s] = q2], q2.pc = sess[s].pc,
         lock' \in [Row -> Session \cup {Free}],
         \A o \in Session \ {s} : HeldBy(lock', o) = HeldBy(lock, o),
         SessionOK(q2, HeldBy(lock', s), db, payments),
         UNCHANGED <<db, payments, started>>
  PROVE  TxnInv'
  <1>1. Types'
    BY DEF TxnInv, Types
  <1>2. Committed'
    BY DEF TxnInv, Committed
  <1>3. Counted'
    <2>1. RunningSessions' = RunningSessions
      BY DEF TxnInv, Types, RunningSessions, Running
    <2> QED
      BY <2>1 DEF TxnInv, Counted
  <1>4. ASSUME NEW o \in Session
        PROVE  SessionOK(sess'[o], HeldBy(lock', o), db', payments')
    <2>1. CASE o = s
      BY <2>1 DEF TxnInv, Types
    <2>2. CASE o # s
      BY <2>2 DEF TxnInv, Types
    <2> QED
      BY <2>1, <2>2
  <1> QED
    BY <1>1, <1>2, <1>3, <1>4 DEF TxnInv

LEMMA RollbackStep ==
  ASSUME TxnInv, NEW s \in Session, Running(s), Rollback(s)
  PROVE  TxnInv'
  <1>1. sess' = [sess EXCEPT ![s] = Idle] /\ lock' = Unlocked(s)
        /\ UNCHANGED <<db, payments, started>>
    BY DEF Rollback
  <1>2. /\ lock' \in [Row -> Session \cup {Free}]
        /\ HeldBy(lock', s) = {}
        /\ \A o \in Session \ {s} : HeldBy(lock', o) = HeldBy(lock, o)
    BY <1>1, ReleaseRows DEF TxnInv, Types
  <1>3. Idle \in SessionRecord /\ Idle.pc = "idle"
    BY IdleLemma DEF Idle
  <1>4. Types'
    BY <1>1, <1>2, <1>3 DEF TxnInv, Types
  <1>5. Committed'
    BY <1>1 DEF TxnInv, Committed
  <1>6. Counted'
    <2>1. /\ IsFiniteSet(RunningSessions')
          /\ Cardinality(RunningSessions') = Cardinality(RunningSessions) - 1
          /\ Cardinality(RunningSessions) \in Nat /\ Cardinality(RunningSessions') \in Nat
      BY <1>1, <1>3, OneEnds DEF TxnInv
    <2>2. ASSUME NEW a \in Account
          PROVE  Len(db'[a].log) + Cardinality(RunningSessions') <= started'
      <3>1. Len(db[a].log) \in Nat /\ started \in Nat
        BY RowTypeLemma DEF TxnInv, Types, Ledgers
      <3>2. Len(db[a].log) + Cardinality(RunningSessions) <= started
        BY DEF TxnInv, Counted
      <3> QED
        BY <1>1, <2>1, <3>1, <3>2
    <2> QED
      BY <2>1, <2>2 DEF Counted
  <1>7. ASSUME NEW o \in Session
        PROVE  SessionOK(sess'[o], HeldBy(lock', o), db', payments')
    <2>1. CASE o = s
      BY <1>1, <1>2, <1>3, <2>1 DEF TxnInv, Types, SessionOK
    <2>2. CASE o # s
      BY <1>1, <1>2, <2>2 DEF TxnInv, Types
    <2> QED
      BY <2>1, <2>2
  <1> QED
    BY <1>4, <1>5, <1>6, <1>7 DEF TxnInv

(* The statement on a balance row, applied to the version w of the row.    *)
Applied(q, w) ==
  LET h == Head(q.todo)
      moved == CASE h.op = "entry" -> moveBalance(w, h.kind, h.delta, q.req.day, q.id)
                 [] h.op = "pend" -> adjustPendingRow(w, h.delta)
                 [] OTHER -> lockOrCreateBalance(w)
      rest == CASE h.op = "entry" -> << DailyOf(h) >> \o Tail(q.todo)
                [] h.op = "split" -> SplitPayment(w.balance, q.pay) \o Tail(q.todo)
                [] OTHER -> Tail(q.todo)
  IN  Advance(q, rest, h.acct, moved)

LEMMA ApplyLemma ==
  ASSUME NEW s, NEW w, Apply(s, w)
  PROVE  sess' = [sess EXCEPT ![s] = Applied(sess[s], w)]
  BY DEF Apply, Applied, Advance, Continue, DailyOf

(* A statement on a balance or daily row names an account.                 *)
LEMMA AccountLemma ==
  ASSUME NEW q \in SessionRecord, q.pc = "run", NEW held, NEW d \in Ledgers, NEW pm,
         SessionOK(q, held, d, pm), q.todo # << >>,
         Head(q.todo).op \in BalanceOps \cup {"daily"}
  PROVE  Head(q.todo).acct \in Account /\ Begun(q)
  <1> DEFINE h == Head(q.todo)
  <1>1. /\ Begun(q)
        /\ h.op = "entry" => h \in Entries(q, held, d)
        /\ h.op = "pend" => h \in Pends(q)
        /\ h.op = "daily" => \E e \in Entries(q, held, d) : h = DailyOf(e)
        /\ h.op = "split" => q.req.op = "accept" /\ h = Split(q)
    BY HeadLemma DEF BalanceOps
  <1>2. /\ OnePerAccount(Entries(q, held, d), "entry")
        /\ OnePerAccount(Pends(q), "pend")
        /\ PaymentOK(q, held, pm) /\ q.req \in Request /\ Valid(q.req)
    BY <1>1, MiddleLemma
  <1> HIDE DEF h
  <1>3. CASE h.op = "entry" \/ h.op = "pend"
    BY <1>1, <1>2, <1>3 DEF OnePerAccount, h
  <1>4. CASE h.op = "daily"
    BY <1>1, <1>2, <1>4, DailyOfLemma DEF OnePerAccount, h
  <1>5. CASE h.op = "split"
    <2>1. h.acct = PayAccount(q.pay) /\ PayAccount(q.pay) = FirstAccount(q.req)
      BY <1>1, <1>2, <1>5, PlanLemma, PayLemma
    <2> QED
      BY <1>1, <1>2, <2>1, FirstLemma DEF h
  <1> QED
    BY <1>3, <1>4, <1>5 DEF BalanceOps, h

LEMMA AppliedSession ==
  ASSUME NEW q \in SessionRecord, q.pc = "run", NEW held \in SUBSET Row, NEW d \in Ledgers,
         NEW pm, SessionOK(q, held, d, pm), q.todo # << >>, Head(q.todo).op \in BalanceOps,
         NEW w, StartsFrom(w, Head(q.todo).acct, q, held, d)
  PROVE  /\ Applied(q, w) \in SessionRecord /\ Applied(q, w).pc = "run"
         /\ SessionOK(Applied(q, w), held \cup {Head(q.todo).acct}, d, pm)
  <1> DEFINE h == Head(q.todo)
             q2 == Applied(q, w)
  <1>1. q2 \in SessionRecord /\ SessionOK(q2, held \cup {h.acct}, d, pm)
    <2>1. CASE h.op = "entry"
      <3>1. q2 = Advance(q, << DailyOf(h) >> \o Tail(q.todo), h.acct,
                         moveBalance(w, h.kind, h.delta, q.req.day, q.id))
        BY <2>1 DEF Applied
      <3> HIDE DEF q2
      <3> QED
        BY <2>1, <3>1, EntrySession
    <2>2. CASE h.op = "pend"
      <3>1. q2 = Advance(q, Tail(q.todo), h.acct, adjustPendingRow(w, h.delta))
        BY <2>2 DEF Applied
      <3> HIDE DEF q2
      <3> QED
        BY <2>2, <3>1, PendSession
    <2>3. CASE h.op = "split"
      <3>1. q2 = Advance(q, SplitPayment(w.balance, q.pay) \o Tail(q.todo), h.acct,
                         lockOrCreateBalance(w))
        BY <2>3 DEF Applied
      <3> HIDE DEF q2
      <3> QED
        BY <2>3, <3>1, SplitSession
    <2> QED
      BY <2>1, <2>2, <2>3 DEF BalanceOps
  <1>2. q2.pc = "run"
    <2>1. PICK rest, a, v : q2 = Advance(q, rest, a, v)
      BY DEF Applied
    <2> QED
      BY <2>1 DEF Advance, SessionRecord
  <1> QED
    BY <1>1, <1>2

(* What the next statement of a session s meets.                           *)
LEMMA NextLemma ==
  ASSUME TxnInv, NEW s \in Session, NEW ops, NextIs(s, ops)
  PROVE  /\ sess[s] \in SessionRecord /\ sess[s].pc = "run" /\ sess[s].todo # << >>
         /\ Head(sess[s].todo).op \in ops
         /\ HeldBy(lock, s) \in SUBSET Row /\ db \in Ledgers
         /\ SessionOK(sess[s], HeldBy(lock, s), db, payments)
         /\ lock \in [Row -> Session \cup {Free}]
  BY HeldLemma DEF TxnInv, Types, NextIs, Running

LEMMA SelectForUpdateStep ==
  ASSUME TxnInv, NEW s \in Session, SelectForUpdate(s)
  PROVE  TxnInv'
  <1> DEFINE q == sess[s]
             held == HeldBy(lock, s)
             a == NextAccount(s)
  <1>1. NextIs(s, BalanceOps) /\ UNCHANGED <<db, payments, started>>
    BY DEF SelectForUpdate
  <1>2. /\ q \in SessionRecord /\ q.pc = "run" /\ q.todo # << >>
        /\ Head(q.todo).op \in BalanceOps
        /\ held \in SUBSET Row /\ db \in Ledgers /\ SessionOK(q, held, db, payments)
        /\ lock \in [Row -> Session \cup {Free}]
    BY <1>1, NextLemma
  <1>3. a = Head(q.todo).acct /\ a \in Account /\ a \in Row
    BY <1>2, AccountLemma, HeldLemma DEF NextAccount
  <1>4. CASE Holds(s, a) /\ Apply(s, q.work[a]) /\ UNCHANGED lock
    <2> DEFINE w == q.work[a]
    <2>1. StartsFrom(w, a, q, held, db)
      BY <1>3, <1>4, HeldLemma DEF StartsFrom
    <2>2. /\ Applied(q, w) \in SessionRecord /\ Applied(q, w).pc = "run"
          /\ SessionOK(Applied(q, w), held \cup {a}, db, payments)
      BY <1>2, <1>3, <2>1, AppliedSession
    <2>3. held \cup {a} = HeldBy(lock', s)
          /\ \A o \in Session \ {s} : HeldBy(lock', o) = HeldBy(lock, o)
      BY <1>3, <1>4, HeldLemma
    <2>4. sess' = [sess EXCEPT ![s] = Applied(q, w)]
      BY <1>4, ApplyLemma
    <2> QED
      BY <1>1, <1>2, <1>4, <2>2, <2>3, <2>4, SessionStep
  <1>5. CASE /\ db[a].present /\ lock[a] = Free
             /\ Apply(s, PrivateRow(db[a]))
             /\ lock' = [lock EXCEPT ![a] = s]
    <2> DEFINE w == PrivateRow(db[a])
    <2>1. StartsFrom(w, a, q, held, db)
      <3>1. a \notin held
        BY <1>3, <1>5, HeldLemma, TxnAssumption DEF Holds
      <3> QED
        BY <3>1 DEF StartsFrom
    <2>2. /\ Applied(q, w) \in SessionRecord /\ Applied(q, w).pc = "run"
          /\ SessionOK(Applied(q, w), held \cup {a}, db, payments)
      BY <1>2, <1>3, <2>1, AppliedSession
    <2>3. /\ lock' \in [Row -> Session \cup {Free}]
          /\ held \cup {a} = HeldBy(lock', s)
          /\ \A o \in Session \ {s} : HeldBy(lock', o) = HeldBy(lock, o)
      BY <1>2, <1>3, <1>5, TakeRow
    <2>4. sess' = [sess EXCEPT ![s] = Applied(q, w)]
      BY <1>5, ApplyLemma
    <2> QED
      BY <1>1, <1>2, <2>2, <2>3, <2>4, SessionStep
  <1> QED
    BY <1>4, <1>5 DEF SelectForUpdate

LEMMA InsertBalanceStep ==
  ASSUME TxnInv, NEW s \in Session, InsertBalance(s)
  PROVE  TxnInv'
  <1> DEFINE q == sess[s]
             held == HeldBy(lock, s)
             a == NextAccount(s)
             w == PrivateRow(NoAccount)
  <1>1. /\ NextIs(s, BalanceOps) /\ UNCHANGED <<db, payments, started>>
        /\ ~db[a].present /\ lock[a] = Free
        /\ Apply(s, w) /\ lock' = [lock EXCEPT ![a] = s]
    BY DEF InsertBalance
  <1>2. /\ q \in SessionRecord /\ q.pc = "run" /\ q.todo # << >>
        /\ Head(q.todo).op \in BalanceOps
        /\ held \in SUBSET Row /\ db \in Ledgers /\ SessionOK(q, held, db, payments)
        /\ lock \in [Row -> Session \cup {Free}]
    BY <1>1, NextLemma
  <1>3. a = Head(q.todo).acct /\ a \in Account /\ a \in Row
    BY <1>2, AccountLemma, HeldLemma DEF NextAccount
  <1>4. StartsFrom(w, a, q, held, db)
    <2>1. a \notin held
      BY <1>1, <1>3, HeldLemma, TxnAssumption DEF Holds
    <2>2. db[a] = NoAccount
      BY <1>1, <1>3 DEF TxnInv, Committed
    <2> QED
      BY <2>1, <2>2 DEF StartsFrom
  <1>5. /\ Applied(q, w) \in SessionRecord /\ Applied(q, w).pc = "run"
        /\ SessionOK(Applied(q, w), held \cup {a}, db, payments)
    BY <1>2, <1>3, <1>4, AppliedSession
  <1>6. /\ lock' \in [Row -> Session \cup {Free}]
        /\ held \cup {a} = HeldBy(lock', s)
        /\ \A o \in Session \ {s} : HeldBy(lock', o) = HeldBy(lock, o)
    BY <1>1, <1>2, <1>3, TakeRow
  <1>7. sess' = [sess EXCEPT ![s] = Applied(q, w)]
    BY <1>1, ApplyLemma
  <1> QED
    BY <1>1, <1>2, <1>5, <1>6, <1>7, SessionStep

LEMMA SelectMissesStep ==
  ASSUME TxnInv, NEW s \in Session, SelectMisses(s)
  PROVE  TxnInv'
  <1> DEFINE q == sess[s]
             held == HeldBy(lock, s)
             q2 == [q EXCEPT !.missed = TRUE]
  <1>1. /\ NextIs(s, BalanceOps) /\ UNCHANGED <<db, payments, lock, started>>
        /\ sess' = [sess EXCEPT ![s].missed = TRUE]
    BY DEF SelectMisses
  <1>2. /\ q \in SessionRecord /\ q.pc = "run"
        /\ SessionOK(q, held, db, payments)
        /\ lock \in [Row -> Session \cup {Free}]
    BY <1>1, NextLemma
  <1>3. /\ q2 \in SessionRecord /\ q2.pc = q.pc /\ q2.req = q.req /\ q2.todo = q.todo
        /\ q2.work = q.work /\ q2.id = q.id /\ q2.pay = q.pay
    BY <1>2 DEF SessionRecord
  <1>4. sess' = [sess EXCEPT ![s] = q2]
    BY <1>1
  <1> HIDE DEF q2
  <1>5. /\ Begun(q2) <=> Begun(q)
        /\ Opening(q2) = Opening(q)
        /\ Pends(q2) = Pends(q) /\ Closing(q2) = Closing(q) /\ Split(q2) = Split(q)
        /\ Entries(q2, held, db) = Entries(q, held, db)
        /\ Left(q2) = Left(q)
    BY <1>3, SamePlan DEF Left
  <1>6. PaymentOK(q2, held, payments) <=> PaymentOK(q, held, payments)
    BY <1>3, <1>5 DEF PaymentOK
  <1>7. PlanOK(q2, held, db) <=> PlanOK(q, held, db)
    BY <1>3, <1>5 DEF PlanOK
  <1>8. SessionOK(q2, held, db, payments)
    BY <1>2, <1>3, <1>5, <1>6, <1>7 DEF SessionOK
  <1> QED
    BY <1>1, <1>2, <1>3, <1>4, <1>8, SessionStep

LEMMA UpsertDailyStep ==
  ASSUME TxnInv, NEW s \in Session, UpsertDaily(s)
  PROVE  TxnInv'
  <1> DEFINE q == sess[s]
             held == HeldBy(lock, s)
             h == Head(q.todo)
             a == h.acct
             v == WithDaily(q.work[a], db[a], q.req.day, h.delta)
             q2 == Advance(q, Tail(q.todo), a, v)
  <1>1. NextIs(s, {"daily"}) /\ UNCHANGED <<db, payments, lock, started>>
    BY DEF UpsertDaily
  <1>2. /\ q \in SessionRecord /\ q.pc = "run" /\ q.todo # << >>
        /\ h.op = "daily"
        /\ held \in SUBSET Row /\ db \in Ledgers /\ SessionOK(q, held, db, payments)
        /\ lock \in [Row -> Session \cup {Free}]
    BY <1>1, NextLemma
  <1>3. /\ a \in Account /\ a \in held
        /\ q2 \in SessionRecord
        /\ SessionOK(q2, held, db, payments)
    BY <1>2, DailySession
  <1>4. sess' = [sess EXCEPT ![s] = q2]
    BY DEF UpsertDaily, Continue, Advance, WithDaily
  <1>5. q2.pc = q.pc
    BY <1>2 DEF Advance, SessionRecord
  <1> HIDE DEF q2
  <1> QED
    BY <1>1, <1>2, <1>3, <1>4, <1>5, SessionStep

LEMMA InsertPaymentStep ==
  ASSUME TxnInv, NEW s \in Session, NEW id \in PaymentId, InsertPayment(s, id)
  PROVE  TxnInv'
  <1> DEFINE q == sess[s]
             held == HeldBy(lock, s)
             r == q.req
             p == [status |-> "PENDING", team |-> r.team, forTeam |-> r.forTeam,
                   amount |-> r.amount, acceptedAt |-> {}]
             q2 == WithPayment(q, Tail(q.todo), id, p)
  <1>1. /\ NextIs(s, {"insertPayment"}) /\ UNCHANGED <<db, payments, started>>
        /\ payments[id] = NoPayment /\ lock[id] = Free
        /\ lock' = [lock EXCEPT ![id] = s]
    BY DEF InsertPayment
  <1>2. /\ q \in SessionRecord /\ q.pc = "run" /\ q.todo # << >>
        /\ Head(q.todo).op = "insertPayment"
        /\ held \in SUBSET Row /\ db \in Ledgers /\ SessionOK(q, held, db, payments)
        /\ lock \in [Row -> Session \cup {Free}]
    BY <1>1, NextLemma
  <1>3. /\ held = {}
        /\ q2 \in SessionRecord
        /\ SessionOK(q2, {id}, db, payments)
    BY <1>1, <1>2, InsertSession
  <1>4. sess' = [sess EXCEPT ![s] = q2]
    BY DEF InsertPayment, Continue, WithPayment
  <1>5. q2.pc = q.pc
    BY <1>2 DEF WithPayment, SessionRecord
  <1>6. /\ lock' \in [Row -> Session \cup {Free}]
        /\ {id} = HeldBy(lock', s)
        /\ \A o \in Session \ {s} : HeldBy(lock', o) = HeldBy(lock, o)
    BY <1>1, <1>2, <1>3, TakeRow DEF Row
  <1> HIDE DEF q2
  <1> QED
    BY <1>1, <1>2, <1>3, <1>4, <1>5, <1>6, SessionStep

LEMMA LoadPendingPaymentStep ==
  ASSUME TxnInv, NEW s \in Session, LoadPendingPayment(s)
  PROVE  TxnInv'
  <1> DEFINE q == sess[s]
             held == HeldBy(lock, s)
             r == q.req
             p == payments[r.id]
             q2 == WithPayment(q, AfterLoad(r, p), r.id, p)
  <1>1. /\ NextIs(s, {"loadPayment"}) /\ UNCHANGED <<db, payments, started>>
        /\ Pending(r) /\ lock[r.id] = Free
        /\ lock' = [lock EXCEPT ![r.id] = s]
    BY DEF LoadPendingPayment
  <1>2. /\ q \in SessionRecord /\ q.pc = "run" /\ q.todo # << >>
        /\ Head(q.todo).op = "loadPayment"
        /\ held \in SUBSET Row /\ db \in Ledgers /\ SessionOK(q, held, db, payments)
        /\ lock \in [Row -> Session \cup {Free}]
    BY <1>1, NextLemma
  <1>3. r.id \in PaymentId
    BY <1>2, LoadRequest
  <1>4. /\ p \in L!InvoicePayment /\ p.status = "PENDING"
        /\ p.team = r.team /\ p.forTeam = r.forTeam /\ p.team # p.forTeam
    BY <1>1, <1>3 DEF Pending, TxnInv, Types, Committed
  <1>5. /\ held = {}
        /\ q2 \in SessionRecord
        /\ SessionOK(q2, {r.id}, db, payments)
    BY <1>2, <1>4, LoadSession
  <1>6. sess' = [sess EXCEPT ![s] = q2]
    BY DEF LoadPendingPayment, Continue, WithPayment
  <1>7. q2.pc = q.pc
    BY <1>2 DEF WithPayment, SessionRecord
  <1>8. /\ lock' \in [Row -> Session \cup {Free}]
        /\ {r.id} = HeldBy(lock', s)
        /\ \A o \in Session \ {s} : HeldBy(lock', o) = HeldBy(lock, o)
    BY <1>1, <1>2, <1>3, <1>5, TakeRow DEF Row
  <1> HIDE DEF q2
  <1> QED
    BY <1>1, <1>2, <1>5, <1>6, <1>7, <1>8, SessionStep

LEMMA SetStatusStep ==
  ASSUME TxnInv, NEW s \in Session, SetStatus(s)
  PROVE  TxnInv'
  <1> DEFINE q == sess[s]
             held == HeldBy(lock, s)
             h == Head(q.todo)
             p == IF h.op = "setAccepted" THEN AcceptedOn(q.pay, q.req.day)
                  ELSE Rejected(q.pay)
             q2 == WithStatus(q, p)
  <1>1. /\ NextIs(s, {"setAccepted", "setRejected"})
        /\ UNCHANGED <<db, payments, lock, started>>
    BY DEF SetStatus
  <1>2. /\ q \in SessionRecord /\ q.pc = "run" /\ q.todo # << >>
        /\ h.op \in {"setAccepted", "setRejected"}
        /\ held \in SUBSET Row /\ db \in Ledgers /\ SessionOK(q, held, db, payments)
        /\ lock \in [Row -> Session \cup {Free}]
    BY <1>1, NextLemma
  <1>3. /\ q2 \in SessionRecord
        /\ SessionOK(q2, held, db, payments)
    BY <1>2, SetSession
  <1>4. sess' = [sess EXCEPT ![s] = q2]
    <2>1. NextIs(s, {"setAccepted"}) <=> h.op = "setAccepted"
      BY <1>2 DEF NextIs, Running
    <2> QED
      BY <2>1 DEF SetStatus, Continue, WithStatus, AcceptedOn, Rejected
  <1>5. q2.pc = q.pc
    BY <1>2 DEF WithStatus, SessionRecord
  <1> HIDE DEF q2
  <1> QED
    BY <1>1, <1>2, <1>3, <1>4, <1>5, SessionStep

LEMMA BeginStep ==
  ASSUME TxnInv, NEW s \in Session, NEW r \in Request, Begin(s, r)
  PROVE  TxnInv'
  <1> DEFINE q2 == [Idle EXCEPT !.pc = "run", !.req = r, !.todo = Program(r)]
  <1>1. /\ sess[s] = Idle /\ started < MaxTxn /\ started' = started + 1
        /\ UNCHANGED <<db, payments, lock>>
    BY DEF Begin, WithinBounds
  <1>2. HeldBy(lock, s) = {} /\ ~Running(s)
    <2>1. sess[s].pc = "idle"
      BY <1>1 DEF Idle
    <2> QED
      BY <2>1 DEF TxnInv, SessionOK, Running
  <1>3. started' \in Nat /\ started' <= MaxTxn
    BY <1>1, TxnAssumption DEF TxnInv, Types
  <1>4. Committed'
    BY <1>1 DEF TxnInv, Committed
  <1>5. \A a \in Account : Len(db[a].log) \in Nat
    BY RowTypeLemma DEF TxnInv, Types, Ledgers
  <1>6. CASE ~Valid(r)
    <2>1. sess' = sess
      BY <1>6 DEF Begin
    <2>2. Types'
      BY <1>1, <1>3, <2>1 DEF TxnInv, Types
    <2>3. Counted'
      <3>1. RunningSessions' = RunningSessions
        BY <2>1 DEF RunningSessions, Running
      <3>2. Cardinality(RunningSessions) \in Nat /\ IsFiniteSet(RunningSessions)
        BY FS_CardinalityType DEF TxnInv, Counted
      <3>3. started \in Nat /\ \A a \in Account :
               Len(db[a].log) + Cardinality(RunningSessions) <= started
        BY DEF TxnInv, Types, Counted
      <3>4. ASSUME NEW a \in Account
            PROVE  Len(db'[a].log) + Cardinality(RunningSessions') <= started'
        BY <1>1, <1>5, <3>1, <3>2, <3>3
      <3> QED
        BY <3>1, <3>2, <3>4 DEF Counted
    <2> QED
      BY <1>1, <1>4, <2>1, <2>2, <2>3 DEF TxnInv
  <1>7. CASE Valid(r)
    <2>1. sess' = [sess EXCEPT ![s] = q2]
      BY <1>7 DEF Begin
    <2>2. q2 \in SessionRecord /\ SessionOK(q2, {}, db, payments)
      BY <1>7, BeginSession DEF TxnInv, Types
    <2>3. q2.pc = "run"
      BY DEF Idle
    <2> HIDE DEF q2
    <2>4. Types'
      BY <1>1, <1>3, <2>1, <2>2 DEF TxnInv, Types
    <2>5. Counted'
      <3>1. /\ IsFiniteSet(RunningSessions')
            /\ Cardinality(RunningSessions') = Cardinality(RunningSessions) + 1
            /\ Cardinality(RunningSessions) \in Nat
        BY <1>2, <2>1, <2>3, OneBegins DEF TxnInv
      <3>2. started \in Nat /\ \A a \in Account :
               Len(db[a].log) + Cardinality(RunningSessions) <= started
        BY DEF TxnInv, Types, Counted
      <3>3. ASSUME NEW a \in Account
            PROVE  Len(db'[a].log) + Cardinality(RunningSessions') <= started'
        BY <1>1, <1>5, <3>1, <3>2
      <3> QED
        BY <3>1, <3>3 DEF Counted
    <2>6. ASSUME NEW o \in Session
          PROVE  SessionOK(sess'[o], HeldBy(lock', o), db', payments')
      <3>1. CASE o = s
        BY <1>1, <1>2, <2>1, <2>2, <3>1 DEF TxnInv, Types
      <3>2. CASE o # s
        BY <1>1, <2>1, <3>2 DEF TxnInv, Types
      <3> QED
        BY <3>1, <3>2
    <2> QED
      BY <1>4, <2>4, <2>5, <2>6 DEF TxnInv
  <1> QED
    BY <1>6, <1>7
-----------------------------------------------------------------------------
(* What a commit leaves of a row whose committed version is c: x after the *)
(* postings E on it, and y after the in-flight changes P as well.          *)

Posted(a, c, x, E, day, ref) ==
  /\ \A h \in E : h.acct = a => x = postEntryRow(c, h.kind, h.delta, day, ref)
  /\ (\A h \in E : h.acct # a) => x = c

Adjusted(a, x, y, P) ==
  /\ \A h \in P : h.acct = a => y = adjustPendingRow(x, h.delta)
  /\ (\A h \in P : h.acct # a) => y = x

LEMMA RowEqual ==
  ASSUME NEW r \in AccountRow, NEW t \in AccountRow,
         r.present = t.present, r.balance = t.balance, r.pending = t.pending,
         r.log = t.log, r.daily = t.daily
  PROVE  r = t
  BY SMTT(30) DEF AccountRow

LEMMA MergeLemma ==
  ASSUME NEW c \in AccountRow, NEW w \in AccountRow
  PROVE  LET m == Merge(c, w)
         IN  /\ m \in AccountRow
             /\ m.present = w.present /\ m.balance = w.balance /\ m.pending = w.pending
             /\ m.log = c.log \o w.log
             /\ m.daily = [day \in Day |-> IF w.daily[day].present THEN w.daily[day]
                                           ELSE c.daily[day]]
  <1> DEFINE l == c.log \o w.log
             f == [day \in Day |-> IF w.daily[day].present THEN w.daily[day]
                                   ELSE c.daily[day]]
             m == [w EXCEPT !.log = l, !.daily = f]
  <1>1. l \in Seq(LogEntry)
    BY ConcatProperties DEF AccountRow
  <1>2. f \in [Day -> DailyRow]
    BY DEF AccountRow
  <1>3. m = Merge(c, w)
    BY DEF Merge
  <1> HIDE DEF l, f
  <1>4. /\ m \in AccountRow
        /\ m.present = w.present /\ m.balance = w.balance /\ m.pending = w.pending
        /\ m.log = l /\ m.daily = f
    BY <1>1, <1>2 DEF AccountRow
  <1> QED
    BY <1>3, <1>4 DEF l, f

(* The rows no day of which has changed.                                   *)
LEMMA NoDailyRow ==
  /\ NoAccount.daily = [day \in Day |-> NoDaily]
  /\ NoDaily \in DailyRow /\ ~NoDaily.present
  BY DEF NoAccount, NoDaily, DailyRow

LEMMA RowCommit ==
  ASSUME NEW c \in AccountRow, NEW w \in AccountRow, w.present, NEW a \in Account,
         NEW E, NEW P, NEW day \in Day, NEW ref \in Ref,
         OnePerAccount(E, "entry"), OnePerAccount(P, "pend"),
         RowState(a, c, w, E, P, {}, day, ref), \E h \in E \cup P : h.acct = a,
         NEW x, NEW y, Posted(a, c, x, E, day, ref), Adjusted(a, x, y, P)
  PROVE  /\ y = Merge(c, w)
         /\ Len(y.log) <= Len(c.log) + 1
  <1> DEFINE m == Merge(c, w)
  <1>1. /\ m \in AccountRow /\ m.present
        /\ m.balance = w.balance /\ m.pending = w.pending
        /\ m.log = c.log \o w.log
        /\ m.daily = [on \in Day |-> IF w.daily[on].present THEN w.daily[on]
                                     ELSE c.daily[on]]
    BY MergeLemma
  <1> HIDE DEF m
  <1>2. /\ c.daily \in [Day -> DailyRow] /\ c.log \in Seq(LogEntry) /\ c.balance \in Int
        /\ c.pending \in Int /\ Len(c.log) \in Nat
    BY RowTypeLemma
  <1> DEFINE AsPosted == /\ x \in AccountRow
                         /\ x.balance = m.balance /\ x.log = m.log /\ x.daily = m.daily
                         /\ x.pending = c.pending
                         /\ Len(x.log) <= Len(c.log) + 1
  <1>3. AsPosted
    <2>1. CASE \A h \in E : h.acct # a
      <3>1. x = c /\ w.balance = c.balance /\ w.log = << >> /\ w.daily = NoAccount.daily
        BY <2>1 DEF Posted, RowState, Unmoved
      <3>2. m.log = c.log
        BY <1>1, <1>2, <3>1, ConcatEmptySeq
      <3>3. \A on \in Day : m.daily[on] = c.daily[on]
        BY <1>1, <3>1, NoDailyRow
      <3>4. m.daily = c.daily
        BY <1>1, <1>2, <3>3
      <3> QED
        BY <1>1, <1>2, <3>1, <3>2, <3>4
    <2>2. ASSUME NEW h \in E, h.acct = a
          PROVE  AsPosted
      <3> DEFINE e == logEntry(c, h.kind, h.delta, day, ref)
                 u == upsertDailyLog(c.daily[day], c.balance, c.balance + h.delta, h.delta)
      <3>1. h.kind \in ChangeType /\ h.delta \in Int
        BY DEF OnePerAccount, Stmt
      <3>2. /\ x \in AccountRow /\ x.present /\ x.balance = c.balance + h.delta
            /\ x.pending = c.pending /\ x.log = Append(c.log, e)
            /\ x.daily[day] = u
            /\ \A on \in Day : on # day => x.daily[on] = c.daily[on]
        <4>1. x = postEntryRow(c, h.kind, h.delta, day, ref)
          BY <2>2 DEF Posted
        <4> QED
          BY <3>1, <4>1, PostEntryRowLemma
      <3>3. e \in LogEntry
        BY <1>2, <3>1, LogEntryLemma
      <3>4. u \in DailyRow /\ u.present
        BY <1>2, <3>1, UpsertDailyLemma
      <3>5. /\ w.balance = c.balance + h.delta
            /\ w.log = << e >>
            /\ w.daily = [NoAccount.daily EXCEPT ![day] = u]
        BY <2>2 DEF RowState, Moved
      <3> HIDE DEF e, u
      <3>6. x.log = m.log /\ Len(x.log) <= Len(c.log) + 1
        BY <1>1, <1>2, <3>2, <3>3, <3>5, AppendIsConcat, AppendLemma, SMTT(30)
      <3>7. \A on \in Day : m.daily[on] = IF on = day THEN u ELSE c.daily[on]
        BY <1>1, <3>4, <3>5, NoDailyRow
      <3>8. x.daily = m.daily
        <4>1. x.daily \in [Day -> DailyRow] /\ m.daily \in [Day -> DailyRow]
          BY <1>1, <3>2, RowTypeLemma
        <4> QED
          BY <3>2, <3>7, <4>1
      <3> QED
        BY <1>1, <3>2, <3>5, <3>6, <3>8
    <2> QED
      BY <2>1, <2>2
  <1>4. CASE \A h \in P : h.acct # a
    <2>1. y = x /\ w.pending = c.pending
      BY <1>4 DEF Adjusted, RowState
    <2>2. x.present
      <3>1. PICK h \in E : h.acct = a
        BY <1>4
      <3>2. x = postEntryRow(c, h.kind, h.delta, day, ref)
        BY <3>1 DEF Posted
      <3>3. h.kind \in ChangeType /\ h.delta \in Int
        BY DEF OnePerAccount, Stmt
      <3> QED
        BY <3>2, <3>3, PostEntryRowLemma
    <2>3. x = m
      BY <1>1, <1>3, <2>1, <2>2, RowEqual
    <2> QED
      BY <1>3, <2>1, <2>3 DEF m
  <1>5. ASSUME NEW h \in P, h.acct = a
        PROVE  y = m /\ Len(y.log) <= Len(c.log) + 1
    <2>1. y = adjustPendingRow(x, h.delta) /\ w.pending = c.pending + h.delta
      BY <1>5 DEF Adjusted, RowState
    <2>2. h.delta \in Int
      BY DEF OnePerAccount, Stmt
    <2>3. /\ y \in AccountRow /\ y.present /\ y.pending = x.pending + h.delta
          /\ y.balance = x.balance /\ y.log = x.log /\ y.daily = x.daily
      BY <1>3, <2>1, <2>2, AdjustPendingRowLemma
    <2>4. y = m
      <3>1. y.pending = m.pending
        BY <1>1, <1>3, <2>1, <2>3
      <3>2. y.present = m.present
        BY <1>1, <2>3
      <3>3. y.balance = m.balance /\ y.log = m.log /\ y.daily = m.daily
        BY <1>3, <2>3
      <3> QED
        BY <1>1, <2>3, <3>1, <3>2, <3>3, RowEqual
    <2> QED
      BY <1>3, <2>3, <2>4
  <1> QED
    BY <1>4, <1>5 DEF m

(* A session ready to commit has its payment row and has done its plan.    *)
LEMMA DoneLemma ==
  ASSUME NEW q \in SessionRecord, q.pc = "run", NEW held \in SUBSET Row, NEW d \in Ledgers,
         NEW pm, SessionOK(q, held, d, pm), q.todo = << >>
  PROVE  /\ Begun(q) /\ held \cap Account # {} /\ Left(q) = {}
         /\ \A a \in Account : RowOK(a, held, d[a], q.work[a], Entries(q, held, d),
                                     Pends(q), {}, q.req.day, q.id)
  <1>1. Left(q) = {}
    BY DEF Left, Range
  <1>2. q.req \in Request /\ Valid(q.req)
    BY DEF SessionOK
  <1>3. Begun(q)
    <2> SUFFICES ASSUME ~Begun(q) PROVE FALSE
      OBVIOUS
    <2>1. Program(q.req) = << >>
      <3>1. q.todo = Opening(q)
        BY DEF SessionOK
      <3> QED
        BY <3>1 DEF Opening
    <2>2. q.req.op \in {"create", "accept", "reject"}
      BY <1>2, RequestLemma DEF Begun
    <2>3. CASE q.req.op = "create"
      <3> DEFINE t == PendingPair(q.req.team, q.req.forTeam, q.req.amount)
      <3>1. Program(q.req) = << Statement("insertPayment") >> \o t
        BY <2>3 DEF Program
      <3>2. t \in Seq(Stmt) /\ Statement("insertPayment") \in Stmt
        BY <1>2, <2>3, RequestLemma, PendingSeq, OtherStatements
      <3> HIDE DEF t
      <3> QED
        BY <2>1, <3>1, <3>2, ConsLemma
    <2>4. CASE q.req.op \in {"accept", "reject"}
      BY <2>1, <2>4 DEF Program
    <2> QED
      BY <2>2, <2>3, <2>4
  <1>4. held \cap Account # {}
    <2> SUFFICES ASSUME held \cap Account = {} PROVE FALSE
      OBVIOUS
    <2>1. q.todo = Opening(q) /\ PaymentOK(q, held, pm)
      BY <1>3 DEF SessionOK
    <2>2. Opening(q) # << >>
      BY <1>2, <1>3, <2>1, OpeningLemma
    <2> QED
      BY <2>1, <2>2
  <1>5. \A a \in Account : RowOK(a, held, d[a], q.work[a], Entries(q, held, d),
                                 Pends(q), {}, q.req.day, q.id)
    <2>1. PlanOK(q, held, d)
      BY <1>3, MiddleLemma
    <2> QED
      BY <1>1, <2>1 DEF PlanOK
  <1> QED
    BY <1>1, <1>3, <1>4, <1>5

(* Its commit writes every row of the plan once, and no other row.         *)
LEMMA CommitRow ==
  ASSUME NEW q \in SessionRecord, q.pc = "run", NEW held \in SUBSET Row, NEW d \in Ledgers,
         NEW pm, SessionOK(q, held, d, pm), q.todo = << >>, NEW a \in Account,
         NEW x, NEW y, Posted(a, d[a], x, Entries(q, held, d), q.req.day, q.id),
         Adjusted(a, x, y, Pends(q))
  PROVE  y = IF a \in held THEN Merge(d[a], q.work[a]) ELSE d[a]
  <1> DEFINE E == Entries(q, held, d)
             P == Pends(q)
  <1>1. /\ Begun(q) /\ RowOK(a, held, d[a], q.work[a], E, P, {}, q.req.day, q.id)
    BY DoneLemma
  <1>2. /\ q.req.day \in Day /\ q.id \in Ref /\ q.work \in Ledgers
        /\ OnePerAccount(E, "entry") /\ OnePerAccount(P, "pend")
    BY <1>1, MiddleLemma
  <1>3. d[a] \in AccountRow /\ q.work[a] \in AccountRow
    BY <1>2 DEF Ledgers
  <1>4. CASE a \in held
    <2>1. /\ q.work[a].present
          /\ RowState(a, d[a], q.work[a], E, P, {}, q.req.day, q.id)
          /\ \E h \in E \cup P : h.acct = a
      BY <1>1, <1>4 DEF RowOK
    <2> HIDE DEF E, P
    <2>2. Posted(a, d[a], x, E, q.req.day, q.id) /\ Adjusted(a, x, y, P)
      BY DEF E, P
    <2>3. y = Merge(d[a], q.work[a])
      BY <1>2, <1>3, <2>1, <2>2, RowCommit
    <2> QED
      BY <1>4, <2>3
  <1>5. CASE a \notin held
    BY <1>1, <1>5 DEF RowOK, Posted, Adjusted
  <1> QED
    BY <1>4, <1>5

(* A committed row has its type, and at most one log row more.             *)
LEMMA CommitRowType ==
  ASSUME NEW q \in SessionRecord, q.pc = "run", NEW held \in SUBSET Row, NEW d \in Ledgers,
         NEW pm, SessionOK(q, held, d, pm), q.todo = << >>, NEW a \in Account, a \in held
  PROVE  LET m == Merge(d[a], q.work[a])
         IN  m \in AccountRow /\ m.present /\ Len(m.log) <= Len(d[a].log) + 1
  <1> DEFINE E == Entries(q, held, d)
             P == Pends(q)
             c == d[a]
             w == q.work[a]
             day == q.req.day
  <1>1. /\ Begun(q) /\ RowOK(a, held, c, w, E, P, {}, day, q.id)
    BY DoneLemma
  <1>2. /\ day \in Day /\ q.id \in Ref /\ q.work \in Ledgers
        /\ OnePerAccount(E, "entry") /\ OnePerAccount(P, "pend")
    BY <1>1, MiddleLemma
  <1>3. c \in AccountRow /\ w \in AccountRow
    BY <1>2 DEF Ledgers
  <1>4. /\ w.present /\ RowState(a, c, w, E, P, {}, day, q.id)
    BY <1>1 DEF RowOK
  <1> HIDE DEF c, w
  <1>5. Len(w.log) <= 1 /\ Len(w.log) \in Nat /\ w.log \in Seq(LogEntry)
    <2>1. w.log = << >> \/ \E e : w.log = <<e>>
      BY <1>4 DEF RowState, Moved, Unmoved
    <2> QED
      BY <1>3, <2>1, RowTypeLemma
  <1> DEFINE m == Merge(c, w)
  <1>6. m \in AccountRow /\ m.present /\ m.log = c.log \o w.log
    BY <1>3, <1>4, MergeLemma, ZenonT(40)
  <1> HIDE DEF m
  <1>7. c.log \in Seq(LogEntry) /\ Len(c.log) \in Nat
    BY <1>3, RowTypeLemma
  <1>8. Len(c.log \o w.log) = Len(c.log) + Len(w.log)
    BY <1>5, <1>7, ConcatProperties, ZenonT(40)
  <1>9. Len(m.log) <= Len(c.log) + 1
    BY <1>5, <1>6, <1>7, <1>8
  <1>10. m = Merge(d[a], q.work[a]) /\ c.log = d[a].log
    BY DEF m, c, w
  <1> QED
    BY <1>6, <1>9, <1>10

(* The payment row a session commits.                                      *)
LEMMA CommitPayment ==
  ASSUME NEW q \in SessionRecord, q.pc = "run", NEW held \in SUBSET Row, NEW d \in Ledgers,
         NEW pm, SessionOK(q, held, d, pm), q.todo = << >>, NEW id \in PaymentId, id \in held
  PROVE  /\ id = q.id /\ q.req.op # "post"
         /\ q.pay \in L!InvoicePayment /\ q.pay.team # q.pay.forTeam
  <1>1. Begun(q)
    BY DoneLemma
  <1>2. q.req \in Request /\ Valid(q.req) /\ PaymentOK(q, held, pm)
    BY <1>1, MiddleLemma
  <1>3. id = q.id /\ id # NoRef
    BY <1>2, TxnAssumption DEF PaymentOK
  <1>4. q.req.op # "post"
    BY <1>2, <1>3 DEF PaymentOK
  <1>5. CASE q.req.op = "create"
    <2>1. /\ q.req.team \in Team /\ q.req.forTeam \in Team /\ q.req.amount \in Int
          /\ q.req.team # q.req.forTeam
      BY <1>2, <1>5, RequestLemma, FirstLemma
    <2>2. q.pay = [status |-> "PENDING", team |-> q.req.team, forTeam |-> q.req.forTeam,
                   amount |-> q.req.amount, acceptedAt |-> {}]
      BY <1>2, <1>5 DEF PaymentOK
    <2> QED
      BY <1>3, <1>4, <2>1, <2>2 DEF L!InvoicePayment
  <1>6. CASE q.req.op \in {"accept", "reject"}
    BY <1>1, <1>2, <1>3, <1>4, <1>6, PayLemma
  <1> QED
    BY <1>2, <1>4, <1>5, <1>6, RequestLemma

LEMMA CommitStep ==
  ASSUME TxnInv, NEW s \in Session, Commit(s)
  PROVE  TxnInv'
  <1> DEFINE q == sess[s]
             held == HeldBy(lock, s)
  <1>1. /\ Running(s) /\ q.todo = << >>
        /\ lock' = Unlocked(s) /\ sess' = [sess EXCEPT ![s] = Idle] /\ UNCHANGED started
        /\ db' = [a \in Account |-> IF Holds(s, a) THEN Merge(db[a], q.work[a]) ELSE db[a]]
        /\ payments' = [id \in PaymentId |-> IF Holds(s, id) THEN q.pay ELSE payments[id]]
    BY DEF Commit
  <1>2. /\ q \in SessionRecord /\ q.pc = "run" /\ held \in SUBSET Row /\ db \in Ledgers
        /\ SessionOK(q, held, db, payments)
    BY <1>1, HeldLemma DEF TxnInv, Types, Running
  <1>3. /\ lock' \in [Row -> Session \cup {Free}]
        /\ HeldBy(lock', s) = {}
        /\ \A o \in Session \ {s} : HeldBy(lock', o) = HeldBy(lock, o)
    BY <1>1, ReleaseRows DEF TxnInv, Types
  <1>4. Idle \in SessionRecord /\ Idle.pc = "idle"
    BY IdleLemma DEF Idle
  <1>5. \A row \in Row : row \in held <=> Holds(s, row)
    BY HeldLemma
  <1>6. ASSUME NEW a \in Account
        PROVE  /\ db'[a] = IF a \in held THEN Merge(db[a], q.work[a]) ELSE db[a]
               /\ db'[a] \in AccountRow
               /\ db[a] \in AccountRow
               /\ a \in held => db'[a].present
               /\ Len(db'[a].log) <= Len(db[a].log) + 1
    <2>1. db'[a] = IF a \in held THEN Merge(db[a], q.work[a]) ELSE db[a]
      BY <1>1, <1>5, HeldLemma
    <2>2. db[a] \in AccountRow /\ Len(db[a].log) \in Nat
      BY <1>2, RowTypeLemma DEF Ledgers
    <2>3. CASE a \in held
      BY <1>1, <1>2, <2>1, <2>2, <2>3, CommitRowType
    <2>4. CASE a \notin held
      BY <2>1, <2>2, <2>4
    <2> QED
      BY <2>1, <2>2, <2>3, <2>4
  <1>7. ASSUME NEW id \in PaymentId
        PROVE  /\ payments'[id] = IF id \in held THEN q.pay ELSE payments[id]
               /\ id \in held => q.pay \in L!InvoicePayment /\ q.pay.team # q.pay.forTeam
    BY <1>1, <1>2, <1>5, CommitPayment, HeldLemma
  <1>8. Types'
    <2>1. db' \in Ledgers
      BY <1>1, <1>6 DEF Ledgers
    <2>2. payments' \in [PaymentId -> L!InvoicePayment \cup {NoPayment}]
      BY <1>1, <1>7 DEF TxnInv, Types
    <2>3. sess' \in [Session -> SessionRecord]
      BY <1>1, <1>4 DEF TxnInv, Types
    <2> QED
      BY <1>1, <1>3, <2>1, <2>2, <2>3 DEF TxnInv, Types
  <1>9. Committed'
    BY <1>6, <1>7 DEF TxnInv, Committed
  <1>10. Counted'
    <2>1. /\ IsFiniteSet(RunningSessions')
          /\ Cardinality(RunningSessions') = Cardinality(RunningSessions) - 1
          /\ Cardinality(RunningSessions) \in Nat /\ Cardinality(RunningSessions') \in Nat
      BY <1>1, <1>4, OneEnds DEF TxnInv
    <2>2. ASSUME NEW a \in Account
          PROVE  Len(db'[a].log) + Cardinality(RunningSessions') <= started'
      <3>1. /\ Len(db[a].log) \in Nat /\ Len(db'[a].log) \in Nat /\ started \in Nat
            /\ Len(db'[a].log) <= Len(db[a].log) + 1
        BY <1>6, RowTypeLemma DEF TxnInv, Types
      <3>2. Len(db[a].log) + Cardinality(RunningSessions) <= started
        BY DEF TxnInv, Counted
      <3> QED
        BY <1>1, <2>1, <3>1, <3>2
    <2> QED
      BY <2>1, <2>2 DEF Counted
  <1>11. ASSUME NEW o \in Session
         PROVE  SessionOK(sess'[o], HeldBy(lock', o), db', payments')
    <2>1. CASE o = s
      BY <1>1, <1>3, <1>4, <2>1 DEF TxnInv, Types, SessionOK
    <2>2. CASE o # s
      <3>1. sess'[o] = sess[o] /\ HeldBy(lock', o) = HeldBy(lock, o)
        BY <1>1, <1>3, <2>2 DEF TxnInv, Types
      <3>2. \A row \in HeldBy(lock, o) : row \notin held
        BY <2>2 DEF HeldBy
      <3>3. /\ \A a \in Account \cap HeldBy(lock, o) : db'[a] = db[a]
            /\ \A id \in PaymentId \cap HeldBy(lock, o) : payments'[id] = payments[id]
        BY <1>6, <1>7, <3>2
      <3>4. SessionOK(sess[o], HeldBy(lock, o), db, payments)
        BY DEF TxnInv
      <3> QED
        BY <3>1, <3>3, <3>4, SessionFrame
    <2> QED
      BY <2>1, <2>2
  <1> QED
    BY <1>8, <1>9, <1>10, <1>11 DEF TxnInv

LEMMA TxnInitial == Init => TxnInv
  <1> SUFFICES ASSUME Init PROVE TxnInv
    OBVIOUS
  <1>1. Types
    <2>1. sess \in [Session -> SessionRecord]
      BY IdleLemma DEF Init
    <2>2. db \in Ledgers
      BY EmptyLedgerLemma DEF Init
    <2> QED
      BY <2>1, <2>2, TxnAssumption DEF Init, Types
  <1>2. Committed
    BY DEF Init, Committed, EmptyLedger
  <1>3. Counted
    <2>1. RunningSessions = {}
      BY DEF Init, RunningSessions, Running, Idle
    <2>2. ASSUME NEW a \in Account
          PROVE  Len(db[a].log) = 0
      BY DEF Init, EmptyLedger, NoAccount
    <2> QED
      BY <2>1, <2>2, FS_EmptySet DEF Init, Counted
  <1>4. ASSUME NEW s \in Session
        PROVE  SessionOK(sess[s], HeldBy(lock, s), db, payments)
    <2>1. sess[s] = Idle /\ Idle.pc = "idle"
      BY DEF Init, Idle
    <2>2. HeldBy(lock, s) = {}
      BY TxnAssumption DEF Init, HeldBy
    <2> QED
      BY <2>1, <2>2 DEF SessionOK
  <1> QED
    BY <1>1, <1>2, <1>3, <1>4 DEF TxnInv

LEMMA TxnStep == TxnInv /\ [Next]_vars => TxnInv'
  <1> SUFFICES ASSUME TxnInv, [Next]_vars PROVE TxnInv'
    OBVIOUS
  <1>1. CASE UNCHANGED vars
    <2>1. UNCHANGED <<db, payments, lock, sess, started>>
      BY <1>1 DEF vars
    <2>2. Types' /\ Committed' /\ Counted'
      BY <2>1 DEF TxnInv, Types, Committed, Counted, RunningSessions, Running
    <2>3. \A s \in Session : SessionOK(sess'[s], HeldBy(lock', s), db', payments')
      BY <2>1 DEF TxnInv
    <2> QED
      BY <2>2, <2>3 DEF TxnInv
  <1>2. ASSUME NEW s \in Session, NEW r \in Request, Begin(s, r) PROVE TxnInv'
    BY <1>2, BeginStep
  <1>3. ASSUME NEW s \in Session, Execute(s) PROVE TxnInv'
    <2>1. CASE SelectForUpdate(s)
      BY <2>1, SelectForUpdateStep
    <2>2. CASE SelectMisses(s)
      BY <2>2, SelectMissesStep
    <2>3. CASE InsertBalance(s)
      BY <2>3, InsertBalanceStep
    <2>4. CASE UniqueViolation(s)
      BY <2>4, RollbackStep DEF UniqueViolation, NextIs
    <2>5. CASE UpsertDaily(s)
      BY <2>5, UpsertDailyStep
    <2>6. CASE LoadPendingPayment(s)
      BY <2>6, LoadPendingPaymentStep
    <2>7. CASE RefusePayment(s)
      BY <2>7, RollbackStep DEF RefusePayment, NextIs
    <2>8. CASE SetStatus(s)
      BY <2>8, SetStatusStep
    <2>9. CASE \E id \in PaymentId : InsertPayment(s, id)
      BY <2>9, InsertPaymentStep
    <2>10. CASE Commit(s)
      BY <2>10, CommitStep
    <2>11. CASE DeadlockVictim(s)
      BY <2>11, RollbackStep DEF DeadlockVictim
    <2> QED
      BY <1>3, <2>1, <2>2, <2>3, <2>4, <2>5, <2>6, <2>7, <2>8, <2>9, <2>10, <2>11 DEF Execute
  <1>4. ASSUME NEW s \in Session, Crash(s) PROVE TxnInv'
    BY <1>4, RollbackStep DEF Crash
  <1> QED
    BY <1>1, <1>2, <1>3, <1>4 DEF Next

(* In every state of every interleaving, with any of the sessions failed,  *)
(* crashed or chosen as a deadlock's victim on the way, each running       *)
(* transaction holds exactly the rows its plan has touched, its private    *)
(* version of each is the committed one with the plan's finished           *)
(* statements applied, and what is left to do is the rest of the plan.     *)
THEOREM TxnInvariant == Spec => []TxnInv
  BY TxnInitial, TxnStep, PTL DEF Spec
-----------------------------------------------------------------------------
(* What follows from the invariant.                                        *)

(* A session has written to the rows it holds and to no other.             *)
LEMMA UntouchedRow ==
  ASSUME NEW q, NEW held, NEW d, NEW pm, SessionOK(q, held, d, pm), NEW a \in Account,
         a \notin held
  PROVE  q.work[a] = NoAccount
  <1>1. CASE q.pc = "idle"
    BY <1>1 DEF SessionOK, Idle, EmptyLedger
  <1>2. CASE q.pc # "idle" /\ ~Begun(q)
    BY <1>2 DEF SessionOK, EmptyLedger
  <1>3. CASE q.pc # "idle" /\ Begun(q)
    BY <1>3 DEF SessionOK, PlanOK, RowOK
  <1> QED
    BY <1>1, <1>2, <1>3

(* A daily row is written under the lock of its balance row.               *)
LEMMA DailyHeld ==
  ASSUME TxnInv, NEW s \in Session, NextIs(s, {"daily"})
  PROVE  /\ NextAccount(s) \in Account /\ NextAccount(s) \in HeldBy(lock, s)
         /\ sess[s].req.day \in Day
  <1> DEFINE q == sess[s]
  <1>1. /\ q \in SessionRecord /\ q.pc = "run" /\ q.todo # << >>
        /\ Head(q.todo).op = "daily"
        /\ HeldBy(lock, s) \in SUBSET Row /\ db \in Ledgers
        /\ SessionOK(q, HeldBy(lock, s), db, payments)
    BY NextLemma
  <1>2. Head(q.todo).acct \in Account /\ Head(q.todo).acct \in HeldBy(lock, s)
    BY <1>1, DailySession
  <1>3. q.req.day \in Day
    BY <1>1, RequestLemma DEF SessionOK
  <1> QED
    BY <1>2, <1>3 DEF NextAccount

LEMMA DailyLocked == TxnInv => DailyNeverContended
  <1> SUFFICES ASSUME TxnInv, NEW s \in Session, NextIs(s, {"daily"}), NEW o \in Session \ {s}
               PROVE  ~sess[o].work[NextAccount(s)].daily[sess[s].req.day].present
    BY DEF DailyNeverContended, DailyTaken
  <1> DEFINE a == NextAccount(s)
  <1>1. a \in Account /\ a \in HeldBy(lock, s) /\ sess[s].req.day \in Day
    BY DailyHeld
  <1>2. a \notin HeldBy(lock, o)
    BY <1>1 DEF HeldBy
  <1>3. SessionOK(sess[o], HeldBy(lock, o), db, payments)
    BY DEF TxnInv
  <1>4. sess[o].work[a] = NoAccount
    BY <1>1, <1>2, <1>3, UntouchedRow
  <1> QED
    BY <1>1, <1>4, NoDailyRow

(* The lock on a balance row protects the account's daily rows: whatever   *)
(* the interleaving of postings and payments, no session that upserts a    *)
(* daily row finds another session's uncommitted row of that account and   *)
(* day, so the unique index on the daily logs never fails a posting.       *)
THEOREM TxnDailyNeverContended == Spec => []DailyNeverContended
  BY TxnInvariant, DailyLocked, PTL
-----------------------------------------------------------------------------
(* Deadlocks.                                                              *)

(* A waiting session runs and waits for another one, which holds an        *)
(* account's row, or a payment's while the waiting one holds nothing yet.  *)
LEMMA WaitLemma ==
  ASSUME TxnInv, NEW s \in Session, NEW o \in Session, WaitsFor(s) = o
  PROVE  /\ Running(s) /\ o # s
         /\ \E row \in Row : /\ lock[row] = o
                             /\ row \in Account \/ HeldBy(lock, s) = {}
  <1>1. Free \notin Session
    BY TxnAssumption
  <1>2. CASE NextIs(s, BalanceOps)
    <2>1. Running(s) /\ NextAccount(s) \in Account
      BY <1>2, NextLemma, AccountLemma DEF NextIs, NextAccount
    <2>2. ~NextIs(s, {"loadPayment"})
      BY <1>2 DEF NextIs, BalanceOps
    <2>3. o # s /\ lock[NextAccount(s)] = o
      BY <1>1, <1>2, <2>2 DEF WaitsFor
    <2> QED
      BY <2>1, <2>3, HeldLemma
  <1>3. CASE NextIs(s, {"loadPayment"}) /\ ~NextIs(s, BalanceOps)
    <2>1. Running(s) /\ HeldBy(lock, s) = {} /\ sess[s].req.id \in PaymentId
      BY <1>3, NextLemma, LoadRequest DEF NextIs
    <2>2. o # s /\ lock[sess[s].req.id] = o
      BY <1>1, <1>3 DEF WaitsFor
    <2> QED
      BY <2>1, <2>2, HeldLemma
  <1>4. CASE ~NextIs(s, {"loadPayment"}) /\ ~NextIs(s, BalanceOps)
    BY <1>1, <1>4 DEF WaitsFor
  <1> QED
    BY <1>2, <1>3, <1>4

(* Sessions that have locked any account's row have locked the first.      *)
LEMMA FirstLocked ==
  ASSUME TxnInv, NEW o \in Session, NEW row \in Account, lock[row] = o, Running(o)
  PROVE  lock[FirstAccount(sess[o].req)] = o
  <1>1. row \in HeldBy(lock, o)
    BY HeldLemma DEF HeldBy
  <1>2. FirstAccount(sess[o].req) \in HeldBy(lock, o)
    BY <1>1 DEF TxnInv, SessionOK, Running
  <1> QED
    BY <1>2 DEF HeldBy

LEMMA CycleMixes == TxnInv => DeadlockNeedsMixedOrder
  <1> SUFFICES ASSUME TxnInv, NEW C \in SUBSET Session, Cycle(C)
               PROVE  Cardinality({FirstAccount(sess[s].req) : s \in C}) > 1
    BY DEF DeadlockNeedsMixedOrder
  <1> DEFINE First(s) == FirstAccount(sess[s].req)
             F == {First(s) : s \in C}
  <1>1. C # {} /\ {WaitsFor(s) : s \in C} = C
    BY DEF Cycle
  <1>2. \A s \in C : /\ WaitsFor(s) \in C /\ WaitsFor(s) # s /\ Running(s)
                     /\ \E row \in Row : /\ lock[row] = WaitsFor(s)
                                         /\ row \in Account \/ HeldBy(lock, s) = {}
    BY <1>1, WaitLemma
  <1>3. IsFiniteSet(C)
    <2>1. C \subseteq RunningSessions
      BY <1>2 DEF RunningSessions
    <2> QED
      BY <2>1, FS_Subset DEF TxnInv, Counted
  <1>4. IsFiniteSet(F) /\ F # {} /\ Cardinality(F) \in Nat /\ Cardinality(F) # 0
    <2>1. IsFiniteSet(F)
      <3> DEFINE f == [s \in C |-> First(s)]
      <3>1. f \in Surjection(C, F)
        BY DEF Surjection
      <3> HIDE DEF f, F
      <3> QED
        BY <1>3, <3>1, FS_Surjection
    <2>2. F # {}
      BY <1>1
    <2> HIDE DEF F
    <2> QED
      BY <2>1, <2>2, FS_CardinalityType, FS_EmptySet
  <1>5. ASSUME Cardinality(F) = 1 PROVE FALSE
    <2>1. PICK a : F = {a}
      <3> HIDE DEF F
      <3> QED
        BY <1>4, <1>5, FS_Singleton
    <2>2. \A s \in C : First(s) = a
      BY <2>1
    <2>3. \A s \in C : HeldBy(lock, s) # {}
      <3> TAKE s \in C
      <3>1. PICK t \in C : WaitsFor(t) = s
        BY <1>1
      <3>2. PICK row \in Row : lock[row] = s
        BY <1>2, <3>1
      <3> QED
        BY <3>2 DEF HeldBy
    <2>4. \A s \in C : WaitsFor(s) = lock[a]
      <3> TAKE s \in C
      <3>1. PICK row \in Account : lock[row] = WaitsFor(s)
        BY <1>2, <2>3
      <3>2. WaitsFor(s) \in C /\ Running(WaitsFor(s))
        BY <1>2
      <3>3. lock[First(WaitsFor(s))] = WaitsFor(s)
        BY <3>1, <3>2, FirstLocked
      <3> QED
        BY <2>2, <3>2, <3>3
    <2>5. lock[a] \in C
      BY <1>1, <1>2, <2>4
    <2> QED
      BY <1>2, <2>4, <2>5
  <1> QED
    BY <1>4, <1>5 DEF F

(* Requests that lock the rows of a pair in the same order never deadlock: *)
(* in every cycle of waiting transactions, of any number of sessions, two  *)
(* start from different accounts.                                          *)
THEOREM TxnDeadlockOrder == Spec => []DeadlockNeedsMixedOrder
  BY TxnInvariant, CycleMixes, PTL
-----------------------------------------------------------------------------
(* The commits are the atomic steps of Ledger.                             *)

(* The ledger's operators are those of the transactions.                   *)
LEMMA SameOperators ==
  /\ \A d, a, kind, amount, day, ref :
       L!postDoubleEntry(d, a, kind, amount, day, ref)
         = postDoubleEntry(d, a, kind, amount, day, ref)
  /\ \A d, team, forTeam, delta :
       L!adjustPendingPair(d, team, forTeam, delta) = adjustPendingPair(d, team, forTeam, delta)
  /\ \A team, forTeam, bt, kind, amount :
       L!ValidPosting(team, forTeam, bt, kind, amount)
         <=> ValidPosting(team, forTeam, bt, kind, amount)
  /\ L!Account = Account /\ L!EmptyLedger = EmptyLedger
  /\ L!BalanceType = BalanceType
  <1>1. ASSUME NEW d, NEW a, NEW kind, NEW amount, NEW day, NEW ref
        PROVE  L!postDoubleEntry(d, a, kind, amount, day, ref)
                 = postDoubleEntry(d, a, kind, amount, day, ref)
    BY DEF L!postDoubleEntry, postDoubleEntry, L!postEntry, postEntry, L!postEntryRow,
           postEntryRow, L!moveBalance, moveBalance, L!logEntry, logEntry,
           L!lockOrCreateBalance, lockOrCreateBalance, L!upsertDailyLog, upsertDailyLog,
           L!Mirror, Mirror, L!oppositeBalance, oppositeBalance
  <1>2. ASSUME NEW d, NEW team, NEW forTeam, NEW delta
        PROVE  L!adjustPendingPair(d, team, forTeam, delta)
                 = adjustPendingPair(d, team, forTeam, delta)
    BY DEF L!adjustPendingPair, adjustPendingPair, L!adjustPending, adjustPending,
           L!adjustPendingRow, adjustPendingRow, L!lockOrCreateBalance, lockOrCreateBalance
  <1>3. ASSUME NEW team, NEW forTeam, NEW bt, NEW kind, NEW amount
        PROVE  L!ValidPosting(team, forTeam, bt, kind, amount)
                 <=> ValidPosting(team, forTeam, bt, kind, amount)
    BY DEF L!ValidPosting, ValidPosting, L!BalanceType, BalanceType
  <1>4. /\ L!Account = Account /\ L!EmptyLedger = EmptyLedger
        /\ L!BalanceType = BalanceType
    BY DEF L!Account, Account, L!BalanceType, BalanceType, L!EmptyLedger, EmptyLedger,
           L!NoAccount, NoAccount, L!NoDaily, NoDaily
  <1> QED
    BY <1>1, <1>2, <1>3, <1>4

(* A posting leaves its two rows posted and every other row alone.         *)
LEMMA PostedLegs ==
  ASSUME NEW d \in Ledgers, NEW a \in Account, NEW kind \in ChangeType, NEW amount \in Int,
         NEW day \in Day, NEW ref \in Ref, NEW b \in Account
  PROVE  LET e == postDoubleEntry(d, a, kind, amount, day, ref)
         IN  e \in Ledgers /\ Posted(b, d[b], e[b], TwoLegs(a, kind, amount), day, ref)
  <1> DEFINE e == postDoubleEntry(d, a, kind, amount, day, ref)
             E == TwoLegs(a, kind, amount)
  <1>1. /\ e \in Ledgers
        /\ e[a] = postEntryRow(d[a], kind, amount, day, ref)
        /\ e[Mirror(a)] = postEntryRow(d[Mirror(a)], kind, -amount, day, ref)
        /\ \A c \in Account : c # a /\ c # Mirror(a) => e[c] = d[c]
    BY PostDoubleEntryLemma
  <1>2. Mirror(a) \in Account /\ Mirror(a) # a
    BY MirrorLemma
  <1>3. \A h \in E : /\ h.acct \in {a, Mirror(a)} /\ h.kind = kind
                     /\ h.delta = IF h.acct = a THEN amount ELSE -amount
    BY LegsLemma
  <1>4. (\E h \in E : h.acct = a) /\ (\E h \in E : h.acct = Mirror(a))
    <2> DEFINE x == OnAccount("entry", a, kind, amount)
               y == OnAccount("entry", Mirror(a), kind, -amount)
    <2>1. x.acct = a /\ y.acct = Mirror(a)
      BY DEF OnAccount
    <2>2. x \in E /\ y \in E
      BY DEF TwoLegs
    <2> QED
      BY <2>1, <2>2
  <1> HIDE DEF e, E
  <1>5. \A h \in E : h.acct = b => e[b] = postEntryRow(d[b], h.kind, h.delta, day, ref)
    BY <1>1, <1>2, <1>3
  <1>6. (\A h \in E : h.acct # b) => e[b] = d[b]
    BY <1>1, <1>4
  <1> QED
    BY <1>1, <1>5, <1>6 DEF Posted, e, E

(* So does the change of a payment's in-flight amount.                     *)
LEMMA AdjustedPair ==
  ASSUME NEW d \in Ledgers, NEW team \in Team, NEW forTeam \in Team, NEW delta \in Int,
         NEW b \in Account
  PROVE  LET e == adjustPendingPair(d, team, forTeam, delta)
         IN  e \in Ledgers /\ Adjusted(b, d[b], e[b], TwoPends(team, forTeam, delta))
  <1> DEFINE e == adjustPendingPair(d, team, forTeam, delta)
             P == TwoPends(team, forTeam, delta)
             a == <<team, forTeam, "PAYABLE">>
             m == <<forTeam, team, "RECEIVABLE">>
  <1>1. a \in Account /\ m \in Account /\ a # m /\ Mirror(a) = m
    BY PendingAccounts
  <1>2. /\ e \in Ledgers
        /\ e[a] = adjustPendingRow(d[a], delta)
        /\ e[m] = adjustPendingRow(d[m], delta)
        /\ \A c \in Account : c # a /\ c # m => e[c] = d[c]
    <2>1. /\ e \in Ledgers
          /\ e[a] = adjustPendingRow(d[a], delta)
          /\ e[Mirror(a)] = adjustPendingRow(d[Mirror(a)], delta)
          /\ \A c \in Account : c # a /\ c # Mirror(a) => e[c] = d[c]
      BY AdjustPendingPairLemma
    <2> HIDE DEF e, a, m
    <2> QED
      BY <1>1, <2>1
  <1>3. /\ \A h \in P : h.acct \in {a, m} /\ h.delta = delta
        /\ \E h \in P : h.acct = a
        /\ \E h \in P : h.acct = m
    BY PendingSet, SMTT(30)
  <1> HIDE DEF e, P, a, m
  <1>4. \A h \in P : h.acct = b => e[b] = adjustPendingRow(d[b], h.delta)
    BY <1>2, <1>3, SMTT(30)
  <1>5. (\A h \in P : h.acct # b) => e[b] = d[b]
    BY <1>2, <1>3, SMTT(30)
  <1> QED
    BY <1>2, <1>4, <1>5 DEF Adjusted, e, P

(* A posting that is only made of a positive amount.                       *)
LEMMA PostedPart ==
  ASSUME NEW d \in Ledgers, NEW a \in Account, NEW amount \in Int, NEW day \in Day,
         NEW ref \in Ref, NEW b \in Account
  PROVE  LET e == IF amount > 0 THEN postDoubleEntry(d, a, "PAYMENT", amount, day, ref) ELSE d
             E == IF amount > 0 THEN TwoLegs(a, "PAYMENT", amount) ELSE {}
         IN  /\ e \in Ledgers /\ Posted(b, d[b], e[b], E, day, ref)
             /\ \A h \in E : h.acct \in {a, Mirror(a)}
  <1>1. "PAYMENT" \in ChangeType
    BY DEF ChangeType
  <1>2. CASE amount > 0
    <2> DEFINE e == postDoubleEntry(d, a, "PAYMENT", amount, day, ref)
               E == TwoLegs(a, "PAYMENT", amount)
    <2>1. e \in Ledgers /\ Posted(b, d[b], e[b], E, day, ref)
      BY <1>1, PostedLegs
    <2>2. \A h \in E : h.acct \in {a, Mirror(a)}
      BY <1>1, LegsLemma
    <2> HIDE DEF e, E
    <2> QED
      BY <1>2, <2>1, <2>2 DEF e, E
  <1>3. CASE ~(amount > 0)
    BY <1>3 DEF Posted
  <1> QED
    BY <1>2, <1>3

(* And the settlement of a payment.                                        *)
LEMMA SettledRows ==
  ASSUME NEW d \in Ledgers, NEW p \in L!InvoicePayment, p.team # p.forTeam, NEW day \in Day,
         NEW id \in Ref, NEW b \in Account
  PROVE  LET e == L!settle(d, id, p, day)
             E == SplitLegs(d[PayAccount(p)].balance, p)
         IN  e \in Ledgers /\ Posted(b, d[b], e[b], E, day, id)
  <1> DEFINE pay == PayAccount(p)
             rec == RecAccount(p)
             s == L!settledPart(d[pay].balance, p.amount)
             paid == IF s > 0 THEN postDoubleEntry(d, pay, "PAYMENT", s, day, id) ELSE d
             e == IF p.amount - s > 0
                  THEN postDoubleEntry(paid, rec, "PAYMENT", p.amount - s, day, id)
                  ELSE paid
             E1 == IF s > 0 THEN TwoLegs(pay, "PAYMENT", s) ELSE {}
             E2 == IF p.amount - s > 0 THEN TwoLegs(rec, "PAYMENT", p.amount - s) ELSE {}
  <1>1. /\ pay \in Account /\ rec \in Account /\ p.amount \in Int
        /\ {pay, Mirror(pay)} \cap {rec, Mirror(rec)} = {}
    <2>1. 0 \in Int
      OBVIOUS
    <2> QED
      BY <2>1, SplitLemma DEF L!InvoicePayment
  <1>2. s \in Int
    <2>1. d[pay].balance \in Int
      BY <1>1, RowTypeLemma DEF Ledgers
    <2> QED
      BY <2>1, SplitLemma
  <1>3. L!settle(d, id, p, day) = e
    BY SameOperators DEF L!settle, PayAccount, RecAccount
  <1>4. SplitLegs(d[pay].balance, p) = E1 \cup E2
    BY DEF SplitLegs
  <1> HIDE DEF pay, rec, s
  <1>5. /\ paid \in Ledgers /\ Posted(b, d[b], paid[b], E1, day, id)
        /\ \A h \in E1 : h.acct \in {pay, Mirror(pay)}
    BY <1>1, <1>2, PostedPart
  <1> HIDE DEF paid
  <1>6. /\ e \in Ledgers /\ Posted(b, paid[b], e[b], E2, day, id)
        /\ \A h \in E2 : h.acct \in {rec, Mirror(rec)}
    <2> DEFINE rest == p.amount - s
    <2>1. rest \in Int
      BY <1>1, <1>2
    <2> HIDE DEF rest
    <2>2. /\ e = IF rest > 0 THEN postDoubleEntry(paid, rec, "PAYMENT", rest, day, id) ELSE paid
          /\ E2 = IF rest > 0 THEN TwoLegs(rec, "PAYMENT", rest) ELSE {}
      BY DEF rest
    <2> HIDE DEF e, E2
    <2> QED
      BY <1>1, <1>5, <2>1, <2>2, PostedPart
  <1> HIDE DEF e, E1, E2
  <1>7. Posted(b, d[b], e[b], E1 \cup E2, day, id)
    BY <1>1, <1>5, <1>6 DEF Posted
  <1> QED
    BY <1>3, <1>4, <1>6, <1>7 DEF pay

(* What the commit of a session writes: the rows of its plan, as posted    *)
(* and adjusted, and its payment.                                          *)
LEMMA CommitTables ==
  ASSUME TxnInv, NEW s \in Session, Commit(s)
  PROVE  LET q == sess[s]
             held == HeldBy(lock, s)
         IN  /\ q \in SessionRecord /\ q.req \in Request /\ Valid(q.req) /\ Begun(q)
             /\ q.id \in Ref /\ PaymentOK(q, held, payments) /\ db \in Ledgers
             /\ held \cap Account # {} /\ Left(q) = {}
             /\ \A y \in Ledgers :
                  (\A a \in Account :
                     \E x : /\ Posted(a, db[a], x, Entries(q, held, db), q.req.day, q.id)
                            /\ Adjusted(a, x, y[a], Pends(q)))
                  => db' = y
             /\ payments' = IF q.req.op = "post" THEN payments
                            ELSE [payments EXCEPT ![q.id] = q.pay]
             /\ q.req.op # "post" => q.id \in PaymentId
  <1> DEFINE q == sess[s]
             held == HeldBy(lock, s)
  <1>1. /\ Running(s) /\ q.todo = << >>
        /\ db' = [a \in Account |-> IF Holds(s, a) THEN Merge(db[a], q.work[a]) ELSE db[a]]
        /\ payments' = [id \in PaymentId |-> IF Holds(s, id) THEN q.pay ELSE payments[id]]
    BY DEF Commit
  <1>2. /\ q \in SessionRecord /\ q.pc = "run" /\ held \in SUBSET Row /\ db \in Ledgers
        /\ SessionOK(q, held, db, payments)
        /\ payments \in [PaymentId -> L!InvoicePayment \cup {NoPayment}]
    BY <1>1, HeldLemma DEF TxnInv, Types, Running
  <1>3. \A row \in Row : row \in held <=> Holds(s, row)
    BY HeldLemma
  <1>4. /\ Begun(q) /\ held \cap Account # {} /\ Left(q) = {}
        /\ q.req \in Request /\ Valid(q.req) /\ q.id \in Ref /\ PaymentOK(q, held, payments)
    BY <1>1, <1>2, DoneLemma, MiddleLemma
  <1>5. q.id \in PaymentId \cup {NoRef} /\ NoRef \notin PaymentId
    BY <1>2, TxnAssumption DEF SessionRecord
  <1>6. ASSUME NEW y \in Ledgers,
               \A a \in Account :
                 \E x : /\ Posted(a, db[a], x, Entries(q, held, db), q.req.day, q.id)
                        /\ Adjusted(a, x, y[a], Pends(q))
        PROVE  db' = y
    <2>1. ASSUME NEW a \in Account PROVE db'[a] = y[a]
      <3>1. PICK x : /\ Posted(a, db[a], x, Entries(q, held, db), q.req.day, q.id)
                     /\ Adjusted(a, x, y[a], Pends(q))
        BY <1>6
      <3>2. y[a] = IF a \in held THEN Merge(db[a], q.work[a]) ELSE db[a]
        BY <1>1, <1>2, <3>1, CommitRow
      <3>3. db'[a] = IF a \in held THEN Merge(db[a], q.work[a]) ELSE db[a]
        BY <1>1, <1>3, HeldLemma
      <3> QED
        BY <3>2, <3>3
    <2> QED
      BY <1>1, <2>1 DEF Ledgers
  <1>7. payments' = IF q.req.op = "post" THEN payments
                    ELSE [payments EXCEPT ![q.id] = q.pay]
    <2>1. \A id \in PaymentId : id \in held <=> id = q.id
      BY <1>4, <1>5 DEF PaymentOK
    <2>2. \A id \in PaymentId :
            payments'[id] = IF id = q.id THEN q.pay ELSE payments[id]
      BY <1>1, <1>3, <2>1, HeldLemma
    <2>3. CASE q.req.op = "post"
      <3>1. \A id \in PaymentId : id # q.id
        BY <1>4, <1>5, <2>3 DEF PaymentOK
      <3> QED
        BY <1>1, <1>2, <2>2, <2>3, <3>1
    <2>4. CASE q.req.op # "post"
      BY <1>1, <1>2, <2>2, <2>4
    <2> QED
      BY <2>3, <2>4
  <1>8. q.req.op # "post" => q.id \in PaymentId
    BY <1>4, <1>5 DEF Begun
  <1> QED
    BY <1>2, <1>4, <1>6, <1>7, <1>8

(* The atomic ledger has room for every posting of a running transaction.  *)
LEMMA RoomLemma ==
  ASSUME TxnInv, NEW s \in Session, Running(s)
  PROVE  L!LogRoom
  <1>1. ASSUME NEW a \in Account PROVE Len(db[a].log) < MaxTxn + 1
    <2>1. /\ Len(db[a].log) \in Nat /\ started \in Nat /\ started <= MaxTxn
          /\ MaxTxn \in Nat
      BY RowTypeLemma, TxnAssumption DEF TxnInv, Types, Ledgers
    <2>2. Cardinality(RunningSessions) \in Nat
      BY FS_CardinalityType DEF TxnInv, Counted
    <2>3. Len(db[a].log) + Cardinality(RunningSessions) <= started
      BY DEF TxnInv, Counted
    <2> QED
      BY <2>1, <2>2, <2>3
  <1> QED
    BY <1>1, SameOperators DEF L!LogRoom

LEMMA PostCommits ==
  ASSUME TxnInv, NEW s \in Session, Commit(s), sess[s].req.op = "post"
  PROVE  LET r == sess[s].req
         IN  /\ r \in Posts
             /\ L!CreateBalanceLog(r.team, r.forTeam, r.bt, r.kind, r.amount, r.day)
  <1> DEFINE q == sess[s]
             held == HeldBy(lock, s)
             r == q.req
             a == <<r.team, r.forTeam, r.bt>>
             y == postDoubleEntry(db, a, r.kind, r.amount, r.day, q.id)
             E == Entries(q, held, db)
             P == Pends(q)
  <1>1. /\ r \in Request /\ Valid(r) /\ db \in Ledgers /\ q.id \in Ref
        /\ PaymentOK(q, held, payments)
        /\ payments' = payments
        /\ \A z \in Ledgers :
             (\A b \in Account : \E x : /\ Posted(b, db[b], x, E, r.day, q.id)
                                        /\ Adjusted(b, x, z[b], P))
             => db' = z
    BY CommitTables
  <1>2. /\ a \in Account /\ r.kind \in ChangeType /\ r.amount \in Int /\ r.day \in Day
    BY <1>1, RequestLemma, FirstLemma DEF FirstAccount
  <1>3. q.id = NoRef
    BY <1>1 DEF PaymentOK
  <1>4. E = TwoLegs(a, r.kind, r.amount) /\ P = {}
    BY DEF Entries, Pends
  <1> HIDE DEF E, P, a
  <1>5. /\ y \in Ledgers
        /\ \A b \in Account : Posted(b, db[b], y[b], E, r.day, q.id)
    <2>1. \A b \in Account : /\ y \in Ledgers
                             /\ Posted(b, db[b], y[b], E, r.day, q.id)
      BY <1>1, <1>2, <1>4, PostedLegs
    <2> QED
      BY <1>2, <2>1
  <1> HIDE DEF y
  <1>6. db' = y
    BY <1>1, <1>4, <1>5 DEF Adjusted
  <1>7. ValidPosting(r.team, r.forTeam, r.bt, r.kind, r.amount)
    BY <1>1 DEF Valid
  <1>8. L!ValidPosting(r.team, r.forTeam, r.bt, r.kind, r.amount)
    BY <1>7, SameOperators
  <1>9. db' = L!postDoubleEntry(db, a, r.kind, r.amount, r.day, NoRef)
    BY <1>3, <1>6, SameOperators DEF y
  <1>10. L!CreateBalanceLog(r.team, r.forTeam, r.bt, r.kind, r.amount, r.day)
    BY <1>1, <1>8, <1>9 DEF L!CreateBalanceLog, a
  <1>11. r \in Posts
    BY <1>1 DEF Posts
  <1> QED
    BY <1>10, <1>11

LEMMA CreateCommits ==
  ASSUME TxnInv, NEW s \in Session, Commit(s), sess[s].req.op = "create"
  PROVE  LET r == sess[s].req
         IN  /\ r \in Creates /\ r.team \in Team /\ r.forTeam \in Team
             /\ sess[s].id \in PaymentId
             /\ L!CreatePayment(sess[s].id, r.team, r.forTeam, r.amount)
  <1> DEFINE q == sess[s]
             held == HeldBy(lock, s)
             r == q.req
             y == adjustPendingPair(db, r.team, r.forTeam, r.amount)
             E == Entries(q, held, db)
             P == Pends(q)
  <1>1. /\ r \in Request /\ Valid(r) /\ db \in Ledgers /\ q.id \in PaymentId
        /\ PaymentOK(q, held, payments)
        /\ payments' = [payments EXCEPT ![q.id] = q.pay]
        /\ \A z \in Ledgers :
             (\A b \in Account : \E x : /\ Posted(b, db[b], x, E, r.day, q.id)
                                        /\ Adjusted(b, x, z[b], P))
             => db' = z
    BY CommitTables
  <1>2. r.team \in Team /\ r.forTeam \in Team /\ r.amount \in Int /\ r.team # r.forTeam
    BY <1>1, RequestLemma, FirstLemma
  <1>3. E = {} /\ P = TwoPends(r.team, r.forTeam, r.amount)
    BY DEF Entries, Pends
  <1> HIDE DEF E, P
  <1>4. y \in Ledgers /\ \A b \in Account : Adjusted(b, db[b], y[b], P)
    <2>1. \A b \in Account : y \in Ledgers /\ Adjusted(b, db[b], y[b], P)
      BY <1>1, <1>2, <1>3, AdjustedPair
    <2>2. <<r.team, r.forTeam, "PAYABLE">> \in Account
      BY <1>2, PendingAccounts
    <2> QED
      BY <2>1, <2>2
  <1> HIDE DEF y
  <1>5. db' = y
    BY <1>1, <1>3, <1>4 DEF Posted
  <1>6. /\ payments[q.id] = NoPayment
        /\ q.pay = [status |-> "PENDING", team |-> r.team, forTeam |-> r.forTeam,
                    amount |-> r.amount, acceptedAt |-> {}]
    BY <1>1 DEF PaymentOK
  <1>7. db' = L!adjustPendingPair(db, r.team, r.forTeam, r.amount)
    BY <1>5, SameOperators DEF y
  <1>8. L!CreatePayment(q.id, r.team, r.forTeam, r.amount)
    BY <1>1, <1>2, <1>6, <1>7 DEF L!CreatePayment, NoPayment
  <1>9. r \in Creates
    BY <1>1 DEF Creates
  <1> QED
    BY <1>1, <1>2, <1>8, <1>9

(* What the decision of a payment finds and leaves.                        *)
LEMMA DecideCommits ==
  ASSUME TxnInv, NEW s \in Session, Commit(s), sess[s].req.op \in {"accept", "reject"}
  PROVE  LET q == sess[s]
             r == q.req
             p == payments[q.id]
         IN  /\ r.team \in Team /\ r.forTeam \in Team /\ r.day \in Day /\ q.id \in PaymentId
             /\ p \in L!InvoicePayment /\ p.team = r.team /\ p.forTeam = r.forTeam
             /\ p.team # p.forTeam
             /\ L!loadPendingPayment(q.id, r.team, r.forTeam)
             /\ q.pay = IF r.op = "accept" THEN AcceptedOn(p, r.day) ELSE Rejected(p)
             /\ payments' = [payments EXCEPT ![q.id] = q.pay]
             /\ q.pay.team = p.team /\ q.pay.forTeam = p.forTeam /\ q.pay.amount = p.amount
  <1> DEFINE q == sess[s]
             held == HeldBy(lock, s)
             r == q.req
             p == payments[q.id]
  <1>1. /\ r \in Request /\ Valid(r) /\ q.id \in PaymentId /\ Begun(q)
        /\ PaymentOK(q, held, payments) /\ Left(q) = {}
        /\ payments' = [payments EXCEPT ![q.id] = q.pay]
    BY CommitTables
  <1>2. r.team \in Team /\ r.forTeam \in Team /\ r.day \in Day
    BY <1>1, RequestLemma
  <1>3. ~(Closing(q) \subseteq Left(q))
    BY <1>1 DEF Closing
  <1>4. /\ p \in L!InvoicePayment /\ p.team = r.team /\ p.forTeam = r.forTeam
        /\ p.team # p.forTeam /\ p.status = "PENDING"
        /\ q.pay = IF r.op = "accept" THEN AcceptedOn(p, r.day) ELSE Rejected(p)
    BY <1>1, <1>3 DEF PaymentOK
  <1>5. q.pay.team = p.team /\ q.pay.forTeam = p.forTeam /\ q.pay.amount = p.amount
    BY <1>2, <1>4, DecidedPayment
  <1>6. L!loadPendingPayment(q.id, r.team, r.forTeam)
    <2>1. p # NoPayment
      BY <1>4 DEF NoPayment, L!NoPayment
    <2> QED
      BY <1>4, <2>1 DEF L!loadPendingPayment, NoPayment
  <1> QED
    BY <1>1, <1>2, <1>4, <1>5, <1>6

LEMMA AcceptCommits ==
  ASSUME TxnInv, NEW s \in Session, Commit(s), sess[s].req.op = "accept"
  PROVE  LET r == sess[s].req
         IN  L!AcceptPayment(sess[s].id, r.team, r.forTeam, r.day)
  <1> DEFINE q == sess[s]
             held == HeldBy(lock, s)
             r == q.req
             p == payments[q.id]
             x == L!settle(db, q.id, p, r.day)
             y == adjustPendingPair(x, r.team, r.forTeam, -p.amount)
             E == Entries(q, held, db)
             P == Pends(q)
  <1>1. /\ db \in Ledgers /\ q.id \in Ref /\ held \cap Account # {}
        /\ \A z \in Ledgers :
             (\A b \in Account : \E u : /\ Posted(b, db[b], u, E, r.day, q.id)
                                        /\ Adjusted(b, u, z[b], P))
             => db' = z
    BY CommitTables
  <1>2. /\ r.team \in Team /\ r.forTeam \in Team /\ r.day \in Day /\ q.id \in PaymentId
        /\ p \in L!InvoicePayment /\ p.team = r.team /\ p.forTeam = r.forTeam
        /\ p.team # p.forTeam
        /\ L!loadPendingPayment(q.id, r.team, r.forTeam)
        /\ q.pay = AcceptedOn(p, r.day)
        /\ payments' = [payments EXCEPT ![q.id] = q.pay]
        /\ q.pay.team = p.team /\ q.pay.forTeam = p.forTeam /\ q.pay.amount = p.amount
    BY DecideCommits
  <1>3. p.amount \in Int /\ -p.amount \in Int
    BY <1>2 DEF L!InvoicePayment
  <1>4. E = SplitLegs(db[PayAccount(p)].balance, p)
    <2>1. PayAccount(q.pay) = PayAccount(p) /\ RecAccount(q.pay) = RecAccount(p)
      BY <1>2 DEF PayAccount, RecAccount
    <2>2. \A balance : SplitLegs(balance, q.pay) = SplitLegs(balance, p)
      BY <1>2, <2>1 DEF SplitLegs
    <2> QED
      BY <1>1, <2>1, <2>2 DEF Entries
  <1>5. P = TwoPends(r.team, r.forTeam, -p.amount)
    BY <1>2 DEF Pends
  <1> HIDE DEF E, P, p, x
  <1>6. <<r.team, r.forTeam, "PAYABLE">> \in Account
    BY <1>2, PendingAccounts
  <1>7. x \in Ledgers /\ \A b \in Account : Posted(b, db[b], x[b], E, r.day, q.id)
    <2>1. \A b \in Account : x \in Ledgers /\ Posted(b, db[b], x[b], E, r.day, q.id)
      BY <1>1, <1>2, <1>4, SettledRows DEF x
    <2> QED
      BY <1>6, <2>1
  <1>8. y \in Ledgers /\ \A b \in Account : Adjusted(b, x[b], y[b], P)
    <2>1. \A b \in Account : y \in Ledgers /\ Adjusted(b, x[b], y[b], P)
      BY <1>2, <1>3, <1>5, <1>7, AdjustedPair
    <2> QED
      BY <1>6, <2>1
  <1> HIDE DEF y
  <1>9. db' = y
    BY <1>1, <1>7, <1>8
  <1>10. payments' = [payments EXCEPT ![q.id].status = "ACCEPTED",
                                      ![q.id].acceptedAt = {r.day}]
    <2>1. payments \in [PaymentId -> L!InvoicePayment \cup {NoPayment}]
      BY DEF TxnInv, Types
    <2> QED
      BY <1>2, <2>1 DEF AcceptedOn, p, L!InvoicePayment
  <1> QED
    BY <1>2, <1>9, <1>10, SameOperators DEF L!AcceptPayment, y, x, p

LEMMA RejectCommits ==
  ASSUME TxnInv, NEW s \in Session, Commit(s), sess[s].req.op = "reject"
  PROVE  LET r == sess[s].req
         IN  L!RejectPayment(sess[s].id, r.team, r.forTeam)
  <1> DEFINE q == sess[s]
             held == HeldBy(lock, s)
             r == q.req
             p == payments[q.id]
             y == adjustPendingPair(db, r.team, r.forTeam, -p.amount)
             E == Entries(q, held, db)
             P == Pends(q)
  <1>1. /\ db \in Ledgers
        /\ \A z \in Ledgers :
             (\A b \in Account : \E u : /\ Posted(b, db[b], u, E, r.day, q.id)
                                        /\ Adjusted(b, u, z[b], P))
             => db' = z
    BY CommitTables
  <1>2. /\ r.team \in Team /\ r.forTeam \in Team /\ q.id \in PaymentId
        /\ p \in L!InvoicePayment /\ p.team = r.team /\ p.forTeam = r.forTeam
        /\ L!loadPendingPayment(q.id, r.team, r.forTeam)
        /\ q.pay = Rejected(p)
        /\ payments' = [payments EXCEPT ![q.id] = q.pay]
        /\ q.pay.team = p.team /\ q.pay.forTeam = p.forTeam /\ q.pay.amount = p.amount
    BY DecideCommits
  <1>3. p.amount \in Int /\ -p.amount \in Int
    BY <1>2 DEF L!InvoicePayment
  <1>4. E = {} /\ P = TwoPends(r.team, r.forTeam, -p.amount)
    BY <1>2 DEF Entries, Pends
  <1> HIDE DEF E, P, p
  <1>5. <<r.team, r.forTeam, "PAYABLE">> \in Account
    BY <1>2, PendingAccounts
  <1>6. y \in Ledgers /\ \A b \in Account : Adjusted(b, db[b], y[b], P)
    <2>1. \A b \in Account : y \in Ledgers /\ Adjusted(b, db[b], y[b], P)
      BY <1>1, <1>2, <1>3, <1>4, AdjustedPair
    <2> QED
      BY <1>5, <2>1
  <1> HIDE DEF y
  <1>7. db' = y
    BY <1>1, <1>4, <1>6 DEF Posted
  <1>8. payments' = [payments EXCEPT ![q.id].status = "REJECTED"]
    BY <1>2 DEF Rejected, p
  <1> QED
    BY <1>2, <1>7, <1>8, SameOperators DEF L!RejectPayment, y, p

(* A commit is a step of the atomic ledger.                                *)
LEMMA CommitImplements ==
  ASSUME TxnInv, NEW s \in Session, Commit(s)
  PROVE  L!Next
  <1> DEFINE q == sess[s]
             r == q.req
  <1>1. r \in Request /\ L!LogRoom
    <2>1. Running(s)
      BY DEF Commit
    <2> QED
      BY <2>1, CommitTables, RoomLemma
  <1>2. r.op \in {"post", "create", "accept", "reject"}
    BY <1>1, RequestLemma
  <1>3. CASE r.op = "post"
    <2>1. /\ r \in Posts
          /\ L!CreateBalanceLog(r.team, r.forTeam, r.bt, r.kind, r.amount, r.day)
      BY <1>3, PostCommits
    <2>2. /\ r.team \in Team \cup {NoTeam} /\ r.forTeam \in Team \cup {NoTeam}
          /\ r.bt \in L!BalanceType \cup {"UNSPECIFIED"} /\ r.day \in Day
      BY <1>1, <1>3, RequestLemma, SameOperators
    <2>3. r.kind \in {p.kind : p \in Posts} /\ r.amount \in {p.amount : p \in Posts}
      BY <2>1
    <2> HIDE DEF r
    <2> QED
      BY <1>1, <2>1, <2>2, <2>3 DEF L!Next
  <1>4. CASE r.op = "create"
    <2>1. /\ r \in Creates /\ r.team \in Team /\ r.forTeam \in Team /\ q.id \in PaymentId
          /\ L!CreatePayment(q.id, r.team, r.forTeam, r.amount)
      BY <1>4, CreateCommits
    <2>2. r.amount \in {p.amount : p \in Creates}
      BY <2>1
    <2> HIDE DEF r, q
    <2> QED
      BY <2>1, <2>2 DEF L!Next
  <1>5. CASE r.op = "accept"
    <2>1. L!AcceptPayment(q.id, r.team, r.forTeam, r.day)
      BY <1>5, AcceptCommits
    <2>2. r.team \in Team /\ r.forTeam \in Team /\ r.day \in Day /\ q.id \in PaymentId
      BY <1>5, DecideCommits
    <2> HIDE DEF r, q
    <2> QED
      BY <1>1, <2>1, <2>2 DEF L!Next
  <1>6. CASE r.op = "reject"
    <2>1. L!RejectPayment(q.id, r.team, r.forTeam)
      BY <1>6, RejectCommits
    <2>2. r.team \in Team /\ r.forTeam \in Team /\ q.id \in PaymentId
      BY <1>6, DecideCommits
    <2> HIDE DEF r, q
    <2> QED
      BY <2>1, <2>2 DEF L!Next
  <1> QED
    BY <1>2, <1>3, <1>4, <1>5, <1>6

LEMMA TxnImplementsStep == TxnInv /\ [Next]_vars => [L!Next]_(L!vars)
  <1> SUFFICES ASSUME TxnInv, [Next]_vars PROVE [L!Next]_(L!vars)
    OBVIOUS
  <1>1. UNCHANGED <<db, payments>> => UNCHANGED L!vars
    BY DEF L!vars
  <1>2. CASE UNCHANGED vars
    BY <1>1, <1>2, ZenonT(30) DEF vars
  <1>3. ASSUME NEW s \in Session, Commit(s) PROVE L!Next
    BY <1>3, CommitImplements, ZenonT(30)
  <1>4. ASSUME NEW s \in Session, Execute(s), ~Commit(s) PROVE UNCHANGED <<db, payments>>
    BY <1>4 DEF Execute, SelectForUpdate, SelectMisses, InsertBalance, UniqueViolation,
           UpsertDaily, LoadPendingPayment, RefusePayment, SetStatus, InsertPayment,
           DeadlockVictim, Rollback
  <1>5. ASSUME NEW s \in Session, Crash(s) PROVE UNCHANGED <<db, payments>>
    BY <1>5 DEF Crash, Rollback
  <1>6. ASSUME NEW s \in Session, NEW r \in Request, Begin(s, r)
        PROVE  UNCHANGED <<db, payments>>
    BY <1>6 DEF Begin
  <1> QED
    BY <1>1, <1>2, <1>3, <1>4, <1>5, <1>6 DEF Next

(* Every transaction that commits is one atomic step of the ledger as its  *)
(* clients see it: whatever the interleaving of the statements of any      *)
(* number of sessions, with failures, crashes and deadlock victims, no     *)
(* balance is computed from a stale row and no payment is decided twice.   *)
(* Everything proved of Ledger therefore holds of the tables these         *)
(* transactions leave.                                                     *)
THEOREM TxnSerializable == Spec => Serializable
  <1>1. Init => L!Init
    BY SameOperators DEF Init, L!Init, NoPayment
  <1>2. TxnInv /\ [Next]_vars => [L!Next]_(L!vars)
    BY TxnImplementsStep
  <1> QED
    BY <1>1, <1>2, TxnInvariant, PTL DEF Spec, Serializable, L!Spec
-----------------------------------------------------------------------------
(* What is proved of Ledger, for the tables that the transactions leave    *)
(* (and no orders or readers, of which LedgerProofs has theorems too).     *)

NoRows == [x \in {} |-> x]

LP == INSTANCE LedgerProofs WITH
        PostKind <- {r.kind : r \in Posts}, PostAmount <- {r.amount : r \in Posts},
        PayAmount <- {r.amount : r \in Creates}, MaxLog <- MaxTxn + 1,
        Unit <- {}, teams <- NoRows, OrderRow <- NoRows, RestockRow <- NoRows,
        ProblemRow <- NoRows, SubmissionRow <- NoRows, EventDay <- NoRows, Threshold <- {},
        LimitSet <- {}, PayPair <- {}, MaxFlight <- 0, MaxSets <- 0, Request <- {},
        limits <- {}, sets <- 0, orders <- NoRows, reader <- NoRows

(* The books the clients of the interleaved system see: what a team owes   *)
(* is what its counterpart is owed, the log of every account replays to    *)
(* its balance, the daily rows span the log, and a payment is booked in    *)
(* full exactly once.                                                      *)
THEOREM TxnBooks ==
  Spec => [](L!MirrorBooks /\ L!LogReplays /\ L!DailySpansLog /\ L!PaymentsBookedOnce)
  <1>1. LP!RefAssumption
    BY RefAssumption DEF LP!RefAssumption
  <1>2. LP!LedgerAssumption
    <2>1. /\ \A r \in Posts : r.kind \in ChangeType /\ r.amount \in Int
          /\ \A r \in Creates : r.amount \in Int
      BY RequestLemma DEF Posts, Creates
    <2> QED
      BY <2>1, TxnAssumption DEF LP!LedgerAssumption, LP!ChangeType, ChangeType
  <1>3. LP!ViewsAssumption
    <2>1. \A S : IsFiniteSet(S) => LP!IsFiniteSet(S)
      BY DEF IsFiniteSet, LP!IsFiniteSet
    <2>2. LP!IsFiniteSet(Team) /\ LP!IsFiniteSet(PaymentId)
      BY <2>1, TxnAssumption
    <2> QED
      BY <2>2, TxnAssumption DEF LP!ViewsAssumption, NoRows
  <1>4. LP!RowAssumption
    BY DEF LP!RowAssumption, NoRows
  <1>5. LP!FlowAssumption
    <2>1. LP!IsFiniteSet({})
      BY FS_EmptySet DEF IsFiniteSet, LP!IsFiniteSet
    <2>2. DOMAIN NoRows = {}
      BY DEF NoRows
    <2> HIDE DEF NoRows
    <2> QED
      BY <2>1, <2>2 DEF LP!FlowAssumption
  <1>6. L!Init => LP!Init
    BY DEF L!Init, LP!Init, L!EmptyLedger, LP!EmptyLedger, L!Account, LP!Account,
           L!BalanceType, LP!BalanceType, L!NoAccount, LP!NoAccount, L!NoDaily, LP!NoDaily,
           L!NoPayment, LP!NoPayment
  <1>7. [L!Next]_(L!vars) => [LP!Next]_(LP!vars)
    <2>1. /\ L!Account = LP!Account /\ L!BalanceType = LP!BalanceType
          /\ L!NoPayment = LP!NoPayment /\ L!vars = LP!vars
      BY DEF L!Account, LP!Account, L!BalanceType, LP!BalanceType, L!NoPayment, LP!NoPayment,
             L!vars, LP!vars
    <2>2. ASSUME NEW d, NEW a, NEW kind, NEW amount, NEW day, NEW ref
          PROVE  L!postDoubleEntry(d, a, kind, amount, day, ref)
                   = LP!postDoubleEntry(d, a, kind, amount, day, ref)
      BY DEF L!postDoubleEntry, LP!postDoubleEntry, L!postEntry, LP!postEntry,
             L!postEntryRow, LP!postEntryRow, L!moveBalance, LP!moveBalance,
             L!logEntry, LP!logEntry, L!lockOrCreateBalance, LP!lockOrCreateBalance,
             L!upsertDailyLog, LP!upsertDailyLog, L!Mirror, LP!Mirror,
             L!oppositeBalance, LP!oppositeBalance
    <2>3. ASSUME NEW d, NEW team, NEW forTeam, NEW delta
          PROVE  L!adjustPendingPair(d, team, forTeam, delta)
                   = LP!adjustPendingPair(d, team, forTeam, delta)
      BY DEF L!adjustPendingPair, LP!adjustPendingPair, L!adjustPending, LP!adjustPending,
             L!adjustPendingRow, LP!adjustPendingRow, L!lockOrCreateBalance,
             LP!lockOrCreateBalance
    <2>4. ASSUME NEW d, NEW id, NEW p, NEW day
          PROVE  L!settle(d, id, p, day) = LP!settle(d, id, p, day)
      BY <2>2 DEF L!settle, LP!settle, L!settledPart, LP!settledPart
    <2>5. L!LogRoom <=> LP!LogRoom
      BY <2>1 DEF L!LogRoom, LP!LogRoom
    <2>6. ASSUME NEW team, NEW forTeam, NEW bt, NEW kind, NEW amount, NEW day,
                 L!CreateBalanceLog(team, forTeam, bt, kind, amount, day)
          PROVE  LP!CreateBalanceLog(team, forTeam, bt, kind, amount, day)
      BY <2>1, <2>2, <2>6 DEF L!CreateBalanceLog, LP!CreateBalanceLog, L!ValidPosting,
             LP!ValidPosting
    <2>7. ASSUME NEW team, NEW forTeam, NEW id
          PROVE  /\ \A amount : L!CreatePayment(id, team, forTeam, amount)
                                 => LP!CreatePayment(id, team, forTeam, amount)
                 /\ \A day : L!AcceptPayment(id, team, forTeam, day)
                              => LP!AcceptPayment(id, team, forTeam, day)
                 /\ L!RejectPayment(id, team, forTeam) => LP!RejectPayment(id, team, forTeam)
      <3>1. ASSUME NEW amount, L!CreatePayment(id, team, forTeam, amount)
            PROVE  LP!CreatePayment(id, team, forTeam, amount)
        BY <2>1, <2>3, <3>1 DEF L!CreatePayment, LP!CreatePayment
      <3>2. L!loadPendingPayment(id, team, forTeam) <=> LP!loadPendingPayment(id, team, forTeam)
        BY <2>1 DEF L!loadPendingPayment, LP!loadPendingPayment
      <3>3. ASSUME NEW day, L!AcceptPayment(id, team, forTeam, day)
            PROVE  LP!AcceptPayment(id, team, forTeam, day)
        BY <2>3, <2>4, <3>2, <3>3 DEF L!AcceptPayment, LP!AcceptPayment
      <3>4. ASSUME L!RejectPayment(id, team, forTeam)
            PROVE  LP!RejectPayment(id, team, forTeam)
        BY <2>3, <3>2, <3>4 DEF L!RejectPayment, LP!RejectPayment
      <3> QED
        BY <3>1, <3>3, <3>4
    <2>8. L!Next => LP!Next
      <3>1. ASSUME NEW team \in Team \cup {NoTeam}, NEW forTeam \in Team \cup {NoTeam},
                   NEW bt \in L!BalanceType \cup {"UNSPECIFIED"},
                   NEW kind \in {r.kind : r \in Posts}, NEW amount \in {r.amount : r \in Posts},
                   NEW day \in Day,
                   L!LogRoom, L!CreateBalanceLog(team, forTeam, bt, kind, amount, day)
            PROVE  LP!Next
        <4>1. LP!LogRoom /\ LP!CreateBalanceLog(team, forTeam, bt, kind, amount, day)
          BY <2>5, <2>6, <3>1
        <4>2. bt \in LP!BalanceType \cup {"UNSPECIFIED"}
          BY <2>1
        <4> QED
          BY <4>1, <4>2 DEF LP!Next
      <3>2. ASSUME NEW team \in Team, NEW forTeam \in Team, NEW id \in PaymentId,
                   \/ \E amount \in {r.amount : r \in Creates} :
                        L!CreatePayment(id, team, forTeam, amount)
                   \/ \E day \in Day : L!LogRoom /\ L!AcceptPayment(id, team, forTeam, day)
                   \/ L!RejectPayment(id, team, forTeam)
            PROVE  LP!Next
        BY <2>5, <2>7, <3>2 DEF LP!Next
      <3> QED
        BY <3>1, <3>2 DEF L!Next
    <2> QED
      BY <2>8 DEF L!vars, LP!vars
  <1>8. LP!MirrorBooks => L!MirrorBooks
    BY DEF L!MirrorBooks, LP!MirrorBooks, L!Mirrored, LP!Mirrored, L!Account, LP!Account,
           L!BalanceType, LP!BalanceType, L!Mirror, LP!Mirror,
           L!oppositeBalance, LP!oppositeBalance
  <1>9. LP!LogReplays => L!LogReplays
    BY ZenonT(30) DEF L!LogReplays, LP!LogReplays, L!Replays, LP!Replays, L!Account, LP!Account,
           L!BalanceType, LP!BalanceType
  <1>10. LP!DailySpansLog => L!DailySpansLog
    BY ZenonT(30) DEF L!DailySpansLog, LP!DailySpansLog, L!SpansDay, LP!SpansDay, L!Account, LP!Account,
           L!BalanceType, LP!BalanceType
  <1>11. LP!PaymentsBookedOnce => L!PaymentsBookedOnce
    BY DEF L!PaymentsBookedOnce, LP!PaymentsBookedOnce, L!BookedFor, LP!BookedFor,
           L!Booked, LP!Booked, L!SumFunctionOnSet, LP!SumFunctionOnSet,
           L!FoldFunctionOnSet, LP!FoldFunctionOnSet, L!MapThenFoldSet, LP!MapThenFoldSet,
           L!Account, LP!Account, L!BalanceType, LP!BalanceType
  <1>12. LP!Spec => [](LP!MirrorBooks /\ LP!LogReplays /\ LP!DailySpansLog
                        /\ LP!PaymentsBookedOnce)
    BY <1>1, <1>2, <1>3, <1>4, <1>5, LP!LedgerMirrored, LP!LedgerReplays, LP!LedgerDailySpans,
       LP!LedgerBooksPaymentsOnce, PTL
  <1>13. Serializable => LP!Spec
    BY <1>6, <1>7, PTL DEF Serializable, L!Spec, LP!Spec
  <1> QED
    BY <1>8, <1>9, <1>10, <1>11, <1>12, <1>13, TxnSerializable, PTL
=============================================================================
