------------------------- MODULE PushHandlerProofs -------------------------
(***************************************************************************)
(* The push endpoint, for every set of messages, of concurrent executions  *)
(* and of rows the events are about: it implements PushOnce (each message  *)
(* is applied at most once and completely), and the tables are at any time *)
(* the books of the messages applied so far.                               *)
(***************************************************************************)
EXTENDS PushHandler, LedgerOpsProofs
-----------------------------------------------------------------------------
(* The inductive invariant.                                                *)

Executions ==
  /\ handler \in [Handler -> [pc : {"idle", "claim", "post"}, msg : Message \cup {NoMessage}]]
  /\ \A h \in Handler : handler[h].pc # "idle" => handler[h].msg \in Message

InboxKeys == inbox \subseteq {Key(m) : m \in Message}

(* An execution that posts has the only claim on its message, and nobody   *)
(* has committed it before.                                                *)
ClaimsExclusive ==
  \A h \in Handler : handler[h].pc = "post" =>
    /\ Key(handler[h].msg) \notin inbox
    /\ \A o \in Handler \ {h} :
         handler[o].pc = "post" => Key(handler[o].msg) # Key(handler[h].msg)

Inv == Executions /\ InboxKeys /\ ClaimsExclusive
-----------------------------------------------------------------------------
LEMMA InitInv == Init => Inv
  BY DEF Init, Inv, Executions, InboxKeys, ClaimsExclusive, Idle

(* An execution that goes back to idle gives its claim up, and the keys    *)
(* that its commit adds to the inbox are nobody else's claim.              *)
LEMMA EndInv ==
  ASSUME Inv, NEW h \in Handler, handler' = [handler EXCEPT ![h] = Idle],
         \/ UNCHANGED inbox
         \/ handler[h].pc = "post" /\ inbox' = inbox \cup {Key(handler[h].msg)}
  PROVE  Inv'
  <1>1. Executions'
    BY DEF Inv, Executions, Idle
  <1>2. InboxKeys'
    <2>1. handler[h].pc = "post" => handler[h].msg \in Message
      BY DEF Inv, Executions
    <2> QED
      BY <2>1 DEF Inv, InboxKeys
  <1>3. \A o \in Handler : handler'[o] = IF o = h THEN Idle ELSE handler[o]
    BY DEF Inv, Executions
  <1>4. ClaimsExclusive'
    BY <1>3 DEF Inv, ClaimsExclusive, Idle
  <1> QED
    BY <1>1, <1>2, <1>4 DEF Inv

LEMMA ReceiveInv ==
  ASSUME Inv, NEW h \in Handler, NEW m \in Message, Receive(h, m)
  PROVE  Inv'
  <1>1. /\ handler' = [handler EXCEPT ![h] = [pc |-> "claim", msg |-> m]]
        /\ UNCHANGED inbox
    BY DEF Receive
  <1>2. Executions'
    BY <1>1 DEF Inv, Executions
  <1>3. InboxKeys'
    BY <1>1 DEF Inv, InboxKeys
  <1>4. \A o \in Handler : handler'[o] = IF o = h THEN [pc |-> "claim", msg |-> m] ELSE handler[o]
    BY <1>1 DEF Inv, Executions
  <1>5. ClaimsExclusive'
    BY <1>1, <1>4 DEF Inv, ClaimsExclusive
  <1> QED
    BY <1>2, <1>3, <1>5 DEF Inv

(* The insert into the inbox waits for an uncommitted row of the same key. *)
LEMMA ClaimInv ==
  ASSUME Inv, NEW h \in Handler, Claim(h)
  PROVE  Inv'
  <1>1. /\ handler[h].pc = "claim"
        /\ ~ClaimedByOther(h)
        /\ Key(handler[h].msg) \notin inbox
        /\ handler' = [handler EXCEPT ![h].pc = "post"]
        /\ UNCHANGED inbox
    BY DEF Claim
  <1>2. /\ \A o \in Handler \ {h} : handler'[o] = handler[o]
        /\ handler'[h].pc = "post" /\ handler'[h].msg = handler[h].msg
    BY <1>1 DEF Inv, Executions
  <1>3. Executions'
    BY <1>1 DEF Inv, Executions
  <1>4. InboxKeys'
    BY <1>1 DEF Inv, InboxKeys
  <1>5. ClaimsExclusive'
    BY <1>1, <1>2 DEF Inv, ClaimsExclusive, ClaimedByOther
  <1> QED
    BY <1>3, <1>4, <1>5 DEF Inv

LEMMA StepInv == Inv /\ [Next]_vars => Inv'
  <1> SUFFICES ASSUME Inv, [Next]_vars
               PROVE  Inv'
    OBVIOUS
  <1>1. ASSUME NEW h \in Handler, NEW m \in Message, Receive(h, m)
        PROVE  Inv'
    BY <1>1, ReceiveInv
  <1>2. ASSUME NEW h \in Handler, Work(h)
        PROVE  Inv'
    <2>1. CASE Claim(h)
      BY <2>1, ClaimInv
    <2>2. CASE AlreadyProcessed(h)
      BY <2>2, EndInv DEF AlreadyProcessed
    <2>3. CASE Reject(h)
      BY <2>3, EndInv DEF Reject
    <2>4. ASSUME NEW today \in Clock, PostAndCommit(h, today)
          PROVE  Inv'
      BY <2>4, EndInv DEF PostAndCommit
    <2> QED
      BY <1>2, <2>1, <2>2, <2>3, <2>4 DEF Work
  <1>3. ASSUME NEW h \in Handler, Crash(h)
        PROVE  Inv'
    BY <1>3, EndInv DEF Crash
  <1>4. CASE UNCHANGED vars
    BY <1>4 DEF vars, Inv, Executions, InboxKeys, ClaimsExclusive
  <1> QED
    BY <1>1, <1>2, <1>3, <1>4 DEF Next

(* No two executions ever hold a claim on one message, and none holds one  *)
(* on a message that is in the inbox.                                      *)
THEOREM PushInvariant == SafeSpec => []Inv
  <1>1. Init => Inv
    BY InitInv
  <1>2. Inv /\ [Next]_vars => Inv'
    BY StepInv
  <1> QED
    BY <1>1, <1>2, PTL DEF SafeSpec
-----------------------------------------------------------------------------
(* The refinement.                                                         *)

Applied == {m \in Message : Key(m) \in inbox}

(* PushOnce has its own instances of the operators on the ledger; they are *)
(* those of PushHandler.                                                   *)
LEMMA SameOperators ==
  /\ Once!EmptyLedger = EmptyLedger
  /\ \A m : Once!Postings(m) = Postings(m)
  /\ \A m, today : Once!PostingDay(m, today) = PostingDay(m, today)
  /\ \A d, postings, day : Once!PostAll(d, postings, day) = PostAll(d, postings, day)
  <1>1. Once!EmptyLedger = EmptyLedger
    BY DEF
      EmptyLedger, Once!EmptyLedger, Account, Once!Account, NoAccount,
      Once!NoAccount, NoDaily, Once!NoDaily, BalanceType, Once!BalanceType
  <1>2. ASSUME NEW m
        PROVE  Once!Postings(m) = Postings(m)
    BY DEF
      Postings, Once!Postings, postOrderBalances, Once!postOrderBalances,
      postCrossOrderBalance, Once!postCrossOrderBalance,
      postWarehouseFeeBalance, Once!postWarehouseFeeBalance,
      postCodFeeBalance, Once!postCodFeeBalance, postProblemStockBalance,
      Once!postProblemStockBalance, postPaymentAcceptBalance,
      Once!postPaymentAcceptBalance, CrossItems, Once!CrossItems, Owes,
      Once!Owes, Degenerate, Once!Degenerate, Posting, Once!Posting,
      FlattenSeq, Once!FlattenSeq
  <1>3. ASSUME NEW m, NEW today
        PROVE  Once!PostingDay(m, today) = PostingDay(m, today)
    BY DEF PostingDay, Once!PostingDay
  <1>4. ASSUME NEW d, NEW postings, NEW day
        PROVE  Once!PostAll(d, postings, day) = PostAll(d, postings, day)
    BY DEF
      PostAll, Once!PostAll, FoldLeft, Once!FoldLeft, MapThenFoldSet,
      Once!MapThenFoldSet, Max, Once!Max, postDoubleEntry,
      Once!postDoubleEntry, postEntry, Once!postEntry, Mirror,
      Once!Mirror, oppositeBalance, Once!oppositeBalance, postEntryRow,
      Once!postEntryRow, upsertDailyLog, Once!upsertDailyLog, moveBalance,
      Once!moveBalance, lockOrCreateBalance, Once!lockOrCreateBalance,
      logEntry, Once!logEntry
  <1> QED
    BY <1>1, <1>2, <1>3, <1>4

LEMMA InitApplied == Init => Once!Init
  BY SameOperators DEF Init, Once!Init

(* A commit applies its message, which was not applied before; it adds no  *)
(* other one since no two messages have the same key.                      *)
LEMMA CommitApplies ==
  ASSUME Inv, NEW h \in Handler, NEW today \in Clock, PostAndCommit(h, today)
  PROVE  Once!Next
  <1> DEFINE m == handler[h].msg
  <1>1. m \in Message /\ Key(m) \notin inbox
    BY DEF PostAndCommit, Inv, Executions, ClaimsExclusive
  <1>2. m.type # "Malformed"
    BY DEF PostAndCommit, Applicable
  <1>3. db' = PostAll(db, Postings(m), PostingDay(m, today))
    BY DEF PostAndCommit
  <1>4. Applied' = Applied \cup {m}
    <2>1. inbox' = inbox \cup {Key(m)}
      BY DEF PostAndCommit
    <2>2. \A n \in Message : Key(n) = Key(m) => n = m
      BY <1>1, PushAssumption
    <2> HIDE DEF m
    <2> QED
      BY <1>1, <2>1, <2>2 DEF Applied
  <1>5. today \in Day
    BY PushAssumption
  <1>6. Once!Apply(m, today)
    BY <1>1, <1>2, <1>3, <1>4, SameOperators DEF Once!Apply, Applied
  <1> QED
    BY <1>1, <1>5, <1>6 DEF Once!Next

LEMMA StepApplies == Inv /\ [Next]_vars => [Once!Next]_(Once!vars)
  <1> SUFFICES ASSUME Inv, [Next]_vars
               PROVE  [Once!Next]_(Once!vars)
    OBVIOUS
  <1>1. ASSUME UNCHANGED <<db, inbox>>
        PROVE  UNCHANGED Once!vars
    BY <1>1 DEF Once!vars
  <1>2. ASSUME NEW h \in Handler, NEW today \in Clock, PostAndCommit(h, today)
        PROVE  Once!Next
    BY <1>2, CommitApplies
  <1>3. \/ UNCHANGED <<db, inbox>>
        \/ \E h \in Handler, today \in Clock : PostAndCommit(h, today)
    BY DEF Next, Receive, Work, Claim, AlreadyProcessed, Reject, Crash, vars
  <1> QED
    BY <1>1, <1>2, <1>3

(* Redeliveries, concurrent duplicates, lost acknowledgements and crashes  *)
(* notwithstanding, the push endpoint applies each message at most once    *)
(* and completely.                                                         *)
THEOREM PushAppliedOnce == Spec => AppliedOnce
  <1>1. Init => Once!Init
    BY InitApplied
  <1>2. Inv /\ [Next]_vars => [Once!Next]_(Once!vars)
    BY StepApplies
  <1>3. SafeSpec => AppliedOnce
    BY <1>1, <1>2, PushInvariant, PTL DEF SafeSpec, AppliedOnce, Once!Spec
  <1> QED
    BY <1>3, PTL DEF Spec
-----------------------------------------------------------------------------
(* What a message moves.                                                   *)

(* The postings of a stock problem move the warehouse's PAYABLE by what    *)
(* the owner lost.                                                         *)
LEMMA ProblemLemma ==
  ASSUME NEW r \in DOMAIN ProblemRow,
         NEW x, NEW y, Pair(x, y), NEW refs
  PROVE  /\ Losses(r, y) \in Int
         /\ Move(postProblemStockBalance(r), x, y, refs,
                 NoRef \in refs /\ ProblemRow[r].warehouse = x, -Losses(r, y))
  <1> DEFINE row == ProblemRow[r]
             items == row.items
             n == Len(items)
             S == {i \in DOMAIN items : items[i].problem \in {"lost_w", "broken_w"}}
             teams == [i \in DOMAIN items |-> items[i].productTeam]
             amounts == [i \in DOMAIN items |-> items[i].total]
             totals == [i \in DOMAIN items |-> Charge(items[i].total)]
             lost == {i \in DOMAIN items : /\ items[i].problem \in {"lost_w", "broken_w"}
                                           /\ items[i].productTeam = y}
             ss == [i \in DOMAIN items |->
                      IF items[i].problem \in {"lost_w", "broken_w"}
                      THEN Owes(row.warehouse, items[i].productTeam, "STOCK_PROBLEM",
                                items[i].total, FALSE, NoRef)
                      ELSE <<>>]
             t == row.warehouse
             cs == FlattenSeq(ss)
  <1>1. /\ t \in TeamId /\ items \in Seq(ProblemItem) /\ NoRef \in Ref
        /\ "STOCK_PROBLEM" \in ChangeType
    BY RowAssumption, RefAssumption DEF ChangeType
  <1>2. n \in Nat /\ DOMAIN items = 1 .. n
    BY <1>1
  <1>3. \A i \in 1 .. n : items[i].productTeam \in TeamId /\ items[i].total \in Int
    <2>1. \A i \in 1 .. n : items[i] \in ProblemItem
      BY <1>1
    <2> HIDE DEF items
    <2> QED
      BY <2>1 DEF ProblemItem
  <1>4. ItemPostings(n, ss, S, teams, amounts, totals, t, "STOCK_PROBLEM", FALSE, NoRef)
    <2>1. \A i \in 1 .. n : /\ teams[i] = items[i].productTeam /\ amounts[i] = items[i].total
                            /\ totals[i] = Charge(items[i].total)
      BY <1>2
    <2>2. /\ S \subseteq 1 .. n
          /\ \A i \in S : ss[i] = Owes(t, items[i].productTeam, "STOCK_PROBLEM",
                                       items[i].total, FALSE, NoRef)
          /\ \A i \in (1 .. n) \ S : ss[i] = <<>>
          /\ ss = [i \in 1 .. n |-> ss[i]]
      BY <1>2
    <2> HIDE DEF ss, S, teams, amounts, totals, n, items, row, t
    <2> QED
      BY <1>2, <1>3, <2>1, <2>2 DEF ItemPostings
  <1>5. lost = {i \in S : teams[i] = y}
    BY <1>2
  <1>6. postProblemStockBalance(r) = cs /\ Losses(r, y) = SumFunctionOnSet(totals, lost)
    BY DEF postProblemStockBalance, Losses
  <1> HIDE DEF n, ss, S, teams, amounts, totals, t, lost
  <1> DEFINE sum == SumFunctionOnSet(totals, {i \in S : teams[i] = y})
             hit == NoRef \in refs /\ t = x
             no == FALSE
  <1>7. sum \in Int /\ Move(cs, x, y, refs, hit, Turned(sum, FALSE))
    <2>1. /\ no \in BOOLEAN
          /\ ItemPostings(n, ss, S, teams, amounts, totals, t, "STOCK_PROBLEM", no, NoRef)
      BY <1>4
    <2> HIDE DEF no
    <2>2. LET s == SumFunctionOnSet(totals, {i \in S : teams[i] = y})
          IN  s \in Int /\ Move(cs, x, y, refs, NoRef \in refs /\ t = x, Turned(s, no))
      BY <1>1, <2>1, ItemsLemma
    <2> QED
      BY <2>2 DEF no
  <1>8. Turned(sum, FALSE) = -sum
    BY DEF Turned
  <1> HIDE DEF cs, hit
  <1>9. sum = Losses(r, y)
    BY <1>5, <1>6
  <1> HIDE DEF sum
  <1> QED
    BY <1>6, <1>7, <1>8, <1>9 DEF hit, t
(* The reference the log rows of a message's postings carry.               *)
RefOf(m) ==
  IF m.sub = "selling" /\ m.type \in {"OrderCreated", "OrderCanceled"} THEN m.subject ELSE NoRef

LEMMA OppositeLemma == \A d \in Int : d <= 0 /\ d >= 0 => -d = d
  OBVIOUS

(* What a message's postings move is what the message is said to owe.      *)
LEMMA PostingsLemma ==
  ASSUME NEW m \in Message,
         NEW x, NEW y, Pair(x, y), NEW refs
  PROVE  /\ DebtOf(m, x, y) \in Int
         /\ Move(Postings(m), x, y, refs, RefOf(m) \in refs, -DebtOf(m, x, y))
  <1> DEFINE s == m.subject
             debt == DebtOf(m, x, y)
             ps == Postings(m)
             r == RefOf(m)
             w == Moves(<<x, y, "PAYABLE">>, refs)
             sum == SeqSum(w, ps)
             created == m.sub = "selling" /\ m.type = "OrderCreated"
             canceled == m.sub = "selling" /\ m.type = "OrderCanceled"
             paid == m.sub = "selling" /\ m.type = "PaymentAccept"
             restocked == m.sub = "stock" /\ m.type = "RestockAccepted"
             problem == m.sub = "stock" /\ m.type = "StockProblem"
             yes == TRUE
             no == FALSE
  <1>1. yes \in BOOLEAN /\ no \in BOOLEAN /\ NoRef \in Ref
    BY RefAssumption
  <1>2. \A n \in Int : Turned(n, yes) = n
    BY DEF Turned
  <1>3. \A n \in Int : Turned(n, no) = -n
    BY DEF Turned
  <1>4. "PAYMENT" \in ChangeType /\ "COD_FEE" \in ChangeType
    BY DEF ChangeType
  <1> SUFFICES debt \in Int /\ ps \in Seq(Entry) /\ sum = IF r \in refs THEN -debt ELSE 0
    BY DEF Move
  <1>5. CASE created
    <2>1. s \in DOMAIN OrderRow
      BY <1>5, PushAssumption DEF Subjects, MessageType
    <2>2. ps = postOrderBalances(s, no) /\ r = s
      BY <1>5 DEF Postings, RefOf
    <2>3. debt = IF OrderRow[s].team = x THEN OrderDebt(s, y) ELSE 0
      BY <1>5 DEF DebtOf
    <2> HIDE DEF no, s, debt, ps, r
    <2> DEFINE hit == s \in refs /\ OrderRow[s].team = x
               k == OrderDebt(s, y)
    <2>4. k \in Int /\ Move(postOrderBalances(s, no), x, y, refs, hit, Turned(k, no))
      BY <1>1, <2>1, OrderLemma
    <2>5. ps \in Seq(Entry) /\ sum = IF hit THEN Turned(k, no) ELSE 0
      <3> HIDE DEF k, hit
      <3> QED
        BY <2>2, <2>4 DEF Move
    <2> HIDE DEF k, w, sum
    <2>6. sum = IF hit THEN -k ELSE 0
      BY <1>3, <2>4, <2>5
    <2>7. debt \in Int /\ sum = IF r \in refs THEN -debt ELSE 0
      BY <2>2, <2>3, <2>4, <2>6 DEF k
    <2> QED
      BY <2>5, <2>7
  <1>6. CASE canceled
    <2>1. s \in DOMAIN OrderRow
      BY <1>6, PushAssumption DEF Subjects, MessageType
    <2>2. ps = postOrderBalances(s, yes) /\ r = s
      BY <1>6 DEF Postings, RefOf
    <2>3. debt = IF OrderRow[s].team = x THEN -OrderDebt(s, y) ELSE 0
      BY <1>6 DEF DebtOf
    <2> HIDE DEF yes, s, debt, ps, r
    <2> DEFINE hit == s \in refs /\ OrderRow[s].team = x
               k == OrderDebt(s, y)
    <2>4. k \in Int /\ Move(postOrderBalances(s, yes), x, y, refs, hit, Turned(k, yes))
      BY <1>1, <2>1, OrderLemma
    <2>5. ps \in Seq(Entry) /\ sum = IF hit THEN Turned(k, yes) ELSE 0
      <3> HIDE DEF k, hit
      <3> QED
        BY <2>2, <2>4 DEF Move
    <2> HIDE DEF k, w, sum
    <2>6. sum = IF hit THEN k ELSE 0
      BY <1>2, <2>4, <2>5
    <2>7. debt \in Int /\ sum = IF r \in refs THEN -debt ELSE 0
      BY <2>2, <2>3, <2>4, <2>6 DEF k
    <2> QED
      BY <2>5, <2>7
  <1>7. CASE paid
    <2> DEFINE row == SubmissionRow[s]
               f == row.fromTeam
               t == row.toTeam
               k == row.amount
    <2>1. f \in TeamId /\ t \in TeamId /\ k \in Int
      BY <1>7, PushAssumption, RowAssumption DEF Subjects, MessageType
    <2>2. ps = Owes(f, t, "PAYMENT", k, yes, NoRef) /\ r = NoRef
      BY <1>7 DEF Postings, RefOf, postPaymentAcceptBalance
    <2>3. debt = IF f = x /\ t = y THEN -Charge(k) ELSE 0
      BY <1>7 DEF DebtOf
    <2> HIDE DEF yes, f, t, k, debt, ps, r
    <2>4. OwesMoves(f, t, "PAYMENT", k, yes, NoRef, x, y, refs)
      BY <1>1, <1>4, <2>1, OwesLemma, Zenon
    <2>5. Charge(k) \in Int
      BY <2>1, ChargeLemma
    <2>6. /\ ps \in Seq(Entry)
          /\ sum = IF NoRef \in refs /\ f = x /\ t = y THEN Turned(Charge(k), yes) ELSE 0
      BY <2>2, <2>4 DEF Move, OwesMoves
    <2> HIDE DEF w, sum
    <2> DEFINE c == Charge(k)
    <2>7. sum = IF NoRef \in refs /\ f = x /\ t = y THEN c ELSE 0
      BY <1>2, <2>5, <2>6
    <2>8. debt = IF f = x /\ t = y THEN -c ELSE 0
      BY <2>3
    <2> HIDE DEF c
    <2>9. debt \in Int /\ sum = IF r \in refs THEN -debt ELSE 0
      BY <2>2, <2>5, <2>7, <2>8 DEF c
    <2> QED
      BY <2>6, <2>9
  <1>8. CASE restocked
    <2> DEFINE row == RestockRow[s]
               f == row.team
               t == row.warehouse
               k == row.codFee
    <2>1. f \in TeamId /\ t \in TeamId /\ k \in Int
      BY <1>8, PushAssumption, RowAssumption DEF Subjects, MessageType
    <2>2. ps = Owes(f, t, "COD_FEE", k, no, NoRef) /\ r = NoRef
      BY <1>8 DEF Postings, RefOf, postCodFeeBalance
    <2>3. debt = IF f = x /\ t = y THEN Charge(k) ELSE 0
      BY <1>8 DEF DebtOf
    <2> HIDE DEF no, f, t, k, debt, ps, r
    <2>4. OwesMoves(f, t, "COD_FEE", k, no, NoRef, x, y, refs)
      BY <1>1, <1>4, <2>1, OwesLemma, Zenon
    <2>5. Charge(k) \in Int
      BY <2>1, ChargeLemma
    <2>6. /\ ps \in Seq(Entry)
          /\ sum = IF NoRef \in refs /\ f = x /\ t = y THEN Turned(Charge(k), no) ELSE 0
      BY <2>2, <2>4 DEF Move, OwesMoves
    <2> HIDE DEF w, sum
    <2> DEFINE c == Charge(k)
    <2>7. sum = IF NoRef \in refs /\ f = x /\ t = y THEN -c ELSE 0
      BY <1>3, <2>5, <2>6
    <2>8. debt = IF f = x /\ t = y THEN c ELSE 0
      BY <2>3
    <2> HIDE DEF c
    <2>9. debt \in Int /\ sum = IF r \in refs THEN -debt ELSE 0
      BY <2>2, <2>5, <2>7, <2>8 DEF c
    <2> QED
      BY <2>6, <2>9
  <1>9. CASE problem
    <2>1. s \in DOMAIN ProblemRow
      BY <1>9, PushAssumption DEF Subjects, MessageType
    <2>2. ps = postProblemStockBalance(s) /\ r = NoRef
      BY <1>9 DEF Postings, RefOf
    <2>3. debt = IF ProblemRow[s].warehouse = x THEN Losses(s, y) ELSE 0
      BY <1>9 DEF DebtOf
    <2> HIDE DEF s, debt, ps, r
    <2>4. /\ Losses(s, y) \in Int
          /\ Move(postProblemStockBalance(s), x, y, refs,
                  NoRef \in refs /\ ProblemRow[s].warehouse = x, -Losses(s, y))
      BY <2>1, ProblemLemma
    <2> DEFINE hit == NoRef \in refs /\ ProblemRow[s].warehouse = x
               k == Losses(s, y)
    <2>5. ps \in Seq(Entry) /\ sum = IF hit THEN -k ELSE 0
      BY <2>2, <2>4 DEF Move
    <2> HIDE DEF k, w, sum
    <2>6. debt \in Int /\ sum = IF r \in refs THEN -debt ELSE 0
      BY <2>2, <2>3, <2>4, <2>5 DEF k
    <2> QED
      BY <2>5, <2>6
  <1>10. CASE ~(created \/ canceled \/ paid \/ restocked \/ problem)
    <2>1. ps = <<>>
      BY <1>10 DEF Postings
    <2>2. debt = 0
      BY <1>10 DEF DebtOf
    <2>3. <<>> \in Seq(Entry) /\ SeqSum(w, <<>>) = 0
      BY MovesType, SeqSumShort
    <2> HIDE DEF debt, ps, r, w
    <2>4. ps \in Seq(Entry) /\ sum = 0
      BY <2>1, <2>3
    <2> HIDE DEF sum
    <2>5. debt \in Int /\ debt <= 0 /\ debt >= 0
      BY <2>2
    <2>6. -debt = debt
      BY <2>5, OppositeLemma
    <2> QED
      BY <2>2, <2>4, <2>5, <2>6
  <1> HIDE DEF created, canceled, paid, restocked, problem, debt, ps, r, sum
  <1> QED
    BY <1>5, <1>6, <1>7, <1>8, <1>9, <1>10
LEMMA PostingsType == \A m \in Message : Postings(m) \in Seq(Entry)
  <1> TAKE m \in Message
  <1>1. PICK x, y : Pair(x, y)
    <2>1. Pair("a", "b") \/ Pair("b", "c") \/ Pair("a", "c")
      BY DEF Pair
    <2> QED
      BY <2>1
  <1>2. Move(Postings(m), x, y, Ref, RefOf(m) \in Ref, -DebtOf(m, x, y))
    BY <1>1, PostingsLemma
  <1> QED
    BY <1>2 DEF Move
-----------------------------------------------------------------------------
(* The books after the messages of S have been applied, in some order.     *)

Count(S, o, type) ==
  Cardinality({m \in S : m.sub = "selling" /\ m.type = type /\ m.subject = o})

OrdersBooked(d, S) ==
  \A o \in DOMAIN OrderRow : \A x, y \in Team \ {NoTeam} :
    x = OrderRow[o].team /\ x # y =>
      Booked(d[<<x, y, "PAYABLE">>].log, o)
        = (Count(S, o, "OrderCanceled") - Count(S, o, "OrderCreated")) * OrderDebt(o, y)

DebtsBooked(d, S) ==
  \A x, y \in Team \ {NoTeam} : x # y =>
    d[<<x, y, "PAYABLE">>].balance = -SumFunctionOnSet(DebtTable[<<x, y>>], S)

BooksOf(d, S) ==
  /\ d \in MirroredLedgers /\ S \subseteq Message /\ IsFiniteSet(S)
  /\ OrdersBooked(d, S) /\ DebtsBooked(d, S)

LEMMA EmptyBooks == BooksOf(EmptyLedger, {})
  <1>1. EmptyLedger \in MirroredLedgers
    <2>1. \A b \in Account : EmptyLedger[b].balance = 0 /\ Mirror(b) \in Account
      BY MirrorLemma DEF EmptyLedger, NoAccount
    <2>2. \A b \in Account : EmptyLedger[Mirror(b)].balance = -EmptyLedger[b].balance
      <3> TAKE b \in Account
      <3> DEFINE n == EmptyLedger[b].balance
      <3>1. n \in Int /\ n <= 0 /\ n >= 0 /\ EmptyLedger[Mirror(b)].balance = n
        BY <2>1
      <3> HIDE DEF n
      <3>2. -n = n
        BY <3>1, OppositeLemma
      <3> QED
        BY <3>1, <3>2 DEF n
    <2> QED
      BY <2>2, EmptyLedgerLemma DEF MirroredLedgers
  <1>2. DebtsBooked(EmptyLedger, {})
    <2> SUFFICES ASSUME NEW x \in Team \ {NoTeam}, NEW y \in Team \ {NoTeam}
                 PROVE  EmptyLedger[<<x, y, "PAYABLE">>].balance
                          = -SumFunctionOnSet(DebtTable[<<x, y>>], {})
      BY DEF DebtsBooked
    <2> DEFINE n == SumFunctionOnSet(DebtTable[<<x, y>>], {})
    <2>1. n \in Int /\ n <= 0 /\ n >= 0
      BY SumEmpty
    <2>2. EmptyLedger[<<x, y, "PAYABLE">>].balance = n
      <3>1. EmptyLedger[<<x, y, "PAYABLE">>].balance = 0
        BY DEF EmptyLedger, NoAccount, Account, BalanceType
      <3> QED
        BY <3>1, SumEmpty
    <2> HIDE DEF n
    <2>3. -n = n
      BY <2>1, OppositeLemma
    <2> QED
      BY <2>2, <2>3 DEF n
  <1>3. OrdersBooked(EmptyLedger, {})
    <2> SUFFICES ASSUME NEW o \in DOMAIN OrderRow,
                        NEW x \in Team \ {NoTeam}, NEW y \in Team \ {NoTeam}, x # y
                 PROVE  Booked(EmptyLedger[<<x, y, "PAYABLE">>].log, o)
                          = (Count({}, o, "OrderCanceled") - Count({}, o, "OrderCreated"))
                              * OrderDebt(o, y)
      BY DEF OrdersBooked
    <2> DEFINE D == OrderDebt(o, y)
    <2>1. Count({}, o, "OrderCanceled") = 0 /\ Count({}, o, "OrderCreated") = 0
      <3>1. \A type : {m \in {} : m.sub = "selling" /\ m.type = type /\ m.subject = o} = {}
        OBVIOUS
      <3> QED
        BY <3>1, FS_EmptySet DEF Count
    <2>2. D \in Int
      BY OrderLemma DEF Pair
    <2>3. EmptyLedger[<<x, y, "PAYABLE">>].log = <<>>
      BY DEF EmptyLedger, NoAccount, Account, BalanceType
    <2>4. Booked(<<>>, o) = 0
      <3>1. {i \in DOMAIN <<>> : <<>>[i].ref = o} = {}
        OBVIOUS
      <3> QED
        BY <3>1, SumEmpty DEF Booked
    <2> HIDE DEF D
    <2>5. (0 - 0) * D = 0
      BY <2>2
    <2> QED
      BY <2>1, <2>3, <2>4, <2>5 DEF D
  <1> QED
    BY <1>1, <1>2, <1>3, FS_EmptySet DEF BooksOf

LEMMA CountAdd ==
  ASSUME NEW S, IsFiniteSet(S), NEW m, m \notin S, NEW o, NEW type
  PROVE  /\ Count(S, o, type) \in Int
         /\ Count(S \cup {m}, o, type)
              = Count(S, o, type)
                  + (IF m.sub = "selling" /\ m.type = type /\ m.subject = o THEN 1 ELSE 0)
  <1> DEFINE of(T) == {n \in T : n.sub = "selling" /\ n.type = type /\ n.subject = o}
             A == of(S)
             B == of(S \cup {m})
  <1>1. IsFiniteSet(A) /\ Cardinality(A) \in Nat /\ m \notin A
    <2>1. A \subseteq S
      OBVIOUS
    <2> HIDE DEF A
    <2> QED
      BY <2>1, FS_Subset, FS_CardinalityType
  <1>2. Count(S, o, type) = Cardinality(A) /\ Count(S \cup {m}, o, type) = Cardinality(B)
    BY DEF Count
  <1>3. CASE m.sub = "selling" /\ m.type = type /\ m.subject = o
    <2>1. B = A \cup {m}
      BY <1>3
    <2> HIDE DEF A, B
    <2>2. Cardinality(A \cup {m}) = Cardinality(A) + 1
      BY <1>1, FS_AddElement
    <2> QED
      BY <1>1, <1>2, <1>3, <2>1, <2>2
  <1>4. CASE ~(m.sub = "selling" /\ m.type = type /\ m.subject = o)
    <2>1. B = A
      BY <1>4
    <2> HIDE DEF A, B
    <2> QED
      BY <1>1, <1>2, <1>4, <2>1
  <1> QED
    BY <1>3, <1>4

LEMMA TimesLemma ==
  ASSUME NEW a \in Int, NEW b \in Int, NEW D \in Int
  PROVE  /\ ((a + 1) - b) * D = (a - b) * D + D
         /\ (a - (b + 1)) * D = (a - b) * D + (-D)
         /\ (a - b) * D \in Int
  OBVIOUS

(* One more message.                                                       *)
LEMMA PostBooks ==
  ASSUME NEW d, NEW S, BooksOf(d, S), NEW m \in Message, m \notin S, NEW day \in Day
  PROVE  BooksOf(PostAll(d, Postings(m), day), S \cup {m})
  <1> DEFINE ps == Postings(m)
             e == PostAll(d, ps, day)
             after == S \cup {m}
  <1>1. d \in MirroredLedgers /\ S \subseteq Message /\ IsFiniteSet(S) /\ ps \in Seq(Entry)
    BY PostingsType DEF BooksOf
  <1>2. /\ e \in MirroredLedgers
        /\ \A b \in Account : e[b].balance = d[b].balance + SeqSum(Moves(b, Ref), ps)
        /\ \A b \in Account, o \in Ref :
             Booked(e[b].log, o) = Booked(d[b].log, o) + SeqSum(Moves(b, {o}), ps)
    <2> HIDE DEF ps
    <2> QED
      BY <1>1, PostAllLemma
  <1>3. after \subseteq Message /\ IsFiniteSet(after)
    BY <1>1, FS_AddElement
  <1>4. \A x, y, refs : Pair(x, y) =>
          /\ DebtOf(m, x, y) \in Int
          /\ SeqSum(Moves(<<x, y, "PAYABLE">>, refs), ps)
               = IF RefOf(m) \in refs THEN -DebtOf(m, x, y) ELSE 0
    <2> SUFFICES ASSUME NEW x, NEW y, NEW refs, Pair(x, y)
                 PROVE  /\ DebtOf(m, x, y) \in Int
                        /\ SeqSum(Moves(<<x, y, "PAYABLE">>, refs), ps)
                             = IF RefOf(m) \in refs THEN -DebtOf(m, x, y) ELSE 0
      OBVIOUS
    <2>1. /\ DebtOf(m, x, y) \in Int
          /\ Move(Postings(m), x, y, refs, RefOf(m) \in refs, -DebtOf(m, x, y))
      BY PostingsLemma
    <2> QED
      BY <2>1 DEF Move
  <1> HIDE DEF ps, e
  <1>5. RefOf(m) \in Ref
    BY PushAssumption, RowAssumption, RefAssumption DEF RefOf, MessageType, Subjects
  <1>6. \A x, y \in Team \ {NoTeam} : <<x, y, "PAYABLE">> \in Account
    BY DEF Account, BalanceType
  <1>7. \A b \in Account : d[b] \in AccountRow
    BY <1>1 DEF MirroredLedgers, Ledgers
  <1>8. DebtsBooked(e, after)
    <2> SUFFICES ASSUME NEW x \in Team \ {NoTeam}, NEW y \in Team \ {NoTeam}, x # y
                 PROVE  e[<<x, y, "PAYABLE">>].balance
                          = -SumFunctionOnSet(DebtTable[<<x, y>>], after)
      BY DEF DebtsBooked
    <2> DEFINE table == DebtTable[<<x, y>>]
               b == <<x, y, "PAYABLE">>
               sum == SumFunctionOnSet(table, S)
               debt == DebtOf(m, x, y)
    <2>1. Pair(x, y) /\ b \in Account
      BY <1>6 DEF Pair
    <2>2. \A n \in Message : table[n] = DebtOf(n, x, y) /\ table[n] \in Int
      <3> TAKE n \in Message
      <3>1. table[n] = DebtOf(n, x, y)
        BY DEF DebtTable
      <3>2. DebtOf(n, x, y) \in Int
        BY <2>1, PostingsLemma
      <3> QED
        BY <3>1, <3>2
    <2>3. d[b].balance = -sum
      BY DEF BooksOf, DebtsBooked
    <2>4. e[b].balance = d[b].balance + (-debt) /\ debt \in Int
      BY <1>2, <1>4, <1>5, <2>1
    <2> HIDE DEF table, b, debt
    <2>5. SumFunctionOnSet(table, after) = debt + sum /\ sum \in Int
      <3>1. table[m] = debt
        BY <2>2 DEF debt
      <3>2. \A n \in after : table[n] \in Int
        BY <1>3, <2>2
      <3> QED
        BY <1>1, <3>1, <3>2, SumAdd, SumType
    <2> HIDE DEF sum, after
    <2> QED
      BY <2>3, <2>4, <2>5 DEF table, b
  <1>9. OrdersBooked(e, after)
    <2> SUFFICES ASSUME NEW o \in DOMAIN OrderRow,
                        NEW x \in Team \ {NoTeam}, NEW y \in Team \ {NoTeam},
                        x = OrderRow[o].team, x # y
                 PROVE  Booked(e[<<x, y, "PAYABLE">>].log, o)
                          = (Count(after, o, "OrderCanceled") - Count(after, o, "OrderCreated"))
                              * OrderDebt(o, y)
      BY DEF OrdersBooked
    <2> DEFINE b == <<x, y, "PAYABLE">>
               D == OrderDebt(o, y)
               debt == DebtOf(m, x, y)
               cn == Count(S, o, "OrderCanceled")
               cr == Count(S, o, "OrderCreated")
               was == Booked(d[b].log, o)
               now == Booked(e[b].log, o)
               created == m.sub = "selling" /\ m.type = "OrderCreated" /\ m.subject = o
               canceled == m.sub = "selling" /\ m.type = "OrderCanceled" /\ m.subject = o
    <2>1. Pair(x, y) /\ b \in Account /\ o \in Ref \ {NoRef}
      BY <1>6, RowAssumption DEF Pair
    <2>2. D \in Int
      BY <2>1, OrderLemma
    <2>3. was = (cn - cr) * D
      BY DEF BooksOf, OrdersBooked
    <2>4. now = was + (IF RefOf(m) \in {o} THEN -debt ELSE 0) /\ debt \in Int
      <3> DEFINE sum == SeqSum(Moves(b, {o}), ps)
      <3>1. debt \in Int /\ sum = IF RefOf(m) \in {o} THEN -debt ELSE 0
        BY <1>4, <2>1
      <3>2. now = was + sum
        BY <1>2, <2>1
      <3> HIDE DEF now, was, sum, debt
      <3> QED
        BY <3>1, <3>2
    <2>5. /\ cn \in Int /\ cr \in Int
          /\ Count(after, o, "OrderCanceled") = cn + (IF canceled THEN 1 ELSE 0)
          /\ Count(after, o, "OrderCreated") = cr + (IF created THEN 1 ELSE 0)
      BY <1>1, CountAdd
    <2>6. CASE created
      <3>1. RefOf(m) = o /\ debt = D /\ ~canceled
        BY <2>6 DEF RefOf, DebtOf
      <3> HIDE DEF D, debt, cn, cr, was, now, after, created, canceled
      <3>2. now = (cn - cr) * D + (-D)
        BY <2>3, <2>4, <3>1
      <3> QED
        BY <2>2, <2>5, <2>6, <3>1, <3>2, TimesLemma DEF D, now, b
    <2>7. CASE canceled
      <3>1. RefOf(m) = o /\ debt = -D /\ ~created
        BY <2>7 DEF RefOf, DebtOf
      <3> HIDE DEF D, debt, cn, cr, was, now, after, created, canceled
      <3>2. now = (cn - cr) * D + D
        BY <2>2, <2>3, <2>4, <2>5, <3>1, TimesLemma
      <3> QED
        BY <2>2, <2>5, <2>7, <3>1, <3>2, TimesLemma DEF D, now, b
    <2>8. CASE ~created /\ ~canceled
      <3>1. RefOf(m) # o
        BY <2>1, <2>8 DEF RefOf
      <3> HIDE DEF D, debt, cn, cr, was, now, after, created, canceled
      <3>2. now = (cn - cr) * D
        BY <2>2, <2>3, <2>4, <2>5, <3>1, TimesLemma
      <3> QED
        BY <2>2, <2>5, <2>8, <3>2 DEF D, now, b
    <2> QED
      BY <2>6, <2>7, <2>8
  <1> QED
    BY <1>2, <1>3, <1>8, <1>9 DEF BooksOf, e, ps
-----------------------------------------------------------------------------
(* Whatever order the messages are applied in, the books are right.        *)

Responses == acked \subseteq Message /\ crashes \in 0 .. MaxCrash

Books == BooksOf(db, Applied)

LEMMA InitBooks == Init => Responses /\ Books
  <1> SUFFICES ASSUME Init PROVE Responses /\ Books
    OBVIOUS
  <1>1. Responses
    BY PushAssumption DEF Init, Responses
  <1>2. db = EmptyLedger /\ Applied = {}
    BY DEF Init, Applied
  <1> QED
    BY <1>1, <1>2, EmptyBooks DEF Books

(* Only a commit touches the tables, and it adds its message to those      *)
(* applied before.                                                         *)
LEMMA CommitBooks ==
  ASSUME Inv, Books, NEW h \in Handler, NEW today \in Clock, PostAndCommit(h, today)
  PROVE  Books'
  <1> DEFINE m == handler[h].msg
             day == PostingDay(m, today)
  <1>1. /\ handler[h].pc = "post"
        /\ db' = PostAll(db, Postings(m), day)
        /\ inbox' = inbox \cup {Key(m)}
    BY DEF PostAndCommit
  <1>2. m \in Message /\ Key(m) \notin inbox
    BY <1>1 DEF Inv, Executions, ClaimsExclusive
  <1>3. day \in Day
    BY <1>2, PushAssumption DEF PostingDay, MessageType
  <1>4. m \notin Applied /\ Applied' = Applied \cup {m}
    BY <1>1, <1>2, PushAssumption DEF Applied
  <1> HIDE DEF m, day
  <1>5. BooksOf(PostAll(db, Postings(m), day), Applied \cup {m})
    BY <1>2, <1>3, <1>4, PostBooks DEF Books
  <1>6. BooksOf(db', Applied')
    BY <1>1, <1>4, <1>5
  <1> QED
    BY <1>6 DEF Books

LEMMA StepBooks == Inv /\ Responses /\ Books /\ [Next]_vars => Responses' /\ Books'
  <1> SUFFICES ASSUME Inv, Responses, Books, [Next]_vars
               PROVE  Responses' /\ Books'
    OBVIOUS
  <1>1. ASSUME UNCHANGED <<db, inbox>>
        PROVE  Books'
    <2>1. db' = db /\ Applied' = Applied
      BY <1>1 DEF Applied
    <2> QED
      BY <2>1 DEF Books
  <1>2. \A h \in Handler : handler[h].pc # "idle" => handler[h].msg \in Message
    BY DEF Inv, Executions
  <1>3. ASSUME NEW h \in Handler, NEW m \in Message, Receive(h, m)
        PROVE  Responses' /\ Books'
    BY <1>1, <1>3 DEF Receive, Responses
  <1>4. ASSUME NEW h \in Handler, Work(h)
        PROVE  Responses' /\ Books'
    <2>1. CASE Claim(h)
      BY <1>1, <2>1 DEF Claim, Responses
    <2>2. CASE AlreadyProcessed(h)
      BY <1>1, <1>2, <2>2 DEF AlreadyProcessed, Acknowledge, Responses
    <2>3. CASE Reject(h)
      BY <1>1, <2>3 DEF Reject, Responses
    <2>4. ASSUME NEW today \in Clock, PostAndCommit(h, today)
          PROVE  Responses' /\ Books'
      <3>1. Responses'
        BY <1>2, <2>4 DEF PostAndCommit, Acknowledge, Responses
      <3> QED
        BY <2>4, <3>1, CommitBooks
    <2> QED
      BY <1>4, <2>1, <2>2, <2>3, <2>4 DEF Work
  <1>5. ASSUME NEW h \in Handler, Crash(h)
        PROVE  Responses' /\ Books'
    <2>1. Responses'
      BY <1>5, PushAssumption DEF Crash, Responses
    <2> QED
      BY <1>1, <1>5, <2>1 DEF Crash
  <1>6. CASE UNCHANGED vars
    BY <1>1, <1>6 DEF vars, Responses
  <1> QED
    BY <1>3, <1>4, <1>5, <1>6 DEF Next

(* Whatever is delivered, repeated, reordered or rolled back, the tables   *)
(* hold the books of the messages whose inbox row is committed: mirrored,  *)
(* every balance the sum of the debts, every order booked as often as it   *)
(* was created less as often as it was cancelled.                          *)
THEOREM PushBooks == SafeSpec => [](Inv /\ Responses /\ Books)
  <1>1. Init => Inv /\ Responses /\ Books
    BY InitInv, InitBooks
  <1>2. Inv /\ Responses /\ Books /\ [Next]_vars => (Inv /\ Responses /\ Books)'
    BY StepInv, StepBooks
  <1> QED
    BY <1>1, <1>2, PTL DEF SafeSpec

(* The committed tables and the executions keep their types.               *)
THEOREM PushTypes == SafeSpec => []TypeOK
  <1>1. Inv /\ Responses /\ Books => TypeOK
    BY DEF Inv, Executions, InboxKeys, Responses, Books, BooksOf, MirroredLedgers, TypeOK
  <1> QED
    BY <1>1, PushBooks, PTL

(* However often and in whatever order an order's events are delivered,    *)
(* each creation is booked once and each cancellation takes one back.      *)
THEOREM PushOrderNetsOut == SafeSpec => []OrderNetsOut
  <1>1. ASSUME Books
        PROVE  OrderNetsOut
    <2>1. OrdersBooked(db, Applied)
      BY <1>1 DEF Books, BooksOf
    <2>2. ASSUME NEW o, NEW type
          PROVE  Times(o, type) = Count(Applied, o, type)
      <3>1. {m \in Message : /\ Key(m) \in inbox
                             /\ m.sub = "selling" /\ m.type = type /\ m.subject = o}
              = {m \in Applied : m.sub = "selling" /\ m.type = type /\ m.subject = o}
        BY DEF Applied
      <3> QED
        BY <3>1 DEF Times, Count
    <2> QED
      BY <2>1, <2>2 DEF OrdersBooked, OrderNetsOut
  <1>2. Books => OrderNetsOut
    BY <1>1
  <1> QED
    BY <1>2, PushBooks, PTL

(* What a team owes another is at any time the sum of what the messages    *)
(* applied so far bring, seen alike from both accounts.                    *)
THEOREM PushDebtExplained == SafeSpec => []DebtExplained
  <1>1. ASSUME Books
        PROVE  DebtExplained
    <2> SUFFICES ASSUME NEW x \in Team \ {NoTeam}, NEW y \in Team \ {NoTeam}, x # y
                 PROVE  LET debt == SumFunctionOnSet(DebtTable[<<x, y>>], Applied)
                        IN  /\ db[<<x, y, "PAYABLE">>].balance = -debt
                            /\ db[<<y, x, "RECEIVABLE">>].balance = debt
      BY DEF DebtExplained, Applied
    <2> DEFINE debt == SumFunctionOnSet(DebtTable[<<x, y>>], Applied)
               b == <<x, y, "PAYABLE">>
    <2>1. db[b].balance = -debt
      BY <1>1 DEF Books, BooksOf, DebtsBooked
    <2>2. b \in Account /\ Mirror(b) = <<y, x, "RECEIVABLE">>
      BY DEF Account, BalanceType, Mirror, oppositeBalance
    <2>3. db[Mirror(b)].balance = -db[b].balance
      BY <1>1, <2>2 DEF Books, BooksOf, MirroredLedgers
    <2>4. debt \in Int
      <3>1. IsFiniteSet(Applied) /\ Applied \subseteq Message
        BY <1>1 DEF Books, BooksOf
      <3>2. \A m \in Message : DebtTable[<<x, y>>][m] \in Int
        <4> TAKE m \in Message
        <4>1. DebtTable[<<x, y>>][m] = DebtOf(m, x, y)
          BY DEF DebtTable
        <4>2. DebtOf(m, x, y) \in Int
          BY PostingsLemma DEF Pair
        <4> QED
          BY <4>1, <4>2
      <3> QED
        BY <3>1, <3>2, SumType
    <2> HIDE DEF debt
    <2>5. db[Mirror(b)].balance = debt
      BY <2>1, <2>3, <2>4
    <2> QED
      BY <2>1, <2>2, <2>5 DEF debt
  <1>2. Books => DebtExplained
    BY <1>1
  <1> QED
    BY <1>2, PushBooks, PTL
=============================================================================
