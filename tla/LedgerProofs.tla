---------------------------- MODULE LedgerProofs ----------------------------
(***************************************************************************)
(* Theorems about Ledger, LedgerViews and OrderFlow, for every set of      *)
(* teams, days, payments, amounts and orders: what the tables hold, that   *)
(* what the reading RPCs compute from them agrees, what a reader may rely  *)
(* on whose queries other transactions overtake, and the bound that the    *)
(* gate of the orders keeps every debt within.                             *)
(***************************************************************************)
EXTENDS OrderFlow, LedgerOpsProofs
-----------------------------------------------------------------------------
(* The invariants of one row.                                              *)

(* A row without history replays to its zero balance and has no daily row. *)
LEMMA NoAccountLemma ==
  Replays(NoAccount) /\ \A day \in Day : SpansDay(NoAccount, day)
  <1>1. Len(NoAccount.log) = 0 /\ NoAccount.balance = 0
    BY DEF NoAccount
  <1>2. Replays(NoAccount)
    BY <1>1 DEF Replays
  <1>3. ASSUME NEW day \in Day PROVE SpansDay(NoAccount, day)
    <2>1. ~NoAccount.daily[day].present
      BY DEF NoAccount, NoDaily
    <2> QED
      BY <1>1, <2>1 DEF SpansDay
  <1> QED
    BY <1>2, <1>3

(* postEntry extends the replay of a log by one row.                       *)
LEMMA PostEntryReplays ==
  ASSUME NEW r \in AccountRow, Replays(r),
         NEW kind \in ChangeType, NEW delta \in Int, NEW day \in Day, NEW ref \in Ref
  PROVE  Replays(postEntryRow(r, kind, delta, day, ref))
  <1> DEFINE q == postEntryRow(r, kind, delta, day, ref)
             e == logEntry(r, kind, delta, day, ref)
             n == Len(r.log)
  <1>1. q.balance = r.balance + delta /\ q.log = Append(r.log, e)
    BY PostEntryRowLemma
  <1>2. /\ r.log \in Seq(LogEntry) /\ r.balance \in Int /\ n \in Nat
        /\ \A i \in 1 .. n : r.log[i].balance \in Int /\ r.log[i].change \in Int
        /\ e \in LogEntry /\ e.change = delta /\ e.balance = r.balance + delta
    BY RowTypeLemma, LogEntryLemma
  <1> HIDE DEF e
  <1>3. /\ Len(q.log) = n + 1 /\ q.log[n + 1] = e
        /\ \A i \in 1 .. n : q.log[i] = r.log[i]
    BY <1>1, <1>2, AppendLemma
  <1> HIDE DEF q, n
  <1>4. \A i \in 1 .. n : q.log[i].balance =
          (IF i = 1 THEN 0 ELSE q.log[i - 1].balance) + q.log[i].change
    <2> TAKE i \in 1 .. n
    <2>1. r.log[i].balance = (IF i = 1 THEN 0 ELSE r.log[i - 1].balance) + r.log[i].change
      BY DEF Replays, n
    <2>2. i = 1 \/ i - 1 \in 1 .. n
      BY <1>2
    <2> QED
      BY <1>3, <2>1, <2>2
  <1>5. r.balance = IF n = 0 THEN 0 ELSE q.log[n].balance
    BY <1>2, <1>3 DEF Replays, n
  <1>6. q.log[n + 1].balance =
          (IF n + 1 = 1 THEN 0 ELSE q.log[n].balance) + q.log[n + 1].change
    BY <1>2, <1>3, <1>5
  <1>7. q.balance = q.log[n + 1].balance
    BY <1>1, <1>2, <1>3
  <1> QED
    BY <1>2, <1>3, <1>4, <1>6, <1>7 DEF Replays, q, n

(* SpansDay with the rows of the day given a name.                         *)
LEMMA SpansDayIntro ==
  ASSUME NEW q, NEW day, NEW on, on = {i \in 1 .. Len(q.log) : q.log[i].day = day},
         \/ q.daily[day].present /\ \E first, last \in on :
              /\ \A i \in on : first <= i /\ i <= last
              /\ q.daily[day].start = q.log[first].balance - q.log[first].change
              /\ q.daily[day].end = q.log[last].balance
         \/ ~q.daily[day].present /\ on = {}
  PROVE  SpansDay(q, day)
  BY DEF SpansDay

(* postEntry keeps every daily row spanning the rows logged for its day:   *)
(* the row of another day is untouched, the row of this day ends at the    *)
(* new log row and starts there too when it is the first of its day.       *)
LEMMA PostEntrySpansDay ==
  ASSUME NEW r \in AccountRow, \A d \in Day : SpansDay(r, d),
         NEW kind \in ChangeType, NEW delta \in Int, NEW day \in Day, NEW ref \in Ref,
         NEW other \in Day
  PROVE  SpansDay(postEntryRow(r, kind, delta, day, ref), other)
  <1> DEFINE q == postEntryRow(r, kind, delta, day, ref)
             e == logEntry(r, kind, delta, day, ref)
             n == Len(r.log)
             rOn == {i \in 1 .. Len(r.log) : r.log[i].day = other}
             qOn == {i \in 1 .. Len(q.log) : q.log[i].day = other}
  <1>1. /\ r.log \in Seq(LogEntry) /\ r.balance \in Int /\ n \in Nat
        /\ \A i \in 1 .. n : r.log[i].balance \in Int /\ r.log[i].change \in Int
        /\ r.daily[day] \in DailyRow
        /\ e \in LogEntry /\ e.change = delta /\ e.balance = r.balance + delta /\ e.day = day
    <2>1. r.daily[day] \in DailyRow
      BY RowTypeLemma
    <2>2. /\ r.log \in Seq(LogEntry) /\ r.balance \in Int /\ n \in Nat
          /\ \A i \in 1 .. n : r.log[i].balance \in Int /\ r.log[i].change \in Int
      BY RowTypeLemma
    <2>3. /\ e \in LogEntry /\ e.change = delta /\ e.balance = r.balance + delta
          /\ e.day = day
      BY <2>2, LogEntryLemma
    <2> HIDE DEF e, n
    <2> QED
      BY <2>1, <2>2, <2>3
  <1>2. /\ q.log = Append(r.log, e)
        /\ q.daily[day] =
             upsertDailyLog(r.daily[day], r.balance, r.balance + delta, delta)
        /\ other # day => q.daily[other] = r.daily[other]
    BY PostEntryRowLemma
  <1>3. /\ Len(q.log) = n + 1 /\ q.log[n + 1] = e
        /\ \A i \in 1 .. n : q.log[i] = r.log[i]
    BY <1>1, <1>2, AppendLemma
  <1>4. \/ r.daily[other].present /\ \E first, last \in rOn :
             /\ \A i \in rOn : first <= i /\ i <= last
             /\ r.daily[other].start = r.log[first].balance - r.log[first].change
             /\ r.daily[other].end = r.log[last].balance
        \/ ~r.daily[other].present /\ rOn = {}
    BY DEF SpansDay
  <1> HIDE DEF q, e, n
  <1>5. CASE other # day
    <2>1. qOn = rOn
      BY <1>1, <1>3, <1>5 DEF n
    <2>2. \A i \in rOn : q.log[i] = r.log[i]
      BY <1>3 DEF n
    <2>3. q.daily[other] = r.daily[other]
      BY <1>2, <1>5
    <2>4. \/ q.daily[other].present /\ \E first, last \in qOn :
               /\ \A i \in qOn : first <= i /\ i <= last
               /\ q.daily[other].start = q.log[first].balance - q.log[first].change
               /\ q.daily[other].end = q.log[last].balance
          \/ ~q.daily[other].present /\ qOn = {}
      <3> HIDE DEF qOn, rOn
      <3> QED
        BY <1>4, <2>1, <2>2, <2>3
    <2>5. SpansDay(q, other)
      BY <2>4, SpansDayIntro
    <2> QED
      BY <2>5 DEF q
  <1>6. CASE other = day
    <2>1. /\ qOn = rOn \cup {n + 1}
          /\ \A i \in rOn : i \in Nat /\ i <= n + 1
      BY <1>1, <1>3, <1>6 DEF n
    <2>2. /\ q.daily[day].present
          /\ q.daily[day].start =
               IF r.daily[day].present THEN r.daily[day].start ELSE r.balance
          /\ q.daily[day].end = r.balance + delta
      BY <1>1, <1>2, UpsertDailyLemma
    <2>3. CASE r.daily[day].present
      <3>1. PICK first, last \in rOn :
              /\ \A i \in rOn : first <= i /\ i <= last
              /\ r.daily[day].start = r.log[first].balance - r.log[first].change
        BY <1>4, <1>6, <2>3
      <3>2. first \in qOn /\ n + 1 \in qOn /\ \A i \in qOn : first <= i /\ i <= n + 1
        <4> HIDE DEF rOn, qOn
        <4> QED
          BY <1>1, <2>1, <3>1
      <3>3. /\ q.daily[day].start = q.log[first].balance - q.log[first].change
            /\ q.daily[day].end = q.log[n + 1].balance
        BY <1>1, <1>3, <2>2, <2>3, <3>1 DEF n
      <3> QED
        BY <1>6, <2>2, <3>2, <3>3 DEF SpansDay, q
    <2>4. CASE ~r.daily[day].present
      <3>1. qOn = {n + 1}
        BY <1>4, <1>6, <2>1, <2>4
      <3>2. /\ q.daily[day].start = q.log[n + 1].balance - q.log[n + 1].change
            /\ q.daily[day].end = q.log[n + 1].balance
        BY <1>1, <1>3, <2>2, <2>4
      <3> QED
        <4>0. n + 1 \in Nat
          BY <1>1
        <4>1. n + 1 \in qOn /\ \A i \in qOn : n + 1 <= i /\ i <= n + 1
          <5> HIDE DEF qOn, rOn
          <5> QED
            BY <3>1, <4>0
        <4> QED
          BY <1>6, <2>2, <3>2, <4>1 DEF SpansDay, q
    <2> QED
      BY <2>3, <2>4
  <1> QED
    BY <1>5, <1>6

(* adjustPending keeps the row's log, balance and daily rows.              *)
LEMMA AdjustPendingKeepsHistory ==
  ASSUME NEW r \in AccountRow, NEW delta \in Int
  PROVE  LET q == adjustPendingRow(r, delta)
         IN  /\ Replays(r) => Replays(q)
             /\ \A day \in Day : SpansDay(r, day) => SpansDay(q, day)
  <1> DEFINE q == adjustPendingRow(r, delta)
  <1>1. q.balance = r.balance /\ q.log = r.log /\ q.daily = r.daily
    BY AdjustPendingRowLemma
  <1> HIDE DEF q
  <1>2. Replays(r) => Replays(q)
    BY <1>1 DEF Replays
  <1>3. \A day \in Day : SpansDay(r, day) => SpansDay(q, day)
    <2> SUFFICES ASSUME NEW day \in Day, SpansDay(r, day)
                 PROVE  SpansDay(q, day)
      OBVIOUS
    <2> DEFINE on == {i \in 1 .. Len(r.log) : r.log[i].day = day}
    <2>1. on = {i \in 1 .. Len(q.log) : q.log[i].day = day}
      BY <1>1
    <2>2. \/ r.daily[day].present /\ \E first, last \in on :
               /\ \A i \in on : first <= i /\ i <= last
               /\ r.daily[day].start = r.log[first].balance - r.log[first].change
               /\ r.daily[day].end = r.log[last].balance
          \/ ~r.daily[day].present /\ on = {}
      BY DEF SpansDay
    <2> HIDE DEF on
    <2>3. \/ q.daily[day].present /\ \E first, last \in on :
               /\ \A i \in on : first <= i /\ i <= last
               /\ q.daily[day].start = q.log[first].balance - q.log[first].change
               /\ q.daily[day].end = q.log[last].balance
          \/ ~q.daily[day].present /\ on = {}
      BY <1>1, <2>2
    <2> QED
      BY <2>1, <2>3, SpansDayIntro
  <1> QED
    BY <1>2, <1>3 DEF q
-----------------------------------------------------------------------------
(* The invariants of the whole ledger.                                     *)

(* The inductive invariant of the books: types, mirror, replay, days.      *)
Books(d) ==
  /\ d \in Ledgers
  /\ Mirrored(d)
  /\ \A a \in Account : Replays(d[a])
  /\ \A a \in Account, day \in Day : SpansDay(d[a], day)

(* A mirror pair of rows stays mirrored when the rows are replaced by two  *)
(* that mirror each other, and no other row is involved.                   *)
LEMMA MirroredPairLemma ==
  ASSUME NEW d \in Ledgers, NEW e \in Ledgers, NEW a \in Account, Mirrored(d),
         \A b \in Account : b # a /\ b # Mirror(a) => e[b] = d[b],
         e[a].balance + e[Mirror(a)].balance = 0,
         e[a].pending = e[Mirror(a)].pending,
         e[a].present <=> e[Mirror(a)].present
  PROVE  Mirrored(e)
  <1> SUFFICES ASSUME NEW b \in Account
               PROVE  /\ e[b].balance + e[Mirror(b)].balance = 0
                      /\ e[b].pending = e[Mirror(b)].pending
                      /\ e[b].present <=> e[Mirror(b)].present
    BY DEF Mirrored
  <1>1. /\ Mirror(b) \in Account /\ Mirror(Mirror(b)) = b
        /\ Mirror(a) \in Account /\ Mirror(Mirror(a)) = a
    BY MirrorLemma
  <1>2. e[a].balance \in Int /\ e[Mirror(a)].balance \in Int
    <2>1. e[a] \in AccountRow /\ e[Mirror(a)] \in AccountRow
      BY <1>1 DEF Ledgers
    <2> QED
      BY <2>1, RowTypeLemma
  <1>3. CASE b = a
    BY <1>3
  <1>4. CASE b = Mirror(a)
    BY <1>1, <1>2, <1>4
  <1>5. CASE b # a /\ b # Mirror(a)
    <2>1. Mirror(b) # a /\ Mirror(b) # Mirror(a)
      BY <1>1, <1>5
    <2>2. e[b] = d[b] /\ e[Mirror(b)] = d[Mirror(b)]
      BY <1>1, <1>5, <2>1
    <2> QED
      BY <2>2 DEF Mirrored
  <1> QED
    BY <1>3, <1>4, <1>5

(* A double entry keeps the books.                                         *)
LEMMA PostDoubleEntryBooks ==
  ASSUME NEW d, Books(d), NEW a \in Account, NEW kind \in ChangeType,
         NEW amount \in Int, NEW day \in Day, NEW ref \in Ref
  PROVE  Books(postDoubleEntry(d, a, kind, amount, day, ref))
  <1> DEFINE e == postDoubleEntry(d, a, kind, amount, day, ref)
             m == Mirror(a)
  <1>1. d \in Ledgers /\ Mirrored(d) /\ m \in Account /\ -amount \in Int
    BY MirrorLemma DEF Books
  <1>2. /\ e \in Ledgers
        /\ e[a] = postEntryRow(d[a], kind, amount, day, ref)
        /\ e[m] = postEntryRow(d[m], kind, -amount, day, ref)
        /\ \A b \in Account : b # a /\ b # m => e[b] = d[b]
    BY <1>1, PostDoubleEntryLemma
  <1>3. d[a] \in AccountRow /\ d[m] \in AccountRow
    BY <1>1 DEF Ledgers
  <1> HIDE DEF e
  <1>4. Mirrored(e)
    <2>1. /\ e[a].present /\ e[m].present
          /\ e[a].balance = d[a].balance + amount /\ e[m].balance = d[m].balance + (-amount)
          /\ e[a].pending = d[a].pending /\ e[m].pending = d[m].pending
      <3>1. /\ e[a].present /\ e[a].balance = d[a].balance + amount
            /\ e[a].pending = d[a].pending
        BY <1>2, <1>3, PostEntryRowLemma
      <3>2. /\ e[m].present /\ e[m].balance = d[m].balance + (-amount)
            /\ e[m].pending = d[m].pending
        BY <1>1, <1>2, <1>3, PostEntryRowLemma
      <3> QED
        BY <3>1, <3>2
    <2>2. d[a].balance + d[m].balance = 0 /\ d[a].pending = d[m].pending
      BY <1>1 DEF Mirrored
    <2>3. e[a].balance + e[m].balance = 0 /\ e[a].pending = e[m].pending
      <3>1. d[a].balance \in Int /\ d[m].balance \in Int
        BY <1>3, RowTypeLemma
      <3> QED
        BY <2>1, <2>2, <3>1
    <2> QED
      BY <1>1, <1>2, <2>1, <2>3, MirroredPairLemma
  <1>5. ASSUME NEW b \in Account PROVE Replays(e[b])
    <2>1. Replays(d[b]) /\ Replays(d[a]) /\ Replays(d[m])
      BY <1>1 DEF Books
    <2>2. b = a \/ b = m \/ e[b] = d[b]
      BY <1>2
    <2> QED
      BY <1>1, <1>2, <1>3, <2>1, <2>2, PostEntryReplays
  <1>6. ASSUME NEW b \in Account, NEW other \in Day PROVE SpansDay(e[b], other)
    <2>1. /\ SpansDay(d[b], other)
          /\ \A x \in Day : SpansDay(d[a], x) /\ SpansDay(d[m], x)
      BY <1>1 DEF Books
    <2>2. b = a \/ b = m \/ e[b] = d[b]
      BY <1>2
    <2> QED
      BY <1>1, <1>2, <1>3, <2>1, <2>2, PostEntrySpansDay
  <1> QED
    BY <1>2, <1>4, <1>5, <1>6 DEF Books, e

(* Moving the in-flight amount of a pair keeps the books.                  *)
LEMMA AdjustPendingPairBooks ==
  ASSUME NEW d, Books(d), NEW team \in Team, NEW forTeam \in Team, NEW delta \in Int
  PROVE  Books(adjustPendingPair(d, team, forTeam, delta))
  <1> DEFINE e == adjustPendingPair(d, team, forTeam, delta)
             a == <<team, forTeam, "PAYABLE">>
             m == Mirror(a)
  <1>1. d \in Ledgers /\ Mirrored(d)
    BY DEF Books
  <1>2. /\ a \in Account
        /\ e \in Ledgers
        /\ e[a] = adjustPendingRow(d[a], delta)
        /\ e[m] = adjustPendingRow(d[m], delta)
        /\ \A b \in Account : b # a /\ b # m => e[b] = d[b]
    BY <1>1, AdjustPendingPairLemma
  <1> HIDE DEF e, a
  <1>3. m \in Account /\ d[a] \in AccountRow /\ d[m] \in AccountRow
    BY <1>1, <1>2, MirrorLemma DEF Ledgers
  <1>4. Mirrored(e)
    <2>1. /\ e[a].present /\ e[m].present
          /\ e[a].balance = d[a].balance /\ e[m].balance = d[m].balance
          /\ e[a].pending = d[a].pending + delta /\ e[m].pending = d[m].pending + delta
      BY <1>2, <1>3, AdjustPendingRowLemma
    <2>2. d[a].balance + d[m].balance = 0 /\ d[a].pending = d[m].pending
      BY <1>1, <1>2 DEF Mirrored
    <2>3. e[a].balance + e[m].balance = 0 /\ e[a].pending = e[m].pending
      BY <2>1, <2>2
    <2> QED
      BY <1>1, <1>2, <2>1, <2>3, MirroredPairLemma
  <1>5. ASSUME NEW b \in Account
        PROVE  Replays(e[b]) /\ \A day \in Day : SpansDay(e[b], day)
    <2>1. \A c \in Account : Replays(d[c]) /\ \A day \in Day : SpansDay(d[c], day)
      BY DEF Books
    <2>2. b = a \/ b = m \/ e[b] = d[b]
      BY <1>2
    <2> QED
      BY <1>2, <1>3, <2>1, <2>2, AdjustPendingKeepsHistory
  <1> QED
    BY <1>2, <1>4, <1>5 DEF Books, e

(* The settled part is the smaller of the payment and the debt; what is    *)
(* left over is paid only once the debt is gone.                           *)
LEMMA SettledPartLemma ==
  ASSUME NEW balance \in Int, NEW amount \in Int
  PROVE  LET s == settledPart(balance, amount)
         IN  /\ s \in Int
             /\ s <= amount
             /\ balance <= 0 => balance + s <= 0
             /\ amount >= 0 => s >= 0
             /\ s < amount => balance + s >= 0
             /\ balance >= 0 => s <= 0
  BY DEF settledPart

(* The postings of an accepted payment, leg by leg: the debt settled on    *)
(* the payer's PAYABLE, then the surplus on its RECEIVABLE.                *)
LEMMA SettleBooks ==
  ASSUME NEW d, Books(d), NEW id \in Ref, NEW day \in Day, NEW p,
         p.team \in Team, p.forTeam \in Team, p.amount \in Int
  PROVE  Books(settle(d, id, p, day))
  <1> DEFINE pay == <<p.team, p.forTeam, "PAYABLE">>
             rec == <<p.team, p.forTeam, "RECEIVABLE">>
             s == settledPart(d[pay].balance, p.amount)
             paid == IF s > 0
                     THEN postDoubleEntry(d, pay, "PAYMENT", s, day, id) ELSE d
  <1>1. pay \in Account /\ rec \in Account /\ "PAYMENT" \in ChangeType
    BY DEF Account, BalanceType, ChangeType
  <1>2. d[pay].balance \in Int
    BY <1>1, RowTypeLemma DEF Books, Ledgers
  <1> HIDE DEF pay, rec
  <1>3. s \in Int /\ p.amount - s \in Int
    <2>1. settledPart(d[pay].balance, p.amount) \in Int
      BY <1>2, SettledPartLemma
    <2> QED
      BY <2>1
  <1> HIDE DEF s
  <1>4. Books(paid)
    BY <1>1, <1>3, PostDoubleEntryBooks
  <1> HIDE DEF paid
  <1>5. Books(IF p.amount - s > 0
              THEN postDoubleEntry(paid, rec, "PAYMENT", p.amount - s, day, id)
              ELSE paid)
    BY <1>1, <1>3, <1>4, PostDoubleEntryBooks
  <1> QED
    BY <1>5 DEF settle, pay, rec, s, paid

(* What an accepted payment p between two different teams does to the      *)
(* payer's two balances.                                                   *)
LEMMA SettleBalances ==
  ASSUME NEW d \in Ledgers, NEW id \in Ref, NEW day \in Day, NEW p,
         p.team \in Team, p.forTeam \in Team, p.team # p.forTeam,
         p.amount \in Int, p.amount >= 0
  PROVE  LET pay == <<p.team, p.forTeam, "PAYABLE">>
             rec == <<p.team, p.forTeam, "RECEIVABLE">>
             s == settledPart(d[pay].balance, p.amount)
             e == settle(d, id, p, day)
         IN  /\ e \in Ledgers
             /\ e[pay].balance = d[pay].balance + s
             /\ e[rec].balance = d[rec].balance + (p.amount - s)
  <1> DEFINE pay == <<p.team, p.forTeam, "PAYABLE">>
             rec == <<p.team, p.forTeam, "RECEIVABLE">>
             s == settledPart(d[pay].balance, p.amount)
             t == p.amount - s
             paid == IF s > 0
                     THEN postDoubleEntry(d, pay, "PAYMENT", s, day, id) ELSE d
             e == IF t > 0
                  THEN postDoubleEntry(paid, rec, "PAYMENT", t, day, id) ELSE paid
  <1>1. /\ pay \in Account /\ rec \in Account /\ "PAYMENT" \in ChangeType
        /\ pay # rec /\ rec # Mirror(pay) /\ pay # Mirror(rec)
    BY DEF Account, BalanceType, ChangeType, Mirror, oppositeBalance
  <1>2. settle(d, id, p, day) = e
    BY DEF settle
  <1> HIDE DEF pay, rec
  <1>3. d[pay] \in AccountRow /\ d[rec] \in AccountRow
    BY <1>1 DEF Ledgers
  <1>4. d[pay].balance \in Int /\ d[rec].balance \in Int
    BY <1>3, RowTypeLemma
  <1>5. s \in Int /\ s >= 0 /\ t \in Int /\ t >= 0
    <2>1. s \in Int /\ s >= 0 /\ s <= p.amount
      BY <1>4, SettledPartLemma
    <2> HIDE DEF s
    <2> QED
      BY <2>1
  <1> HIDE DEF s, t
  <1>6. /\ paid \in Ledgers
        /\ paid[pay].balance = d[pay].balance + s
        /\ paid[rec] = d[rec]
    <2>1. CASE s > 0
      <3>1. /\ paid \in Ledgers
            /\ paid[pay] = postEntryRow(d[pay], "PAYMENT", s, day, id)
            /\ paid[rec] = d[rec]
        BY <1>1, <1>5, <2>1, PostDoubleEntryLemma
      <3>2. postEntryRow(d[pay], "PAYMENT", s, day, id).balance = d[pay].balance + s
        BY <1>1, <1>3, <1>5, PostEntryRowLemma
      <3> QED
        BY <3>1, <3>2
    <2>2. CASE ~(s > 0)
      BY <1>4, <1>5, <2>2
    <2> QED
      BY <2>1, <2>2
  <1> HIDE DEF paid
  <1>7. /\ e \in Ledgers
        /\ e[rec].balance = d[rec].balance + t
        /\ e[pay] = paid[pay]
    <2>1. CASE t > 0
      <3>1. /\ e \in Ledgers
            /\ e[rec] = postEntryRow(d[rec], "PAYMENT", t, day, id)
            /\ e[pay] = paid[pay]
        BY <1>1, <1>5, <1>6, <2>1, PostDoubleEntryLemma
      <3>2. postEntryRow(d[rec], "PAYMENT", t, day, id).balance = d[rec].balance + t
        BY <1>1, <1>3, <1>5, PostEntryRowLemma
      <3> QED
        BY <3>1, <3>2
    <2>2. CASE ~(t > 0)
      BY <1>4, <1>5, <1>6, <2>2
    <2> QED
      BY <2>1, <2>2
  <1> QED
    BY <1>2, <1>6, <1>7 DEF pay, rec, s, t
(* The settlement of a payment is booked under its id, the part that pays  *)
(* debt on one account of the payer and the surplus on the other, which    *)
(* together get the whole amount.                                          *)
LEMMA SettleBooked ==
  ASSUME NEW d \in Ledgers, NEW id \in Ref, NEW day \in Day, NEW p,
         p.team \in Team, p.forTeam \in Team, p.team # p.forTeam, p.amount \in Int
  PROVE  LET pay == <<p.team, p.forTeam, "PAYABLE">>
             rec == <<p.team, p.forTeam, "RECEIVABLE">>
             e == settle(d, id, p, day)
         IN  /\ e \in Ledgers
             /\ p.amount >= 0 =>
                  Booked(e[pay].log, id) + Booked(e[rec].log, id)
                    = Booked(d[pay].log, id) + Booked(d[rec].log, id) + p.amount
             /\ \A b \in Account : \A other : other # id =>
                  /\ Booked(e[b].log, other) = Booked(d[b].log, other)
                  /\ Unnamed(d[b].log, other) => Unnamed(e[b].log, other)
  <1> DEFINE pay == <<p.team, p.forTeam, "PAYABLE">>
             rec == <<p.team, p.forTeam, "RECEIVABLE">>
             s == settledPart(d[pay].balance, p.amount)
             t == p.amount - s
             paid == IF s > 0
                     THEN postDoubleEntry(d, pay, "PAYMENT", s, day, id) ELSE d
             e == IF t > 0
                  THEN postDoubleEntry(paid, rec, "PAYMENT", t, day, id) ELSE paid
  <1>1. /\ pay \in Account /\ rec \in Account /\ "PAYMENT" \in ChangeType
        /\ pay # rec /\ rec # Mirror(pay) /\ pay # Mirror(rec)
    BY DEF Account, BalanceType, ChangeType, Mirror, oppositeBalance
  <1>2. settle(d, id, p, day) = e
    BY DEF settle
  <1> HIDE DEF pay, rec
  <1>3. d[pay].balance \in Int
    BY <1>1, RowTypeLemma DEF Ledgers
  <1>4. s \in Int /\ t \in Int /\ (p.amount >= 0 => s >= 0 /\ t >= 0) /\ s + t = p.amount
    <2>1. s \in Int /\ (p.amount >= 0 => s >= 0) /\ s <= p.amount
      BY <1>3, SettledPartLemma
    <2> HIDE DEF s
    <2> QED
      BY <2>1
  <1> HIDE DEF s, t
  <1>5. ASSUME NEW l \in Ledgers, NEW b \in Account, NEW ref
        PROVE  Booked(l[b].log, ref) \in Int
    <2>1. l[b].log \in Seq(LogEntry)
      BY RowTypeLemma DEF Ledgers
    <2> QED
      BY <2>1, BookedLemma
  <1>6. /\ paid \in Ledgers
        /\ p.amount >= 0 => Booked(paid[pay].log, id) = Booked(d[pay].log, id) + s
        /\ Booked(paid[rec].log, id) = Booked(d[rec].log, id)
        /\ \A b \in Account : \A other : other # id =>
             /\ Booked(paid[b].log, other) = Booked(d[b].log, other)
             /\ Unnamed(d[b].log, other) => Unnamed(paid[b].log, other)
    <2>1. CASE s > 0
      <3>1. paid = postDoubleEntry(d, pay, "PAYMENT", s, day, id)
        BY <2>1
      <3> HIDE DEF paid
      <3>2. paid \in Ledgers
        BY <1>1, <1>4, <3>1, PostDoubleEntryLemma
      <3>3. ASSUME NEW b \in Account, NEW ref
            PROVE  /\ Booked(paid[b].log, ref) =
                        IF ref = id /\ b = pay THEN s + Booked(d[b].log, ref)
                        ELSE IF ref = id /\ b = Mirror(pay) THEN -s + Booked(d[b].log, ref)
                        ELSE Booked(d[b].log, ref)
                   /\ ref # id => (Unnamed(paid[b].log, ref) <=> Unnamed(d[b].log, ref))
        BY <1>1, <1>4, <3>1, PostDoubleEntryBooked
      <3>4. Booked(d[pay].log, id) \in Int
        BY <1>1, <1>5
      <3> QED
        BY <1>1, <1>4, <3>2, <3>3, <3>4
    <2>2. CASE ~(s > 0)
      <3>1. paid = d /\ (p.amount >= 0 => s = 0) /\ Booked(d[pay].log, id) \in Int
        BY <1>1, <1>4, <1>5, <2>2
      <3> HIDE DEF paid
      <3> QED
        BY <3>1
    <2> QED
      BY <2>1, <2>2
  <1> HIDE DEF paid
  <1>7. /\ e \in Ledgers
        /\ p.amount >= 0 => Booked(e[rec].log, id) = Booked(paid[rec].log, id) + t
        /\ Booked(e[pay].log, id) = Booked(paid[pay].log, id)
        /\ \A b \in Account : \A other : other # id =>
             /\ Booked(e[b].log, other) = Booked(paid[b].log, other)
             /\ Unnamed(paid[b].log, other) => Unnamed(e[b].log, other)
    <2>1. CASE t > 0
      <3>1. e = postDoubleEntry(paid, rec, "PAYMENT", t, day, id)
        BY <2>1
      <3> HIDE DEF e
      <3>2. paid \in Ledgers /\ e \in Ledgers
        BY <1>1, <1>4, <1>6, <3>1, PostDoubleEntryLemma
      <3>3. ASSUME NEW b \in Account, NEW ref
            PROVE  /\ Booked(e[b].log, ref) =
                        IF ref = id /\ b = rec THEN t + Booked(paid[b].log, ref)
                        ELSE IF ref = id /\ b = Mirror(rec) THEN -t + Booked(paid[b].log, ref)
                        ELSE Booked(paid[b].log, ref)
                   /\ ref # id => (Unnamed(e[b].log, ref) <=> Unnamed(paid[b].log, ref))
        BY <1>1, <1>4, <3>1, <3>2, PostDoubleEntryBooked
      <3>4. Booked(paid[rec].log, id) \in Int
        BY <1>1, <1>5, <1>6
      <3> QED
        BY <1>1, <1>4, <3>2, <3>3, <3>4
    <2>2. CASE ~(t > 0)
      <3>1. e = paid /\ (p.amount >= 0 => t = 0) /\ Booked(paid[rec].log, id) \in Int
        BY <1>1, <1>4, <1>5, <1>6, <2>2
      <3> HIDE DEF e
      <3> QED
        BY <1>6, <3>1
    <2> QED
      BY <2>1, <2>2
  <1> HIDE DEF e
  <1>8. p.amount >= 0 =>
          Booked(e[pay].log, id) + Booked(e[rec].log, id)
            = Booked(d[pay].log, id) + Booked(d[rec].log, id) + p.amount
    <2>1. Booked(d[pay].log, id) \in Int /\ Booked(d[rec].log, id) \in Int
      BY <1>1, <1>5
    <2> QED
      BY <1>4, <1>6, <1>7, <2>1
  <1>9. \A b \in Account : \A other : other # id =>
          /\ Booked(e[b].log, other) = Booked(d[b].log, other)
          /\ Unnamed(d[b].log, other) => Unnamed(e[b].log, other)
    BY <1>6, <1>7
  <1> QED
    BY <1>2, <1>7, <1>8, <1>9 DEF pay, rec
-----------------------------------------------------------------------------
(* The inductive invariant and the theorems.                               *)

(* Payments have their type and are between two different teams: without   *)
(* the second, a payment's two accounts would be each other's mirror.      *)
PaymentsOK ==
  /\ payments \in [PaymentId -> InvoicePayment \cup {NoPayment}]
  /\ \A id \in PaymentId :
       payments[id] # NoPayment => payments[id].team # payments[id].forTeam

LedgerInv == Books(db) /\ PaymentsOK

(* A pending payment has the columns of its request.                       *)
LEMMA PendingLemma ==
  ASSUME PaymentsOK, NEW id \in PaymentId, NEW team, NEW forTeam,
         loadPendingPayment(id, team, forTeam)
  PROVE  /\ payments[id] \in InvoicePayment
         /\ payments[id].team = team /\ payments[id].forTeam = forTeam
         /\ team \in Team /\ forTeam \in Team /\ team # forTeam
         /\ payments[id].amount \in Int
  BY DEF PaymentsOK, loadPendingPayment, InvoicePayment

(* Deciding a payment leaves the columns that name its pair as they were.  *)
LEMMA DecideLemma ==
  ASSUME PaymentsOK, NEW id \in PaymentId, payments[id] \in InvoicePayment,
         NEW p \in InvoicePayment,
         p.team = payments[id].team, p.forTeam = payments[id].forTeam,
         payments' = [payments EXCEPT ![id] = p]
  PROVE  PaymentsOK'
  <1>1. payments[id] # NoPayment
    BY DEF InvoicePayment, NoPayment
  <1>2. payments' \in [PaymentId -> InvoicePayment \cup {NoPayment}]
    BY DEF PaymentsOK
  <1>3. ASSUME NEW i \in PaymentId, payments'[i] # NoPayment
        PROVE  payments'[i].team # payments'[i].forTeam
    <2>1. CASE i = id
      BY <1>1, <2>1 DEF PaymentsOK
    <2>2. CASE i # id
      BY <1>3, <2>2 DEF PaymentsOK
    <2> QED
      BY <2>1, <2>2
  <1> QED
    BY <1>2, <1>3 DEF PaymentsOK

(* The empty tables satisfy the invariant.                                 *)
LEMMA InitLedgerInv == Init => LedgerInv
  <1> SUFFICES ASSUME Init PROVE LedgerInv
    OBVIOUS
  <1>1. \A a \in Account : db[a] = NoAccount
    BY DEF Init, EmptyLedger
  <1>2. db \in Ledgers
    BY EmptyLedgerLemma DEF Init
  <1>3. Mirrored(db)
    <2>1. NoAccount.balance = 0
      BY DEF NoAccount
    <2>2. NoAccount.balance + NoAccount.balance = 0
      BY <2>1
    <2> QED
      BY <1>1, <2>2, MirrorLemma DEF Mirrored
  <1>4. PaymentsOK
    BY DEF Init, PaymentsOK
  <1> QED
    BY <1>1, <1>2, <1>3, <1>4, NoAccountLemma DEF LedgerInv, Books

LEMMA CreateBalanceLogInv ==
  ASSUME LedgerInv, NEW team, NEW forTeam, NEW bt, NEW kind \in PostKind,
         NEW amount \in PostAmount, NEW day \in Day,
         team \in Team \cup {NoTeam}, forTeam \in Team \cup {NoTeam},
         CreateBalanceLog(team, forTeam, bt, kind, amount, day)
  PROVE  LedgerInv'
  <1>1. <<team, forTeam, bt>> \in Account
    BY DEF CreateBalanceLog, ValidPosting, Account
  <1>2. kind \in ChangeType /\ amount \in Int /\ NoRef \in Ref
    BY LedgerAssumption, RefAssumption
  <1>3. Books(db')
    BY <1>1, <1>2, PostDoubleEntryBooks DEF CreateBalanceLog, LedgerInv
  <1>4. PaymentsOK'
    BY DEF CreateBalanceLog, LedgerInv, PaymentsOK
  <1> QED
    BY <1>3, <1>4 DEF LedgerInv, Books, Mirrored

LEMMA CreatePaymentInv ==
  ASSUME LedgerInv, NEW id \in PaymentId, NEW team \in Team, NEW forTeam \in Team,
         NEW amount \in PayAmount, CreatePayment(id, team, forTeam, amount)
  PROVE  LedgerInv'
  <1>1. amount \in Int
    BY LedgerAssumption
  <1>2. Books(db')
    BY <1>1, AdjustPendingPairBooks DEF CreatePayment, LedgerInv
  <1>3. PaymentsOK'
    BY <1>1 DEF CreatePayment, LedgerInv, PaymentsOK, InvoicePayment
  <1> QED
    BY <1>2, <1>3 DEF LedgerInv, Books, Mirrored

LEMMA AcceptPaymentInv ==
  ASSUME LedgerInv, NEW id \in PaymentId, NEW team \in Team, NEW forTeam \in Team,
         NEW day \in Day, AcceptPayment(id, team, forTeam, day)
  PROVE  LedgerInv'
  <1> DEFINE p == payments[id]
  <1>1. /\ p \in InvoicePayment /\ p.amount \in Int
        /\ p.team \in Team /\ p.forTeam \in Team
    BY PendingLemma DEF AcceptPayment, LedgerInv
  <1>2. id \in Ref
    BY LedgerAssumption
  <1>3. Books(settle(db, id, p, day))
    BY <1>1, <1>2, SettleBooks DEF LedgerInv
  <1>4. Books(db')
    <2>1. db' = adjustPendingPair(settle(db, id, p, day), team, forTeam, -p.amount)
      BY DEF AcceptPayment
    <2>2. -p.amount \in Int
      BY <1>1
    <2> QED
      BY <1>3, <2>1, <2>2, AdjustPendingPairBooks
  <1>5. PaymentsOK'
    <2> DEFINE q == [p EXCEPT !.status = "ACCEPTED", !.acceptedAt = {day}]
    <2>1. q \in InvoicePayment /\ q.team = p.team /\ q.forTeam = p.forTeam
      BY <1>1 DEF InvoicePayment
    <2>2. payments' = [payments EXCEPT ![id] = q]
      BY DEF AcceptPayment
    <2> HIDE DEF q
    <2> QED
      BY <1>1, <2>1, <2>2, DecideLemma DEF LedgerInv
  <1> QED
    BY <1>4, <1>5 DEF LedgerInv, Books, Mirrored

LEMMA RejectPaymentInv ==
  ASSUME LedgerInv, NEW id \in PaymentId, NEW team \in Team, NEW forTeam \in Team,
         RejectPayment(id, team, forTeam)
  PROVE  LedgerInv'
  <1>1. payments[id] \in InvoicePayment /\ payments[id].amount \in Int
    BY PendingLemma DEF RejectPayment, LedgerInv
  <1>2. -payments[id].amount \in Int
    BY <1>1
  <1>3. Books(db')
    BY <1>2, AdjustPendingPairBooks DEF RejectPayment, LedgerInv
  <1>4. PaymentsOK'
    <2> DEFINE q == [payments[id] EXCEPT !.status = "REJECTED"]
    <2>1. /\ q \in InvoicePayment
          /\ q.team = payments[id].team /\ q.forTeam = payments[id].forTeam
      BY <1>1 DEF InvoicePayment
    <2>2. payments' = [payments EXCEPT ![id] = q]
      BY DEF RejectPayment
    <2> HIDE DEF q
    <2> QED
      BY <1>1, <2>1, <2>2, DecideLemma DEF LedgerInv
  <1> QED
    BY <1>3, <1>4 DEF LedgerInv, Books, Mirrored

LEMMA LedgerInvStep == LedgerInv /\ [Next]_vars => LedgerInv'
  <1> SUFFICES ASSUME LedgerInv, [Next]_vars PROVE LedgerInv'
    OBVIOUS
  <1>1. ASSUME NEW team \in Team \cup {NoTeam}, NEW forTeam \in Team \cup {NoTeam},
               NEW bt \in BalanceType \cup {"UNSPECIFIED"}, NEW kind \in PostKind,
               NEW amount \in PostAmount, NEW day \in Day,
               CreateBalanceLog(team, forTeam, bt, kind, amount, day)
        PROVE  LedgerInv'
    BY <1>1, CreateBalanceLogInv
  <1>2. ASSUME NEW team \in Team, NEW forTeam \in Team, NEW id \in PaymentId,
               NEW amount \in PayAmount, CreatePayment(id, team, forTeam, amount)
        PROVE  LedgerInv'
    BY <1>2, CreatePaymentInv
  <1>3. ASSUME NEW team \in Team, NEW forTeam \in Team, NEW id \in PaymentId,
               NEW day \in Day, AcceptPayment(id, team, forTeam, day)
        PROVE  LedgerInv'
    BY <1>3, AcceptPaymentInv
  <1>4. ASSUME NEW team \in Team, NEW forTeam \in Team, NEW id \in PaymentId,
               RejectPayment(id, team, forTeam)
        PROVE  LedgerInv'
    BY <1>4, RejectPaymentInv
  <1>5. CASE UNCHANGED vars
    BY <1>5 DEF vars, LedgerInv, Books, Mirrored, PaymentsOK
  <1> QED
    BY <1>1, <1>2, <1>3, <1>4, <1>5 DEF Next

(* The invariant holds of every reachable state.                           *)
THEOREM LedgerInvariant == Spec => []LedgerInv
  <1> QED
    BY InitLedgerInv, LedgerInvStep, PTL DEF Spec

(* Every row the RPCs of the v2 ledger write has its type.                 *)
THEOREM LedgerTypes == Spec => []TypeOK
  <1>1. LedgerInv => TypeOK
    BY DEF LedgerInv, Books, PaymentsOK, TypeOK
  <1> QED
    BY <1>1, LedgerInvariant, PTL

(* What a team owes is what its counterpart is owed, after any sequence of *)
(* postings and payments between any number of teams.                      *)
THEOREM LedgerMirrored == Spec => []MirrorBooks
  <1>1. LedgerInv => MirrorBooks
    BY DEF LedgerInv, Books, MirrorBooks
  <1> QED
    BY <1>1, LedgerInvariant, PTL

(* Every stored balance is the replay of its log.                          *)
THEOREM LedgerReplays == Spec => []LogReplays
  <1>1. LedgerInv => LogReplays
    BY DEF LedgerInv, Books, LogReplays
  <1> QED
    BY <1>1, LedgerInvariant, PTL

(* Every daily row spans the log rows of its day, in whatever order the    *)
(* days arrive.                                                            *)
THEOREM LedgerDailySpans == Spec => []DailySpansLog
  <1>1. LedgerInv => DailySpansLog
    BY DEF LedgerInv, Books, DailySpansLog
  <1> QED
    BY <1>1, LedgerInvariant, PTL

(* Only AcceptPayment makes a pending payment an accepted one.             *)
LEMMA OnlyAcceptAccepts ==
  ASSUME LedgerInv, Next, NEW id \in PaymentId,
         payments[id].status = "PENDING", payments'[id].status = "ACCEPTED"
  PROVE  \E team, forTeam \in Team, day \in Day : AcceptPayment(id, team, forTeam, day)
  <1>0. payments \in [PaymentId -> InvoicePayment \cup {NoPayment}]
    BY DEF LedgerInv, PaymentsOK
  <1>1. ASSUME UNCHANGED payments PROVE FALSE
    BY <1>1
  <1>2. ASSUME NEW i \in PaymentId, NEW team, NEW forTeam, NEW amount,
               CreatePayment(i, team, forTeam, amount)
        PROVE  FALSE
    <2>1. i # id
      BY <1>2 DEF CreatePayment, NoPayment
    <2>2. payments'[id] = payments[id]
      BY <1>0, <1>2, <2>1 DEF CreatePayment
    <2> QED
      BY <2>2
  <1>3. ASSUME NEW i \in PaymentId, NEW team \in Team, NEW forTeam \in Team, NEW day \in Day,
               AcceptPayment(i, team, forTeam, day)
        PROVE  i = id
    BY <1>0, <1>3 DEF AcceptPayment
  <1>4. ASSUME NEW i \in PaymentId, NEW team \in Team, NEW forTeam \in Team,
               RejectPayment(i, team, forTeam)
        PROVE  FALSE
    <2>1. payments[i] \in InvoicePayment
      BY <1>4, PendingLemma DEF LedgerInv, RejectPayment
    <2> QED
      BY <1>0, <1>4, <2>1 DEF RejectPayment, InvoicePayment
  <1> QED
    BY <1>1, <1>2, <1>3, <1>4 DEF Next, CreateBalanceLog

(* An accepted payment moves the payer's net position by exactly its       *)
(* amount, never pushes a debt past zero, and grants credit only once no   *)
(* debt is left.                                                           *)
THEOREM LedgerSettlement == Spec => SettlementExact
  <1>1. LedgerInv /\ [Next]_vars => [SettlementStep]_vars
    <2> SUFFICES ASSUME LedgerInv, Next,
                        NEW id \in PaymentId, payments[id].status = "PENDING",
                        payments'[id].status = "ACCEPTED", payments[id].amount >= 0
                 PROVE  LET p == payments[id]
                            pay == <<p.team, p.forTeam, "PAYABLE">>
                            rec == <<p.team, p.forTeam, "RECEIVABLE">>
                        IN  /\ NetPosition(db', p.team, p.forTeam)
                                 = NetPosition(db, p.team, p.forTeam) + p.amount
                            /\ db[pay].balance <= 0 => db'[pay].balance <= 0
                            /\ db'[rec].balance > db[rec].balance => db'[pay].balance >= 0
      BY DEF SettlementStep
    <2> DEFINE p == payments[id]
               pay == <<p.team, p.forTeam, "PAYABLE">>
               rec == <<p.team, p.forTeam, "RECEIVABLE">>
               s == settledPart(db[pay].balance, p.amount)
    <2>1. PICK team \in Team, forTeam \in Team, day \in Day :
            AcceptPayment(id, team, forTeam, day)
      BY OnlyAcceptAccepts
    <2>2. /\ p.team = team /\ p.forTeam = forTeam
          /\ p.team \in Team /\ p.forTeam \in Team /\ p.team # p.forTeam
          /\ p.amount \in Int /\ id \in Ref
      BY <2>1, PendingLemma, LedgerAssumption DEF AcceptPayment, LedgerInv
    <2> DEFINE e == settle(db, id, p, day)
    <2>3. /\ e \in Ledgers
          /\ e[pay].balance = db[pay].balance + s
          /\ e[rec].balance = db[rec].balance + (p.amount - s)
      BY <2>2, SettleBalances DEF LedgerInv, Books
    <2>4. db' = adjustPendingPair(e, p.team, p.forTeam, -p.amount)
      BY <2>1, <2>2 DEF AcceptPayment
    <2>5. /\ pay \in Account /\ rec \in Account /\ rec # pay /\ rec # Mirror(pay)
          /\ -p.amount \in Int
      BY <2>2 DEF Account, BalanceType, Mirror, oppositeBalance
    <2> HIDE DEF e
    <2>6. db'[pay].balance = e[pay].balance /\ db'[rec].balance = e[rec].balance
      <3>1. /\ db'[pay] = adjustPendingRow(e[pay], -p.amount)
            /\ db'[rec] = e[rec]
        BY <2>2, <2>3, <2>4, <2>5, AdjustPendingPairLemma
      <3>2. e[pay] \in AccountRow
        BY <2>3, <2>5 DEF Ledgers
      <3> QED
        BY <2>5, <3>1, <3>2, AdjustPendingRowLemma
    <2>7. db[pay].balance \in Int /\ db[rec].balance \in Int
      BY <2>5, RowTypeLemma DEF LedgerInv, Books, Ledgers
    <2> HIDE DEF pay, rec
    <2>8. /\ s \in Int /\ s <= p.amount
          /\ db[pay].balance <= 0 => db[pay].balance + s <= 0
          /\ s < p.amount => db[pay].balance + s >= 0
      BY <2>2, <2>7, SettledPartLemma
    <2> HIDE DEF s, p
    <2>9. /\ db[pay].balance <= 0 => db'[pay].balance <= 0
          /\ db'[rec].balance > db[rec].balance => db'[pay].balance >= 0
          /\ db'[pay].balance + db'[rec].balance
               = db[pay].balance + db[rec].balance + p.amount
      BY <2>2, <2>3, <2>6, <2>7, <2>8
    <2> QED
      BY <2>9 DEF NetPosition, pay, rec, p
  <1> QED
    BY <1>1, LedgerInvariant, PTL DEF Spec, SettlementExact
-----------------------------------------------------------------------------
(* Payments are booked once.                                               *)

(* What PaymentsBookedOnce says of payment id with the row p, in tables d. *)
BookedOnce(d, p, id) ==
  IF p.status = "ACCEPTED"
  THEN p.amount >= 0 =>
         Booked(d[<<p.team, p.forTeam, "PAYABLE">>].log, id)
           + Booked(d[<<p.team, p.forTeam, "RECEIVABLE">>].log, id) = p.amount
  ELSE \A a \in Account : Unnamed(d[a].log, id)

(* A payment no row of which changed, with nothing new booked under its id.*)
LEMMA BookedOnceKept ==
  ASSUME NEW d, NEW e, NEW p \in InvoicePayment \cup {NoPayment}, NEW id,
         BookedOnce(d, p, id),
         \A b \in Account : /\ Booked(e[b].log, id) = Booked(d[b].log, id)
                            /\ Unnamed(d[b].log, id) => Unnamed(e[b].log, id)
  PROVE  BookedOnce(e, p, id)
  <1>1. CASE p.status = "ACCEPTED"
    <2>1. /\ <<p.team, p.forTeam, "PAYABLE">> \in Account
          /\ <<p.team, p.forTeam, "RECEIVABLE">> \in Account
      BY <1>1 DEF InvoicePayment, NoPayment, Account, BalanceType
    <2> QED
      BY <1>1, <2>1 DEF BookedOnce
  <1>2. CASE p.status # "ACCEPTED"
    BY <1>2 DEF BookedOnce
  <1> QED
    BY <1>1, <1>2

LEMMA BookedOnceStep ==
  ASSUME LedgerInv, [Next]_vars, NEW id \in PaymentId, BookedOnce(db, payments[id], id)
  PROVE  BookedOnce(db', payments'[id], id)
  <1>1. /\ db \in Ledgers
        /\ payments \in [PaymentId -> InvoicePayment \cup {NoPayment}]
        /\ payments[id] \in InvoicePayment \cup {NoPayment}
        /\ id \in Ref /\ NoRef \in Ref /\ id # NoRef
    BY LedgerAssumption, RefAssumption DEF LedgerInv, Books, PaymentsOK
  <1>2. ASSUME NEW team \in Team, NEW forTeam \in Team, NEW delta \in Int,
               db' = adjustPendingPair(db, team, forTeam, delta)
        PROVE  \A b \in Account : db'[b].log = db[b].log
    BY <1>1, <1>2, AdjustPendingPairLogs
  <1>3. ASSUME NEW team \in Team \cup {NoTeam}, NEW forTeam \in Team \cup {NoTeam},
               NEW bt, NEW kind \in PostKind, NEW amount \in PostAmount, NEW day \in Day,
               CreateBalanceLog(team, forTeam, bt, kind, amount, day)
        PROVE  BookedOnce(db', payments'[id], id)
    <2>1. /\ <<team, forTeam, bt>> \in Account /\ kind \in ChangeType /\ amount \in Int
          /\ db' = postDoubleEntry(db, <<team, forTeam, bt>>, kind, amount, day, NoRef)
          /\ payments' = payments
      BY <1>3, LedgerAssumption DEF CreateBalanceLog, ValidPosting, Account
    <2>2. ASSUME NEW b \in Account
          PROVE  /\ Booked(db'[b].log, id) = Booked(db[b].log, id)
                 /\ Unnamed(db[b].log, id) => Unnamed(db'[b].log, id)
      BY <1>1, <2>1, PostDoubleEntryBooked
    <2> QED
      BY <1>1, <2>1, <2>2, BookedOnceKept
  <1>4. ASSUME NEW team \in Team, NEW forTeam \in Team, NEW i \in PaymentId,
               NEW amount \in PayAmount, CreatePayment(i, team, forTeam, amount)
        PROVE  BookedOnce(db', payments'[id], id)
    <2>1. \A b \in Account : db'[b].log = db[b].log
      BY <1>2, <1>4, LedgerAssumption DEF CreatePayment
    <2>2. CASE i = id
      BY <1>1, <1>4, <2>1, <2>2 DEF CreatePayment, NoPayment, BookedOnce
    <2>3. CASE i # id
      <3>1. payments'[id] = payments[id]
        BY <1>1, <1>4, <2>3 DEF CreatePayment
      <3> QED
        BY <1>1, <2>1, <3>1, BookedOnceKept
    <2> QED
      BY <2>2, <2>3
  <1>5. ASSUME NEW team \in Team, NEW forTeam \in Team, NEW i \in PaymentId,
               NEW day \in Day, AcceptPayment(i, team, forTeam, day)
        PROVE  BookedOnce(db', payments'[id], id)
    <2> DEFINE p == payments[i]
               e == settle(db, i, p, day)
               pay == <<p.team, p.forTeam, "PAYABLE">>
               rec == <<p.team, p.forTeam, "RECEIVABLE">>
    <2>1. /\ p \in InvoicePayment /\ p.team = team /\ p.forTeam = forTeam
          /\ team # forTeam /\ p.amount \in Int /\ i \in Ref
          /\ loadPendingPayment(i, team, forTeam)
      BY <1>5, PendingLemma, LedgerAssumption DEF AcceptPayment, LedgerInv
    <2>2. /\ e \in Ledgers
          /\ p.amount >= 0 =>
               Booked(e[pay].log, i) + Booked(e[rec].log, i)
                 = Booked(db[pay].log, i) + Booked(db[rec].log, i) + p.amount
          /\ \A b \in Account : \A other : other # i =>
               /\ Booked(e[b].log, other) = Booked(db[b].log, other)
               /\ Unnamed(db[b].log, other) => Unnamed(e[b].log, other)
      BY <1>1, <2>1, SettleBooked
    <2>3. db' = adjustPendingPair(e, team, forTeam, -p.amount)
      BY <1>5 DEF AcceptPayment
    <2>4. \A b \in Account : db'[b].log = e[b].log
      <3>1. -p.amount \in Int
        BY <2>1
      <3> HIDE DEF e
      <3> QED
        BY <2>2, <2>3, <3>1, AdjustPendingPairLogs
    <2>5. pay \in Account /\ rec \in Account
      BY <2>1 DEF Account, BalanceType
    <2> HIDE DEF e
    <2>6. CASE i = id
      <3>1. /\ payments'[i].status = "ACCEPTED" /\ payments'[i].amount = p.amount
            /\ payments'[i].team = p.team /\ payments'[i].forTeam = p.forTeam
        <4>1. payments' = [payments EXCEPT
                ![i] = [p EXCEPT !.status = "ACCEPTED", !.acceptedAt = {day}]]
          BY <1>5 DEF AcceptPayment
        <4> QED
          BY <1>1, <2>1, <4>1 DEF InvoicePayment
      <3>2. \A a \in Account : Unnamed(db[a].log, i)
        BY <2>1, <2>6 DEF BookedOnce, loadPendingPayment
      <3>3. Booked(db[pay].log, i) = 0 /\ Booked(db[rec].log, i) = 0
        <4>1. db[pay].log \in Seq(LogEntry) /\ db[rec].log \in Seq(LogEntry)
          BY <1>1, <2>5, RowTypeLemma DEF Ledgers
        <4> QED
          BY <2>5, <3>2, <4>1, BookedLemma
      <3>4. p.amount >= 0 => Booked(db'[pay].log, i) + Booked(db'[rec].log, i) = p.amount
        BY <2>1, <2>2, <2>4, <2>5, <3>3
      <3> QED
        BY <2>6, <3>1, <3>4 DEF BookedOnce
    <2>7. CASE i # id
      <3>1. payments'[id] = payments[id]
        BY <1>1, <1>5, <2>7 DEF AcceptPayment
      <3>2. \A b \in Account : /\ Booked(db'[b].log, id) = Booked(db[b].log, id)
                               /\ Unnamed(db[b].log, id) => Unnamed(db'[b].log, id)
        BY <2>2, <2>4, <2>7
      <3> QED
        BY <1>1, <3>1, <3>2, BookedOnceKept
    <2> QED
      BY <2>6, <2>7
  <1>6. ASSUME NEW team \in Team, NEW forTeam \in Team, NEW i \in PaymentId,
               RejectPayment(i, team, forTeam)
        PROVE  BookedOnce(db', payments'[id], id)
    <2>1. payments[i] \in InvoicePayment /\ -payments[i].amount \in Int
      BY <1>6, PendingLemma DEF RejectPayment, LedgerInv
    <2>2. \A b \in Account : db'[b].log = db[b].log
      BY <1>2, <1>6, <2>1 DEF RejectPayment
    <2>3. CASE i = id
      <3>1. payments[id].status = "PENDING" /\ payments'[id].status = "REJECTED"
        BY <1>1, <1>6, <2>1, <2>3 DEF RejectPayment, loadPendingPayment, InvoicePayment
      <3> QED
        BY <2>2, <3>1 DEF BookedOnce
    <2>4. CASE i # id
      <3>1. payments'[id] = payments[id]
        BY <1>1, <1>6, <2>4 DEF RejectPayment
      <3> QED
        BY <1>1, <2>2, <3>1, BookedOnceKept
    <2> QED
      BY <2>3, <2>4
  <1>7. CASE UNCHANGED vars
    BY <1>7 DEF vars
  <1> QED
    BY <1>3, <1>4, <1>5, <1>6, <1>7 DEF Next

(* A payment is booked in full exactly once, when it is accepted, and a    *)
(* pending or rejected one is never in the log, for any number of payments *)
(* and any other postings between them.                                    *)
THEOREM LedgerBooksPaymentsOnce == Spec => []PaymentsBookedOnce
  <1> DEFINE Once == \A id \in PaymentId : BookedOnce(db, payments[id], id)
  <1>1. Init => Once
    <2> SUFFICES ASSUME Init, NEW id \in PaymentId
                 PROVE  BookedOnce(db, payments[id], id)
      OBVIOUS
    <2>1. payments[id].status # "ACCEPTED"
      BY DEF Init, NoPayment
    <2>2. ASSUME NEW a \in Account PROVE Unnamed(db[a].log, id)
      BY DEF Init, EmptyLedger, NoAccount, Unnamed
    <2> QED
      BY <2>1, <2>2 DEF BookedOnce
  <1>2. LedgerInv /\ Once /\ [Next]_vars => Once'
    BY BookedOnceStep
  <1>3. Once => PaymentsBookedOnce
    BY DEF BookedOnce, PaymentsBookedOnce, BookedFor, Unnamed
  <1> HIDE DEF Once
  <1> QED
    BY <1>1, <1>2, <1>3, LedgerInvariant, PTL DEF Spec
-----------------------------------------------------------------------------
(* What the statements of the reading RPCs select and add up.              *)

(* What a set of values of a function adds up to.                          *)
LEMMA SumFunctionLemma ==
  ASSUME NEW S, NEW f, DOMAIN f = S
  PROVE  SumFunction(f) = SumFunctionOnSet(f, S)
  BY DEF SumFunction

(* What the log rows of r with ids in I record.                            *)
Recorded(r, I) == SumFunctionOnSet([i \in DOMAIN r.log |-> r.log[i].change], I)

(* The ids of the log rows of r for the days, and what they record.        *)
DayIds(r, days) == {i \in DOMAIN r.log : r.log[i].day \in days}
ChangeOn(r, days) == Recorded(r, DayIds(r, days))

(* The row of balance_change_logs with the id i of account a.              *)
RowOf(d, a, i) ==
  [account |-> a, id |-> i, day |-> d[a].log[i].day, kind |-> d[a].log[i].kind,
   change |-> d[a].log[i].change, balance |-> d[a].log[i].balance]

(* The rows of the accounts with the ids I[a].                             *)
RowsAt(d, accounts, I) == UNION {{RowOf(d, a, i) : i \in I[a]} : a \in accounts}

(* The log of a row, and any part of it, is finite and adds up to a        *)
(* number.                                                                 *)
LEMMA RecordedLemma ==
  ASSUME NEW r \in AccountRow, NEW I, I \subseteq DOMAIN r.log
  PROVE  /\ DOMAIN r.log = 1 .. Len(r.log)
         /\ IsFiniteSet(I)
         /\ \A i \in I : r.log[i].change \in Int /\ r.log[i].day \in Day
         /\ Recorded(r, I) \in Int
  <1>1. /\ DOMAIN r.log = 1 .. Len(r.log)
        /\ \A i \in DOMAIN r.log : r.log[i].change \in Int /\ r.log[i].day \in Day
        /\ Len(r.log) \in Nat
    BY RowTypeLemma
  <1>2. IsFiniteSet(DOMAIN r.log)
    BY <1>1, FS_Interval
  <1>3. IsFiniteSet(I)
    BY <1>2, FS_Subset
  <1>4. Recorded(r, I) \in Int
    BY <1>1, <1>3, SumType DEF Recorded
  <1> QED
    BY <1>1, <1>3, <1>4

(* The log rows of the views are of this kind.                             *)
LEMMA LogRowsLemma ==
  ASSUME NEW d, NEW A, NEW days
  PROVE  LogRows(d, A, days) = RowsAt(d, A, [a \in A |-> DayIds(d[a], days)])
  <1> DEFINE I == [a \in A |-> DayIds(d[a], days)]
  <1>1. \A a \in A : I[a] = DayIds(d[a], days)
    OBVIOUS
  <1> HIDE DEF I
  <1> QED
    BY <1>1 DEF LogRows, RowsAt, RowOf, DayIds, I

(* A row is one of them by its account and its id.                         *)
LEMMA RowsAtLemma ==
  ASSUME NEW d, NEW A, NEW I
  PROVE  /\ \A x : x \in RowsAt(d, A, I) <=> \E a \in A : \E i \in I[a] : x = RowOf(d, a, i)
         /\ \A x \in RowsAt(d, A, I) :
              /\ x.account \in A /\ x.id \in I[x.account]
              /\ x = RowOf(d, x.account, x.id)
  <1>1. \A x : x \in RowsAt(d, A, I) <=> \E a \in A : \E i \in I[a] : x = RowOf(d, a, i)
    BY DEF RowsAt
  <1>2. ASSUME NEW x \in RowsAt(d, A, I)
        PROVE  x.account \in A /\ x.id \in I[x.account] /\ x = RowOf(d, x.account, x.id)
    <2>1. PICK a \in A : \E i \in I[a] : x = RowOf(d, a, i)
      BY <1>1
    <2>2. PICK i \in I[a] : x = RowOf(d, a, i)
      BY <2>1
    <2>3. x.account = a /\ x.id = i
      BY <2>2 DEF RowOf
    <2> QED
      BY <2>2, <2>3
  <1> QED
    BY <1>1, <1>2

(* Rows of one log add up to the changes of their entries.                 *)
LEMMA OneLog ==
  ASSUME NEW d \in Ledgers, NEW a \in Account, NEW I, I \subseteq DOMAIN d[a].log
  PROVE  /\ IsFiniteSet({RowOf(d, a, i) : i \in I})
         /\ Changed({RowOf(d, a, i) : i \in I}) = Recorded(d[a], I)
  <1> DEFINE f == [i \in I |-> RowOf(d, a, i)]
             fun == [i \in DOMAIN d[a].log |-> d[a].log[i].change]
             R == {RowOf(d, a, i) : i \in I}
             gun == [r \in R |-> r.change]
  <1>1. d[a] \in AccountRow
    BY DEF Ledgers
  <1>2. IsFiniteSet(I) /\ \A i \in I : d[a].log[i].change \in Int
    BY <1>1, RecordedLemma
  <1>3. \A i \in I : fun[i] \in Int
    BY <1>2
  <1>4. \A i : RowOf(d, a, i).id = i /\ RowOf(d, a, i).change = d[a].log[i].change
    BY DEF RowOf
  <1>5. R = {f[i] : i \in I}
    OBVIOUS
  <1>6. \A i \in I : gun[f[i]] = fun[i]
    BY <1>4
  <1>7. \A i, j \in I : f[i] = f[j] => i = j
    BY <1>4
  <1>8. IsFiniteSet(R)
    <2>1. f \in Surjection(I, R)
      BY DEF Surjection
    <2> QED
      BY <1>2, <2>1, FS_Surjection
  <1> HIDE DEF f, fun, gun, R
  <1>9. SumFunctionOnSet(gun, R) = SumFunctionOnSet(fun, I)
    BY <1>2, <1>3, <1>5, <1>6, <1>7, SumMap
  <1>10. Changed(R) = SumFunctionOnSet(gun, R)
    BY SumFunctionLemma DEF Changed, gun
  <1> QED
    BY <1>8, <1>9, <1>10 DEF R, fun, Recorded

(* Rows of several logs add up account by account.                         *)
LEMMA RowsAtSum ==
  ASSUME NEW d \in Ledgers, NEW A, A \subseteq Account, IsFiniteSet(A),
         NEW I, \A a \in A : I[a] \subseteq DOMAIN d[a].log
  PROVE  /\ IsFiniteSet(RowsAt(d, A, I))
         /\ \A r \in RowsAt(d, A, I) : r.change \in Int /\ r.day \in Day
         /\ \A a \in A : Recorded(d[a], I[a]) \in Int
         /\ Changed(RowsAt(d, A, I))
              = SumFunctionOnSet([a \in A |-> Recorded(d[a], I[a])], A)
  <1> DEFINE R == RowsAt(d, A, I)
             RA(a) == {RowOf(d, a, i) : i \in I[a]}
             fun == [r \in R |-> r.change]
             key == [r \in R |-> r.account]
             part == [a \in A |-> Recorded(d[a], I[a])]
  <1>1. \A x : x \in R <=> \E a \in A : x \in RA(a)
    BY RowsAtLemma
  <1>2. \A a, i : /\ RowOf(d, a, i).account = a
                  /\ RowOf(d, a, i).day = d[a].log[i].day
                  /\ RowOf(d, a, i).change = d[a].log[i].change
    BY DEF RowOf
  <1>3. ASSUME NEW a \in A
        PROVE  /\ IsFiniteSet(RA(a)) /\ Changed(RA(a)) = Recorded(d[a], I[a])
               /\ Recorded(d[a], I[a]) \in Int
               /\ \A r \in RA(a) : r.account = a /\ r.change \in Int /\ r.day \in Day
    <2>1. d[a] \in AccountRow /\ a \in Account
      BY DEF Ledgers
    <2>2. IsFiniteSet(RA(a)) /\ Changed(RA(a)) = Recorded(d[a], I[a])
      BY <2>1, OneLog
    <2>3. /\ \A i \in I[a] : d[a].log[i].change \in Int /\ d[a].log[i].day \in Day
          /\ Recorded(d[a], I[a]) \in Int
      BY <2>1, RecordedLemma
    <2> QED
      BY <1>2, <2>2, <2>3
  <1> HIDE DEF R, RA
  <1>4. \A r \in R : r.account \in A /\ r.change \in Int /\ r.day \in Day
    BY <1>1, <1>3
  <1>5. \A a \in A : {r \in R : key[r] = a} = RA(a)
    BY <1>1, <1>3
  <1>6. IsFiniteSet(R)
    <2> DEFINE P == {RA(a) : a \in A}
               g == [a \in A |-> RA(a)]
    <2>1. g \in Surjection(A, P)
      BY DEF Surjection
    <2>2. IsFiniteSet(P)
      BY <2>1, FS_Surjection
    <2>3. \A X \in P : IsFiniteSet(X)
      BY <1>3
    <2>4. R = UNION P
      BY <1>1
    <2> HIDE DEF P
    <2> QED
      BY <2>2, <2>3, <2>4, FS_UNION
  <1>7. ASSUME NEW a \in A
        PROVE  part[a] = SumFunctionOnSet(fun, {r \in R : key[r] = a})
    <2> DEFINE gun == [r \in RA(a) |-> r.change]
    <2>1. RA(a) \subseteq R
      BY <1>1
    <2>2. \A r \in RA(a) : fun[r] = gun[r]
      BY <2>1
    <2>3. Changed(RA(a)) = SumFunctionOnSet(gun, RA(a))
      BY SumFunctionLemma DEF Changed
    <2> HIDE DEF gun, fun, key
    <2>4. SumFunctionOnSet(fun, RA(a)) = SumFunctionOnSet(gun, RA(a))
      BY <1>3, <2>2, SumSame
    <2> QED
      BY <1>3, <1>5, <2>3, <2>4
  <1>8. Changed(R) = SumFunctionOnSet(fun, R)
    BY SumFunctionLemma DEF Changed
  <1>9. (\A r \in R : fun[r] \in Int) /\ (\A r \in R : key[r] \in A)
    BY <1>4
  <1> HIDE DEF fun, key, part
  <1>10. SumFunctionOnSet(fun, R) = SumFunctionOnSet(part, A)
    <2>1. InParts(fun, R, key, A, part)
      BY <1>7, <1>9 DEF InParts
    <2> QED
      BY <1>6, <2>1, SumByKey
  <1> QED
    BY <1>3, <1>4, <1>6, <1>8, <1>10 DEF R, part

(* Row sets without a row in common add up.                                *)
LEMMA ChangedUnion ==
  ASSUME NEW R, NEW S, IsFiniteSet(R), IsFiniteSet(S), R \cap S = {},
         \A r \in R \cup S : r.change \in Int
  PROVE  /\ Changed(R) \in Int /\ Changed(S) \in Int
         /\ Changed(R \cup S) = Changed(R) + Changed(S)
  <1> DEFINE U == R \cup S
             f == [r \in U |-> r.change]
             fR == [r \in R |-> r.change]
             fS == [r \in S |-> r.change]
  <1>1. /\ Changed(U) = SumFunctionOnSet(f, U) /\ Changed(R) = SumFunctionOnSet(fR, R)
        /\ Changed(S) = SumFunctionOnSet(fS, S)
    BY SumFunctionLemma DEF Changed
  <1>2. /\ \A r \in U : f[r] \in Int
        /\ \A r \in R : fR[r] = f[r] /\ fR[r] \in Int
        /\ \A r \in S : fS[r] = f[r] /\ fS[r] \in Int
    OBVIOUS
  <1> HIDE DEF f, fR, fS
  <1>3. SumFunctionOnSet(f, R \cup S) = SumFunctionOnSet(f, R) + SumFunctionOnSet(f, S)
    BY <1>2, SumUnion
  <1>4. SumFunctionOnSet(fR, R) = SumFunctionOnSet(f, R)
    BY <1>2, SumSame
  <1>5. SumFunctionOnSet(fS, S) = SumFunctionOnSet(f, S)
    BY <1>2, SumSame
  <1>6. Changed(R) \in Int
    BY <1>1, <1>2, SumType
  <1>7. Changed(S) \in Int
    BY <1>1, <1>2, SumType
  <1> QED
    BY <1>1, <1>3, <1>4, <1>5, <1>6, <1>7

(* Log rows of the accounts, and day by day.                               *)
LEMMA LogRowsSum ==
  ASSUME NEW d \in Ledgers, NEW A, A \subseteq Account, IsFiniteSet(A), NEW days
  PROVE  LET R == LogRows(d, A, days)
         IN  /\ IsFiniteSet(R)
             /\ \A r \in R : /\ r.account \in A /\ r.change \in Int
                             /\ r.day \in Day /\ r.day \in days
             /\ \A a \in A : ChangeOn(d[a], days) \in Int
             /\ Changed(R) \in Int
             /\ Changed(R) = SumFunctionOnSet([a \in A |-> ChangeOn(d[a], days)], A)
  <1> DEFINE I == [a \in A |-> DayIds(d[a], days)]
             R == LogRows(d, A, days)
             fun == [a \in A |-> ChangeOn(d[a], days)]
  <1>1. R = RowsAt(d, A, I)
    BY LogRowsLemma
  <1>2. \A a \in A : I[a] \subseteq DOMAIN d[a].log /\ Recorded(d[a], I[a]) = ChangeOn(d[a], days)
    BY DEF DayIds, ChangeOn
  <1>3. \A r \in R : r.account \in A /\ r.day \in days
    <2> SUFFICES ASSUME NEW r \in R PROVE r.account \in A /\ r.day \in days
      OBVIOUS
    <2>1. /\ r.account \in A /\ r.id \in I[r.account]
          /\ r = RowOf(d, r.account, r.id)
      BY <1>1, RowsAtLemma
    <2>2. r.day = d[r.account].log[r.id].day
      BY <2>1 DEF RowOf
    <2> QED
      BY <2>1, <2>2 DEF DayIds
  <1>4. fun = [a \in A |-> Recorded(d[a], I[a])]
    BY <1>2
  <1> HIDE DEF I, R, fun
  <1>5. /\ IsFiniteSet(R) /\ \A r \in R : r.change \in Int /\ r.day \in Day
        /\ Changed(R) = SumFunctionOnSet(fun, A)
    BY <1>1, <1>2, <1>4, RowsAtSum
  <1>6. \A a \in A : ChangeOn(d[a], days) \in Int
    BY <1>1, <1>2, RowsAtSum
  <1>7. Changed(R) \in Int
    <2>1. \A a \in A : fun[a] \in Int
      BY <1>6 DEF fun
    <2> QED
      BY <1>5, <2>1, SumType
  <1> QED
    BY <1>3, <1>5, <1>6, <1>7 DEF R, fun

(* The changes of disjoint days add up.                                    *)
LEMMA LogRowsUnion ==
  ASSUME NEW d \in Ledgers, NEW A, A \subseteq Account, IsFiniteSet(A),
         NEW X, NEW Y, X \cap Y = {}
  PROVE  Changed(LogRows(d, A, X \cup Y)) = Changed(LogRows(d, A, X)) + Changed(LogRows(d, A, Y))
  <1> DEFINE R == LogRows(d, A, X)
             S == LogRows(d, A, Y)
  <1>1. IsFiniteSet(R) /\ \A r \in R : r.change \in Int /\ r.day \in X
    BY LogRowsSum
  <1>2. IsFiniteSet(S) /\ \A r \in S : r.change \in Int /\ r.day \in Y
    BY LogRowsSum
  <1>3. LogRows(d, A, X \cup Y) = R \cup S
    BY DEF LogRows
  <1>4. R \cap S = {}
    BY <1>1, <1>2
  <1> HIDE DEF R, S
  <1> QED
    BY <1>1, <1>2, <1>3, <1>4, ChangedUnion DEF R, S

(* The accounts of one reader, counterparty by counterparty.               *)
LEMMA ScopeLemma ==
  ASSUME NEW team \in Readers, NEW forTeam \in Filters(team), NEW bt \in BalanceType
  PROVE  LET A == Scope(team, forTeam, bt)
             xs == Counterparties(forTeam, "UNSPECIFIED")
         IN  /\ A \subseteq Account /\ IsFiniteSet(A) /\ IsFiniteSet(xs) /\ xs \subseteq Team
             /\ A = {<<team, x, bt>> : x \in xs}
             /\ \A a \in Account :
                  a \in A <=> a[1] = team /\ a[3] = bt /\ a \in Scope(NoTeam, forTeam, bt)
  <1> DEFINE A == Scope(team, forTeam, bt)
             xs == Counterparties(forTeam, "UNSPECIFIED")
             f == [x \in xs |-> <<team, x, bt>>]
  <1>1. team \in Team /\ team # NoTeam /\ (forTeam = NoTeam \/ forTeam \in Team)
    BY DEF Readers, Filters
  <1>2. xs \subseteq Team /\ xs = IF forTeam = NoTeam THEN Team ELSE {forTeam}
    BY <1>1 DEF Counterparties
  <1>3. A = {team} \X xs \X {bt}
    BY <1>1, <1>2 DEF Scope
  <1>4. A = {<<team, x, bt>> : x \in xs}
    <2> HIDE DEF A, xs
    <2>1. \A a : a \in {team} \X xs \X {bt} <=> \E x \in xs : a = <<team, x, bt>>
      OBVIOUS
    <2> QED
      BY <1>3, <2>1
  <1>5. IsFiniteSet(xs)
    BY <1>2, ViewsAssumption, FS_Subset
  <1>6. A \subseteq Account
    BY <1>1, <1>2, <1>3 DEF Account
  <1>7. IsFiniteSet(A)
    <2>1. f \in Surjection(xs, A)
      BY <1>4 DEF Surjection
    <2> HIDE DEF f, A
    <2> QED
      BY <1>5, <2>1, FS_Surjection
  <1>8. \A a \in Account :
          a \in A <=> a[1] = team /\ a[3] = bt /\ a \in Scope(NoTeam, forTeam, bt)
    <2>1. Scope(NoTeam, forTeam, bt) = Team \X xs \X {bt}
      BY <1>2 DEF Scope
    <2> QED
      BY <1>3, <2>1 DEF Account
  <1> QED
    BY <1>2, <1>4, <1>5, <1>6, <1>7, <1>8

(* A column of these accounts, summed by counterparty; counterparties for  *)
(* which it is zero may be left out.                                       *)
LEMMA ScopeSum ==
  ASSUME NEW team \in Readers, NEW forTeam \in Filters(team), NEW bt \in BalanceType,
         NEW val, \A a \in Scope(team, forTeam, bt) : val[a] \in Int,
         NEW ys, ys \subseteq Counterparties(forTeam, "UNSPECIFIED"),
         NEW col, \A x \in ys : col[x] = val[<<team, x, bt>>],
         \A x \in Counterparties(forTeam, "UNSPECIFIED") \ ys : val[<<team, x, bt>>] = 0
  PROVE  SumFunctionOnSet(val, Scope(team, forTeam, bt)) = SumFunctionOnSet(col, ys)
  <1> DEFINE A == Scope(team, forTeam, bt)
             xs == Counterparties(forTeam, "UNSPECIFIED")
             f == [x \in xs |-> <<team, x, bt>>]
             all == [x \in xs |-> val[<<team, x, bt>>]]
  <1>1. A = {<<team, x, bt>> : x \in xs} /\ IsFiniteSet(xs)
    BY ScopeLemma
  <1>2. A = {f[x] : x \in xs}
    BY <1>1
  <1>3. (\A x \in xs : all[x] \in Int) /\ (\A x \in xs : val[f[x]] = all[x])
    BY <1>1
  <1>4. \A x, y \in xs : f[x] = f[y] => x = y
    OBVIOUS
  <1>5. (\A x \in ys : col[x] \in Int /\ all[x] = col[x]) /\ (\A x \in xs \ ys : all[x] = 0)
    BY <1>3
  <1> HIDE DEF A, f, xs, all
  <1>6. SumFunctionOnSet(val, A) = SumFunctionOnSet(all, xs)
    <2>1. SumFunctionOnSet(val, {f[x] : x \in xs}) = SumFunctionOnSet(all, xs)
      <3>1. IsFiniteSet(xs)
        BY <1>1
      <3> QED
        BY <1>3, <1>4, <3>1, SumMap
    <2> QED
      BY <1>2, <2>1
  <1>7. SumFunctionOnSet(all, xs) = SumFunctionOnSet(col, ys)
    <2>1. ys \subseteq xs
      BY DEF xs
    <2>2. IsFiniteSet(xs)
      BY <1>1
    <2> QED
      BY <1>5, <2>1, <2>2, SumPart
  <1> QED
    BY <1>6, <1>7 DEF A

(* The breakdown of a set of rows by change type adds up to their changes. *)
LEMMA ChangeSumsTotal ==
  ASSUME NEW rows, IsFiniteSet(rows), \A r \in rows : r.change \in Int
  PROVE  SumFunction([c \in ChangeSums(rows) |-> c.amount]) = Changed(rows)
  <1> DEFINE kinds == {r.kind : r \in rows}
             of(k) == {r \in rows : r.kind = k}
             fun == [r \in rows |-> r.change]
             key == [r \in rows |-> r.kind]
             part == [k \in kinds |-> Changed(of(k))]
             f == [k \in kinds |-> [kind |-> k, amount |-> Changed(of(k)),
                                    count |-> Cardinality(of(k))]]
             sums == ChangeSums(rows)
             gun == [c \in sums |-> c.amount]
  <1>1. IsFiniteSet(kinds)
    <2>1. key \in Surjection(rows, kinds)
      BY DEF Surjection
    <2> HIDE DEF key, kinds
    <2> QED
      BY <2>1, FS_Surjection
  <1>2. ASSUME NEW k \in kinds
        PROVE  part[k] = SumFunctionOnSet(fun, {r \in rows : key[r] = k})
    <2> DEFINE some == [r \in of(k) |-> r.change]
    <2>1. of(k) \subseteq rows /\ of(k) = {r \in rows : key[r] = k}
      OBVIOUS
    <2>2. Changed(of(k)) = SumFunctionOnSet(some, of(k))
      BY SumFunctionLemma DEF Changed
    <2>3. IsFiniteSet(of(k))
      BY <2>1, FS_Subset
    <2>4. \A r \in of(k) : fun[r] = some[r]
      BY <2>1
    <2>5. part[k] = Changed(of(k))
      OBVIOUS
    <2> HIDE DEF some, fun, key, of, part
    <2>6. SumFunctionOnSet(fun, of(k)) = SumFunctionOnSet(some, of(k))
      BY <2>3, <2>4, SumSame
    <2> QED
      BY <2>1, <2>2, <2>5, <2>6
  <1>3. InParts(fun, rows, key, kinds, part)
    <2>1. \A r \in rows : fun[r] \in Int /\ key[r] \in kinds
      OBVIOUS
    <2> HIDE DEF fun, key, kinds, part
    <2> QED
      BY <1>2, <2>1 DEF InParts
  <1>4. sums = {f[k] : k \in kinds}
    BY DEF ChangeSums
  <1>5. \A k \in kinds : f[k].kind = k /\ f[k].amount = part[k]
    OBVIOUS
  <1>6. \A k, l \in kinds : f[k] = f[l] => k = l
    BY <1>5
  <1>7. \A k \in kinds : part[k] \in Int
    <2> TAKE k \in kinds
    <2> DEFINE fiber == {r \in rows : key[r] = k}
    <2>1. fiber \subseteq rows /\ \A r \in fiber : fun[r] \in Int
      OBVIOUS
    <2> HIDE DEF fun, key, kinds, part
    <2>2. IsFiniteSet(fiber)
      BY <2>1, FS_Subset
    <2> HIDE DEF fiber
    <2>3. SumFunctionOnSet(fun, fiber) \in Int
      BY <2>1, <2>2, SumType
    <2> QED
      BY <1>2, <2>3 DEF fiber
  <1>8. \A k \in kinds : gun[f[k]] = part[k]
    BY <1>4, <1>5
  <1>9. Changed(rows) = SumFunctionOnSet(fun, rows)
    BY SumFunctionLemma DEF Changed
  <1>10. SumFunction(gun) = SumFunctionOnSet(gun, sums)
    BY SumFunctionLemma
  <1> HIDE DEF fun, key, kinds, part, f, sums, gun
  <1>11. SumFunctionOnSet(fun, rows) = SumFunctionOnSet(part, kinds)
    BY <1>1, <1>3, SumByKey
  <1>12. SumFunctionOnSet(gun, sums) = SumFunctionOnSet(part, kinds)
    BY <1>1, <1>4, <1>6, <1>7, <1>8, SumMap
  <1> QED
    BY <1>9, <1>10, <1>11, <1>12 DEF sums, gun
-----------------------------------------------------------------------------
(* What the views rely on, row by row.                                     *)

OnDays(days) == {e \in LogEntry : e.day \in days}
PaidOn(days) == {e \in LogEntry : e.kind = "PAYMENT" /\ e.day \in days}

(* What a row records for some days is the sum of their entries.           *)
LEMMA ChangeOnLemma ==
  ASSUME NEW r \in AccountRow, NEW days
  PROVE  ChangeOn(r, days) = EntrySum(r.log, OnDays(days))
  <1>1. \A i \in DOMAIN r.log : r.log[i] \in LogEntry
    BY RowTypeLemma
  <1>2. DayIds(r, days) = {i \in DOMAIN r.log : r.log[i] \in OnDays(days)}
    BY <1>1 DEF DayIds, OnDays
  <1> QED
    BY <1>2 DEF ChangeOn, Recorded, EntrySum

(* The daily rows record the changes of their days.                        *)
DailyAdds(r) == \A day \in Day : r.daily[day].change = ChangeOn(r, {day})

(* An account without a row has no history.                                *)
Dormant(r) == ~r.present => r = NoAccount

(* The balance is the sum of the changes.                                  *)
AddsUp(r) == r.balance = EntrySum(r.log, LogEntry)

RowViews(r) == DailyAdds(r) /\ Dormant(r) /\ AddsUp(r)

(* A row without history satisfies this.                                   *)
LEMMA NoAccountViews == RowViews(NoAccount)
  <1>1. NoAccount \in AccountRow /\ DOMAIN NoAccount.log = {}
    BY EmptyLedgerLemma DEF NoAccount
  <1>2. NoAccount.log \in Seq(LogEntry) /\ NoAccount.balance = 0
    BY <1>1, RowTypeLemma DEF NoAccount
  <1>3. \A E : EntrySum(NoAccount.log, E) = 0
    BY <1>1, <1>2, EntrySumType
  <1>4. \A day \in Day : NoAccount.daily[day].change = 0
    BY DEF NoAccount, NoDaily
  <1>5. \A days : ChangeOn(NoAccount, days) = 0
    BY <1>1, <1>3, ChangeOnLemma
  <1> QED
    BY <1>2, <1>3, <1>4, <1>5 DEF RowViews, DailyAdds, Dormant, AddsUp

(* A posting keeps them: its change goes to the log, the balance and the   *)
(* daily row alike.                                                        *)
LEMMA PostEntryViews ==
  ASSUME NEW r \in AccountRow, RowViews(r), \A day \in Day : SpansDay(r, day),
         NEW kind \in ChangeType, NEW delta \in Int, NEW day \in Day, NEW ref \in Ref
  PROVE  RowViews(postEntryRow(r, kind, delta, day, ref))
  <1> DEFINE q == postEntryRow(r, kind, delta, day, ref)
             e == logEntry(r, kind, delta, day, ref)
  <1>1. /\ q \in AccountRow /\ q.present /\ q.balance = r.balance + delta
        /\ q.daily[day] = upsertDailyLog(r.daily[day], r.balance, r.balance + delta, delta)
        /\ \A other \in Day : other # day => q.daily[other] = r.daily[other]
    BY PostEntryRowLemma
  <1>2. r.balance \in Int /\ r.balance + delta \in Int /\ r.daily[day] \in DailyRow
    BY RowTypeLemma
  <1>3. e \in LogEntry /\ e.day = day
    BY <1>2, LogEntryLemma
  <1>4. \A E : /\ EntrySum(r.log, E) \in Int
               /\ EntrySum(q.log, E) = IF e \in E THEN EntrySum(r.log, E) + delta
                                                  ELSE EntrySum(r.log, E)
    BY PostEntrySum
  <1>5. q.daily[day].change
          = (IF r.daily[day].present THEN r.daily[day].change ELSE 0) + delta
    BY <1>1, <1>2, UpsertDailyLemma
  <1>6. AddsUp(q)
    <2> HIDE DEF q, e
    <2> QED
      BY <1>1, <1>3, <1>4 DEF RowViews, AddsUp
  <1>7. ASSUME NEW other \in Day PROVE q.daily[other].change = ChangeOn(q, {other})
    <2>1. /\ ChangeOn(q, {other}) = EntrySum(q.log, OnDays({other}))
          /\ ChangeOn(r, {other}) = EntrySum(r.log, OnDays({other}))
      BY <1>1, ChangeOnLemma
    <2>2. e \in OnDays({other}) <=> other = day
      BY <1>3 DEF OnDays
    <2>3. r.daily[other].change = EntrySum(r.log, OnDays({other}))
      BY <2>1 DEF RowViews, DailyAdds
    <2>4. ~r.daily[day].present => EntrySum(r.log, OnDays({day})) = 0
      <3> SUFFICES ASSUME ~r.daily[day].present
                   PROVE  EntrySum(r.log, OnDays({day})) = 0
        OBVIOUS
      <3>1. {i \in 1 .. Len(r.log) : r.log[i].day = day} = {}
        BY DEF SpansDay
      <3>2. DOMAIN r.log = 1 .. Len(r.log) /\ r.log \in Seq(LogEntry)
        BY RowTypeLemma
      <3>3. \A i \in DOMAIN r.log : r.log[i] \notin OnDays({day})
        BY <3>1, <3>2 DEF OnDays
      <3> QED
        BY <3>2, <3>3, EntrySumType
    <2> HIDE DEF q, e
    <2>5. CASE other = day
      BY <1>4, <1>5, <2>1, <2>2, <2>3, <2>4, <2>5
    <2>6. CASE other # day
      BY <1>1, <1>4, <2>1, <2>2, <2>3, <2>6
    <2> QED
      BY <2>5, <2>6
  <1> QED
    BY <1>1, <1>6, <1>7 DEF RowViews, DailyAdds, Dormant

(* So does an in-flight amount.                                            *)
LEMMA AdjustPendingViews ==
  ASSUME NEW r \in AccountRow, RowViews(r), NEW delta \in Int
  PROVE  RowViews(adjustPendingRow(r, delta))
  <1> DEFINE q == adjustPendingRow(r, delta)
  <1>1. q.present /\ q.balance = r.balance /\ q.log = r.log /\ q.daily = r.daily
    BY AdjustPendingRowLemma
  <1> HIDE DEF q
  <1>2. \A days : ChangeOn(q, days) = ChangeOn(r, days)
    BY <1>1 DEF ChangeOn, Recorded, DayIds
  <1>3. RowViews(q)
    BY <1>1, <1>2 DEF RowViews, DailyAdds, Dormant, AddsUp
  <1> QED
    BY <1>3 DEF q
(* The same for the tables.                                                *)
Viewed(d) == \A a \in Account : RowViews(d[a])

(* A double entry keeps it on both of its accounts ...                     *)
LEMMA PostDoubleEntryViews ==
  ASSUME NEW d, Books(d), Viewed(d), NEW a \in Account, NEW kind \in ChangeType,
         NEW amount \in Int, NEW day \in Day, NEW ref \in Ref
  PROVE  Viewed(postDoubleEntry(d, a, kind, amount, day, ref))
  <1> DEFINE e == postDoubleEntry(d, a, kind, amount, day, ref)
             m == Mirror(a)
  <1>1. d \in Ledgers /\ m \in Account /\ -amount \in Int
    BY MirrorLemma DEF Books
  <1>2. /\ e[a] = postEntryRow(d[a], kind, amount, day, ref)
        /\ e[m] = postEntryRow(d[m], kind, -amount, day, ref)
        /\ \A b \in Account : b # a /\ b # m => e[b] = d[b]
    BY <1>1, PostDoubleEntryLemma
  <1>3. \A b \in Account : /\ d[b] \in AccountRow /\ RowViews(d[b])
                           /\ \A x \in Day : SpansDay(d[b], x)
    BY <1>1 DEF Ledgers, Books, Viewed
  <1> HIDE DEF e, m
  <1>4. RowViews(e[a])
    BY <1>1, <1>2, <1>3, PostEntryViews
  <1>5. RowViews(e[m])
    BY <1>1, <1>2, <1>3, PostEntryViews
  <1>6. Viewed(e)
    BY <1>2, <1>3, <1>4, <1>5 DEF Viewed
  <1> QED
    BY <1>6 DEF e

(* ... as does the adjustment of what is in flight, which leaves the logs  *)
(* alone ...                                                               *)
LEMMA AdjustPendingPairViews ==
  ASSUME NEW d, Books(d), Viewed(d), NEW team \in Team, NEW forTeam \in Team, NEW delta \in Int
  PROVE  Viewed(adjustPendingPair(d, team, forTeam, delta))
  <1> DEFINE e == adjustPendingPair(d, team, forTeam, delta)
             a == <<team, forTeam, "PAYABLE">>
             m == Mirror(a)
  <1>1. d \in Ledgers
    BY DEF Books
  <1>2. /\ a \in Account
        /\ e[a] = adjustPendingRow(d[a], delta)
        /\ e[m] = adjustPendingRow(d[m], delta)
        /\ \A b \in Account : b # a /\ b # m => e[b] = d[b]
    BY <1>1, AdjustPendingPairLemma
  <1>3. m \in Account
    BY <1>2, MirrorLemma
  <1>4. \A b \in Account : d[b] \in AccountRow /\ RowViews(d[b])
    BY <1>1 DEF Ledgers, Viewed
  <1> HIDE DEF e, m, a
  <1>5. RowViews(e[a]) /\ RowViews(e[m])
    BY <1>2, <1>3, <1>4, AdjustPendingViews
  <1>6. Viewed(e)
    BY <1>2, <1>4, <1>5 DEF Viewed
  <1> QED
    BY <1>6 DEF e

(* ... and the settlement of a payment, which is one or two double         *)
(* entries.                                                                *)
LEMMA SettleViews ==
  ASSUME NEW d, Books(d), Viewed(d), NEW id \in Ref, NEW day \in Day, NEW p,
         p.team \in Team, p.forTeam \in Team, p.amount \in Int
  PROVE  Viewed(settle(d, id, p, day))
  <1> DEFINE pay == <<p.team, p.forTeam, "PAYABLE">>
             rec == <<p.team, p.forTeam, "RECEIVABLE">>
             s == settledPart(d[pay].balance, p.amount)
             paid == IF s > 0
                     THEN postDoubleEntry(d, pay, "PAYMENT", s, day, id) ELSE d
  <1>1. pay \in Account /\ rec \in Account /\ "PAYMENT" \in ChangeType
    BY DEF Account, BalanceType, ChangeType
  <1>2. d[pay].balance \in Int
    BY <1>1, RowTypeLemma DEF Books, Ledgers
  <1> HIDE DEF pay, rec
  <1>3. s \in Int /\ p.amount - s \in Int
    <2>1. settledPart(d[pay].balance, p.amount) \in Int
      BY <1>2, SettledPartLemma
    <2> QED
      BY <2>1
  <1> HIDE DEF s
  <1>4. Books(paid)
    BY <1>1, <1>3, PostDoubleEntryBooks
  <1>5. Viewed(paid)
    BY <1>1, <1>3, PostDoubleEntryViews
  <1> HIDE DEF paid
  <1>6. Viewed(IF p.amount - s > 0
               THEN postDoubleEntry(paid, rec, "PAYMENT", p.amount - s, day, id)
               ELSE paid)
    BY <1>1, <1>3, <1>4, <1>5, PostDoubleEntryViews
  <1> QED
    BY <1>6 DEF settle, pay, rec, s, paid
-----------------------------------------------------------------------------
(* The PAYMENT changes of the days in the favour of team against forTeam.  *)
PaidIn(d, a, days) == EntrySum(d[a].log, PaidOn(days))

PaidMoves(d, team, forTeam, days) ==
  PaidIn(d, <<team, forTeam, "PAYABLE">>, days)
    + PaidIn(d, <<team, forTeam, "RECEIVABLE">>, days)

(* A double entry moves them on its two accounts, if it is a PAYMENT ...   *)
LEMMA DoubleEntryPaidIn ==
  ASSUME NEW d \in Ledgers, NEW a \in Account, NEW kind \in ChangeType,
         NEW amount \in Int, NEW day \in Day, NEW ref \in Ref, NEW days, NEW b \in Account
  PROVE  LET e == postDoubleEntry(d, a, kind, amount, day, ref)
             counts == kind = "PAYMENT" /\ day \in days
         IN  /\ PaidIn(d, b, days) \in Int
             /\ PaidIn(e, b, days) =
                  IF counts /\ b = a THEN PaidIn(d, b, days) + amount
                  ELSE IF counts /\ b = Mirror(a) THEN PaidIn(d, b, days) - amount
                  ELSE PaidIn(d, b, days)
  <1> DEFINE e == postDoubleEntry(d, a, kind, amount, day, ref)
             counts == kind = "PAYMENT" /\ day \in days
  <1>1. Mirror(a) \in Account /\ Mirror(a) # a /\ -amount \in Int /\ d[b] \in AccountRow
    BY MirrorLemma DEF Ledgers
  <1>2. /\ e[a] = postEntryRow(d[a], kind, amount, day, ref)
        /\ e[Mirror(a)] = postEntryRow(d[Mirror(a)], kind, -amount, day, ref)
        /\ b # a /\ b # Mirror(a) => e[b] = d[b]
    BY PostDoubleEntryLemma
  <1> HIDE DEF e
  <1>3. PaidIn(d, b, days) \in Int
    <2>1. d[b].log \in Seq(LogEntry)
      BY <1>1, RowTypeLemma
    <2> QED
      BY <2>1, EntrySumType DEF PaidIn
  <1>4. ASSUME NEW delta \in Int, e[b] = postEntryRow(d[b], kind, delta, day, ref)
        PROVE  PaidIn(e, b, days) =
                 IF counts THEN PaidIn(d, b, days) + delta ELSE PaidIn(d, b, days)
    <2> DEFINE x == logEntry(d[b], kind, delta, day, ref)
    <2>1. x \in PaidOn(days) <=> counts
      <3>1. x \in LogEntry /\ x.day = day /\ x.kind = kind
        <4>1. d[b].balance \in Int
          BY <1>1, RowTypeLemma
        <4> QED
          BY <4>1, LogEntryLemma DEF logEntry
      <3> HIDE DEF x
      <3> QED
        BY <3>1 DEF PaidOn
    <2>2. EntrySum(postEntryRow(d[b], kind, delta, day, ref).log, PaidOn(days)) =
            IF x \in PaidOn(days) THEN EntrySum(d[b].log, PaidOn(days)) + delta
            ELSE EntrySum(d[b].log, PaidOn(days))
      BY <1>1, PostEntrySum
    <2> HIDE DEF x, counts
    <2> QED
      BY <1>4, <2>1, <2>2 DEF PaidIn
  <1> HIDE DEF counts
  <1>5. PaidIn(e, b, days) =
          IF counts /\ b = a THEN PaidIn(d, b, days) + amount
          ELSE IF counts /\ b = Mirror(a) THEN PaidIn(d, b, days) - amount
          ELSE PaidIn(d, b, days)
    <2>1. CASE b = a
      BY <1>1, <1>2, <1>3, <1>4, <2>1
    <2>2. CASE b = Mirror(a)
      <3>1. PaidIn(e, b, days) =
              IF counts THEN PaidIn(d, b, days) + (-amount) ELSE PaidIn(d, b, days)
        BY <1>1, <1>2, <1>4, <2>2
      <3>2. PaidIn(d, b, days) + (-amount) = PaidIn(d, b, days) - amount
        BY <1>3
      <3> QED
        BY <1>1, <1>3, <2>2, <3>1, <3>2
    <2>3. CASE b # a /\ b # Mirror(a)
      <3>1. PaidIn(e, b, days) = PaidIn(d, b, days)
        BY <1>2, <2>3 DEF PaidIn
      <3> QED
        BY <2>3, <3>1
    <2> QED
      BY <2>1, <2>2, <2>3
  <1> QED
    BY <1>3, <1>5 DEF e, counts

(* ... between its two teams, whichever balance type it is posted on.      *)
LEMMA DoubleEntryPaidMoves ==
  ASSUME NEW d \in Ledgers, NEW x \in Team, NEW y \in Team, x # y, NEW bt \in BalanceType,
         NEW amount \in Int, NEW day \in Day, NEW ref \in Ref, NEW days,
         NEW team \in Team, NEW forTeam \in Team
  PROVE  LET e == postDoubleEntry(d, <<x, y, bt>>, "PAYMENT", amount, day, ref)
         IN  /\ e \in Ledgers
             /\ PaidMoves(d, team, forTeam, days) \in Int
             /\ PaidMoves(e, team, forTeam, days) =
                  PaidMoves(d, team, forTeam, days)
                    + (IF day \notin days THEN 0
                       ELSE IF team = x /\ forTeam = y THEN amount
                       ELSE IF team = y /\ forTeam = x THEN -amount ELSE 0)
  <1> DEFINE a == <<x, y, bt>>
             P == <<team, forTeam, "PAYABLE">>
             R == <<team, forTeam, "RECEIVABLE">>
             kind == "PAYMENT"
             e == postDoubleEntry(d, a, kind, amount, day, ref)
             counts == kind = "PAYMENT" /\ day \in days
  <1>1. a \in Account /\ P \in Account /\ R \in Account /\ kind \in ChangeType
    BY DEF Account, BalanceType, ChangeType
  <1>2. /\ a = P \/ a = R <=> team = x /\ forTeam = y
        /\ Mirror(a) = P \/ Mirror(a) = R <=> team = y /\ forTeam = x
        /\ P # R
        /\ ~(a = P /\ Mirror(a) = R) /\ ~(a = R /\ Mirror(a) = P)
    BY DEF Mirror, oppositeBalance, BalanceType
  <1>3. counts <=> day \in days
    OBVIOUS
  <1> HIDE DEF kind
  <1>4. e \in Ledgers
    BY <1>1, PostDoubleEntryLemma
  <1>5. ASSUME NEW b \in Account
        PROVE  /\ PaidIn(d, b, days) \in Int
               /\ PaidIn(e, b, days) =
                    IF counts /\ b = a THEN PaidIn(d, b, days) + amount
                    ELSE IF counts /\ b = Mirror(a) THEN PaidIn(d, b, days) - amount
                    ELSE PaidIn(d, b, days)
    BY <1>1, DoubleEntryPaidIn
  <1>6. Mirror(a) # a
    BY <1>1, MirrorLemma
  <1> HIDE DEF a, P, R, e, counts
  <1>7. /\ PaidIn(d, P, days) + PaidIn(d, R, days) \in Int
        /\ PaidIn(e, P, days) + PaidIn(e, R, days) =
             PaidIn(d, P, days) + PaidIn(d, R, days)
               + (IF day \notin days THEN 0
                  ELSE IF team = x /\ forTeam = y THEN amount
                  ELSE IF team = y /\ forTeam = x THEN -amount ELSE 0)
    <2>1. PaidIn(d, P, days) \in Int /\ PaidIn(d, R, days) \in Int
      BY <1>1, <1>5
    <2>2. CASE day \notin days
      BY <1>1, <1>3, <1>5, <2>1, <2>2
    <2>3. CASE day \in days /\ team = x /\ forTeam = y
      <3>1. Mirror(a) # P /\ Mirror(a) # R
        BY <1>2, <2>3
      <3>2. CASE a = P
        BY <1>1, <1>2, <1>3, <1>5, <2>1, <2>3, <3>1, <3>2
      <3>3. CASE a = R
        BY <1>1, <1>2, <1>3, <1>5, <2>1, <2>3, <3>1, <3>3
      <3> QED
        BY <1>2, <2>3, <3>2, <3>3
    <2>4. CASE day \in days /\ team = y /\ forTeam = x
      <3>1. a # P /\ a # R
        BY <1>2, <2>4
      <3>2. CASE Mirror(a) = P
        BY <1>1, <1>2, <1>3, <1>5, <2>1, <2>4, <3>1, <3>2
      <3>3. CASE Mirror(a) = R
        BY <1>1, <1>2, <1>3, <1>5, <2>1, <2>4, <3>1, <3>3
      <3> QED
        BY <1>2, <2>4, <3>2, <3>3
    <2>5. CASE ~(team = x /\ forTeam = y) /\ ~(team = y /\ forTeam = x)
      BY <1>1, <1>2, <1>5, <2>1, <2>5
    <2> QED
      BY <2>1, <2>2, <2>3, <2>4, <2>5
  <1> QED
    BY <1>4, <1>7 DEF PaidMoves, P, R, e, a, kind

(* The settlement of a payment moves its amount in the payer's favour.     *)
LEMMA SettlePaidMoves ==
  ASSUME NEW d \in Ledgers, NEW id \in Ref, NEW day \in Day, NEW p,
         p.team \in Team, p.forTeam \in Team, p.team # p.forTeam,
         p.amount \in Int, p.amount >= 0, NEW days, NEW team \in Team, NEW forTeam \in Team
  PROVE  /\ PaidMoves(d, team, forTeam, days) \in Int
         /\ PaidMoves(settle(d, id, p, day), team, forTeam, days) =
              PaidMoves(d, team, forTeam, days)
                + (IF day \notin days THEN 0
                   ELSE IF team = p.team /\ forTeam = p.forTeam THEN p.amount
                   ELSE IF team = p.forTeam /\ forTeam = p.team THEN -p.amount ELSE 0)
  <1> DEFINE pay == <<p.team, p.forTeam, "PAYABLE">>
             rec == <<p.team, p.forTeam, "RECEIVABLE">>
             s == settledPart(d[pay].balance, p.amount)
             t == p.amount - s
             paid == IF s > 0
                     THEN postDoubleEntry(d, pay, "PAYMENT", s, day, id) ELSE d
             e == IF t > 0
                  THEN postDoubleEntry(paid, rec, "PAYMENT", t, day, id) ELSE paid
             part(x) == IF day \notin days THEN 0
                        ELSE IF team = p.team /\ forTeam = p.forTeam THEN x
                        ELSE IF team = p.forTeam /\ forTeam = p.team THEN -x ELSE 0
             M(l) == PaidMoves(l, team, forTeam, days)
  <1>1. settle(d, id, p, day) = e
    BY DEF settle
  <1>2. "PAYABLE" \in BalanceType /\ "RECEIVABLE" \in BalanceType /\ pay \in Account
    BY DEF BalanceType, Account
  <1>3. d[pay].balance \in Int
    BY <1>2, RowTypeLemma DEF Ledgers
  <1>4. s \in Int /\ s >= 0 /\ s <= p.amount
    BY <1>3, SettledPartLemma
  <1> HIDE DEF s
  <1>5. t \in Int /\ t >= 0 /\ s + t = p.amount
    BY <1>4
  <1> HIDE DEF t
  <1>6. ASSUME NEW l \in Ledgers PROVE M(l) \in Int
    <2>1. /\ <<team, forTeam, "PAYABLE">> \in Account
          /\ <<team, forTeam, "RECEIVABLE">> \in Account
      BY DEF Account, BalanceType
    <2>2. ASSUME NEW b \in Account PROVE PaidIn(l, b, days) \in Int
      <3>1. l[b].log \in Seq(LogEntry)
        BY <1>6, RowTypeLemma DEF Ledgers
      <3> QED
        BY <3>1, EntrySumType DEF PaidIn
    <2> QED
      BY <2>1, <2>2 DEF PaidMoves
  <1>7. paid \in Ledgers /\ M(paid) = M(d) + part(s)
    <2>1. CASE s > 0
      BY <1>2, <1>4, <2>1, DoubleEntryPaidMoves
    <2>2. CASE s = 0
      BY <1>6, <2>2
    <2> QED
      BY <1>4, <2>1, <2>2
  <1> HIDE DEF paid
  <1>8. M(e) = M(paid) + part(t)
    <2>1. CASE t > 0
      BY <1>2, <1>5, <1>7, <2>1, DoubleEntryPaidMoves
    <2>2. CASE t = 0
      BY <1>6, <1>7, <2>2
    <2> QED
      BY <1>5, <2>1, <2>2
  <1>9. M(d) \in Int
    BY <1>6
  <1> HIDE DEF M, e
  <1>10. M(e) = M(d) + part(p.amount)
    BY <1>4, <1>5, <1>7, <1>8, <1>9
  <1> QED
    BY <1>1, <1>9, <1>10 DEF M
-----------------------------------------------------------------------------
(* In-flight amounts.                                                      *)

(* A posting leaves what is in flight alone ...                            *)
LEMMA PostDoubleEntryPending ==
  ASSUME NEW d \in Ledgers, NEW a \in Account, NEW kind \in ChangeType,
         NEW amount \in Int, NEW day \in Day, NEW ref \in Ref, NEW b \in Account
  PROVE  postDoubleEntry(d, a, kind, amount, day, ref)[b].pending = d[b].pending
  <1> DEFINE e == postDoubleEntry(d, a, kind, amount, day, ref)
  <1>1. Mirror(a) \in Account /\ -amount \in Int
    BY MirrorLemma
  <1>2. /\ e[a] = postEntryRow(d[a], kind, amount, day, ref)
        /\ e[Mirror(a)] = postEntryRow(d[Mirror(a)], kind, -amount, day, ref)
        /\ b # a /\ b # Mirror(a) => e[b] = d[b]
    BY PostDoubleEntryLemma
  <1>3. d[a] \in AccountRow /\ d[Mirror(a)] \in AccountRow
    BY <1>1 DEF Ledgers
  <1> HIDE DEF e
  <1>4. e[a].pending = d[a].pending
    BY <1>2, <1>3, PostEntryRowLemma
  <1>5. e[Mirror(a)].pending = d[Mirror(a)].pending
    BY <1>1, <1>2, <1>3, PostEntryRowLemma
  <1>6. e[b].pending = d[b].pending
    BY <1>2, <1>4, <1>5
  <1> QED
    BY <1>6 DEF e

(* ... and so does the settlement of a payment ...                         *)
LEMMA SettlePending ==
  ASSUME NEW d \in Ledgers, NEW id \in Ref, NEW day \in Day, NEW p,
         p.team \in Team, p.forTeam \in Team, p.amount \in Int, NEW b \in Account
  PROVE  settle(d, id, p, day)[b].pending = d[b].pending
  <1> DEFINE pay == <<p.team, p.forTeam, "PAYABLE">>
             rec == <<p.team, p.forTeam, "RECEIVABLE">>
             s == settledPart(d[pay].balance, p.amount)
             paid == IF s > 0
                     THEN postDoubleEntry(d, pay, "PAYMENT", s, day, id) ELSE d
  <1>1. pay \in Account /\ rec \in Account /\ "PAYMENT" \in ChangeType
    BY DEF Account, BalanceType, ChangeType
  <1>2. d[pay].balance \in Int
    BY <1>1, RowTypeLemma DEF Ledgers
  <1> HIDE DEF pay, rec
  <1>3. s \in Int /\ p.amount - s \in Int
    <2>1. settledPart(d[pay].balance, p.amount) \in Int
      BY <1>2, SettledPartLemma
    <2> QED
      BY <2>1
  <1> HIDE DEF s
  <1>4. paid \in Ledgers /\ paid[b].pending = d[b].pending
    BY <1>1, <1>3, PostDoubleEntryLemma, PostDoubleEntryPending
  <1> HIDE DEF paid
  <1>5. (IF p.amount - s > 0
         THEN postDoubleEntry(paid, rec, "PAYMENT", p.amount - s, day, id)
         ELSE paid)[b].pending = d[b].pending
    BY <1>1, <1>3, <1>4, PostDoubleEntryPending
  <1> QED
    BY <1>5 DEF settle, pay, rec, s, paid

(* ... and an adjustment moves it for its own pair only.                   *)
LEMMA AdjustPendingPairPending ==
  ASSUME NEW d \in Ledgers, NEW x \in Team, NEW y \in Team, NEW delta \in Int,
         NEW team \in Team, NEW forTeam \in Team
  PROVE  LET P == <<team, forTeam, "PAYABLE">>
         IN  /\ d[P].pending \in Int
             /\ adjustPendingPair(d, x, y, delta)[P].pending =
                  d[P].pending + (IF team = x /\ forTeam = y THEN delta ELSE 0)
  <1> DEFINE P == <<team, forTeam, "PAYABLE">>
             a == <<x, y, "PAYABLE">>
             e == adjustPendingPair(d, x, y, delta)
  <1>1. /\ a \in Account /\ P \in Account
        /\ e[a] = adjustPendingRow(d[a], delta)
        /\ P # a /\ P # Mirror(a) => e[P] = d[P]
    <2>1. P \in Account
      BY DEF Account, BalanceType
    <2> QED
      BY <2>1, AdjustPendingPairLemma
  <1>2. P # Mirror(a) /\ (P = a <=> team = x /\ forTeam = y)
    BY DEF Mirror, oppositeBalance
  <1> HIDE DEF P, a, e
  <1>3. d[P] \in AccountRow /\ d[a] \in AccountRow
    BY <1>1 DEF Ledgers
  <1>4. d[P].pending \in Int
    BY <1>3, RowTypeLemma
  <1>5. e[a].pending = d[a].pending + delta
    BY <1>1, <1>3, AdjustPendingRowLemma
  <1> QED
    BY <1>1, <1>2, <1>4, <1>5 DEF P, e
-----------------------------------------------------------------------------
(* The payments of a pair.                                                 *)

Payments == [PaymentId -> InvoicePayment \cup {NoPayment}]

PendingSum(p, team, forTeam) == Amounts(p, PaymentRows(p, team, forTeam, {"PENDING"}))
PaidSum(p, team, forTeam, days) == Amounts(p, AcceptedOn(p, team, forTeam, days))

(* What one row adds to them.                                              *)
PendingPart(row, team, forTeam) ==
  IF /\ row # NoPayment /\ row.status = "PENDING"
     /\ row.team = team /\ row.forTeam = forTeam
  THEN row.amount ELSE 0

PaidPart(row, team, forTeam, days) ==
  IF /\ row # NoPayment /\ row.status = "ACCEPTED"
     /\ row.team = team /\ row.forTeam = forTeam /\ row.acceptedAt \cap days # {}
  THEN row.amount ELSE 0

PendingParts(p, team, forTeam) == [id \in PaymentId |-> PendingPart(p[id], team, forTeam)]
PaidParts(p, team, forTeam, days) ==
  [id \in PaymentId |-> PaidPart(p[id], team, forTeam, days)]

(* The amounts of some payments, as a sum over all ids in which the other  *)
(* ids count for nothing.                                                  *)
LEMMA AmountsLemma ==
  ASSUME NEW p \in Payments, NEW ids, ids \subseteq PaymentId,
         \A id \in ids : p[id] # NoPayment,
         NEW part, \A id \in ids : part[id] = p[id].amount,
         \A id \in PaymentId \ ids : part[id] = 0
  PROVE  /\ \A id \in PaymentId : part[id] \in Int
         /\ Amounts(p, ids) = SumFunctionOnSet(part, PaymentId)
  <1> DEFINE fun == [id \in ids |-> p[id].amount]
  <1>1. \A id \in ids : p[id].amount \in Int
    BY DEF Payments, InvoicePayment
  <1>2. Amounts(p, ids) = SumFunctionOnSet(fun, ids)
    BY SumFunctionLemma DEF Amounts
  <1>3. \A id \in ids : fun[id] \in Int /\ part[id] = fun[id]
    BY <1>1
  <1>4. \A id \in PaymentId : part[id] \in Int
    BY <1>1
  <1> HIDE DEF fun
  <1>5. SumFunctionOnSet(part, PaymentId) = SumFunctionOnSet(fun, ids)
    BY <1>3, ViewsAssumption, SumPart
  <1> QED
    BY <1>2, <1>4, <1>5

(* This is so of the pending payments of a pair ...                        *)
LEMMA PendingSumLemma ==
  ASSUME NEW p \in Payments, NEW team \in Readers, NEW forTeam \in Readers
  PROVE  /\ \A id \in PaymentId : PendingParts(p, team, forTeam)[id] \in Int
         /\ PendingSum(p, team, forTeam)
              = SumFunctionOnSet(PendingParts(p, team, forTeam), PaymentId)
  <1> DEFINE part == PendingParts(p, team, forTeam)
             ids == PaymentRows(p, team, forTeam, {"PENDING"})
  <1>1. /\ ids \subseteq PaymentId
        /\ \A id \in PaymentId :
             id \in ids <=> /\ p[id] # NoPayment /\ p[id].status = "PENDING"
                            /\ p[id].team = team /\ p[id].forTeam = forTeam
    BY DEF PaymentRows, Readers
  <1>2. /\ \A id \in ids : p[id] # NoPayment /\ part[id] = p[id].amount
        /\ \A id \in PaymentId \ ids : part[id] = 0
    BY <1>1 DEF PendingPart, PendingParts
  <1> HIDE DEF part, ids
  <1>3. /\ \A id \in PaymentId : part[id] \in Int
        /\ Amounts(p, ids) = SumFunctionOnSet(part, PaymentId)
    BY <1>1, <1>2, AmountsLemma
  <1> QED
    BY <1>3 DEF part, ids, PendingSum

(* ... and of the payments accepted on some days.                          *)
LEMMA PaidSumLemma ==
  ASSUME NEW p \in Payments, NEW team \in Readers, NEW forTeam \in Readers, NEW days
  PROVE  /\ \A id \in PaymentId : PaidParts(p, team, forTeam, days)[id] \in Int
         /\ PaidSum(p, team, forTeam, days)
              = SumFunctionOnSet(PaidParts(p, team, forTeam, days), PaymentId)
  <1> DEFINE part == PaidParts(p, team, forTeam, days)
             ids == AcceptedOn(p, team, forTeam, days)
  <1>1. /\ ids \subseteq PaymentId
        /\ \A id \in PaymentId :
             id \in ids <=> /\ p[id] # NoPayment /\ p[id].status = "ACCEPTED"
                            /\ p[id].team = team /\ p[id].forTeam = forTeam
                            /\ p[id].acceptedAt \cap days # {}
    BY DEF AcceptedOn, PaymentRows, Readers
  <1>2. /\ \A id \in ids : p[id] # NoPayment /\ part[id] = p[id].amount
        /\ \A id \in PaymentId \ ids : part[id] = 0
    BY <1>1 DEF PaidPart, PaidParts
  <1> HIDE DEF part, ids
  <1>3. /\ \A id \in PaymentId : part[id] \in Int
        /\ Amounts(p, ids) = SumFunctionOnSet(part, PaymentId)
    BY <1>1, <1>2, AmountsLemma
  <1> QED
    BY <1>3 DEF part, ids, PaidSum

(* A change of one row changes them by that row's parts.                   *)
LEMMA PaymentChange ==
  ASSUME NEW p \in Payments, NEW q \in Payments, NEW id \in PaymentId,
         \A i \in PaymentId : i # id => q[i] = p[i],
         NEW team \in Readers, NEW forTeam \in Readers, NEW days
  PROVE  /\ PendingSum(p, team, forTeam) \in Int /\ PaidSum(p, team, forTeam, days) \in Int
         /\ PendingSum(q, team, forTeam)
              = PendingSum(p, team, forTeam) - PendingPart(p[id], team, forTeam)
                  + PendingPart(q[id], team, forTeam)
         /\ PaidSum(q, team, forTeam, days)
              = PaidSum(p, team, forTeam, days) - PaidPart(p[id], team, forTeam, days)
                  + PaidPart(q[id], team, forTeam, days)
  <1> DEFINE f1 == PendingParts(p, team, forTeam)
             g1 == PendingParts(q, team, forTeam)
             f2 == PaidParts(p, team, forTeam, days)
             g2 == PaidParts(q, team, forTeam, days)
  <1>1. /\ f1[id] = PendingPart(p[id], team, forTeam)
        /\ g1[id] = PendingPart(q[id], team, forTeam)
        /\ f2[id] = PaidPart(p[id], team, forTeam, days)
        /\ g2[id] = PaidPart(q[id], team, forTeam, days)
        /\ \A i \in PaymentId : i # id => g1[i] = f1[i] /\ g2[i] = f2[i]
    BY DEF PendingParts, PaidParts
  <1>2. /\ \A i \in PaymentId : f1[i] \in Int
        /\ PendingSum(p, team, forTeam) = SumFunctionOnSet(f1, PaymentId)
    BY PendingSumLemma
  <1>3. /\ \A i \in PaymentId : g1[i] \in Int
        /\ PendingSum(q, team, forTeam) = SumFunctionOnSet(g1, PaymentId)
    BY PendingSumLemma
  <1>4. /\ \A i \in PaymentId : f2[i] \in Int
        /\ PaidSum(p, team, forTeam, days) = SumFunctionOnSet(f2, PaymentId)
    BY PaidSumLemma
  <1>5. /\ \A i \in PaymentId : g2[i] \in Int
        /\ PaidSum(q, team, forTeam, days) = SumFunctionOnSet(g2, PaymentId)
    BY PaidSumLemma
  <1>6. IsFiniteSet(PaymentId)
    BY ViewsAssumption
  <1> HIDE DEF f1, g1, f2, g2
  <1>7. /\ SumFunctionOnSet(f1, PaymentId) \in Int
        /\ SumFunctionOnSet(g1, PaymentId) = SumFunctionOnSet(f1, PaymentId) - f1[id] + g1[id]
    BY <1>1, <1>2, <1>3, <1>6, SumChange
  <1>8. /\ SumFunctionOnSet(f2, PaymentId) \in Int
        /\ SumFunctionOnSet(g2, PaymentId) = SumFunctionOnSet(f2, PaymentId) - f2[id] + g2[id]
    BY <1>1, <1>4, <1>5, <1>6, SumChange
  <1> QED
    BY <1>1, <1>2, <1>3, <1>4, <1>5, <1>7, <1>8
-----------------------------------------------------------------------------
(* The inductive invariant of the views: besides the books, what the rows  *)
(* record, that what is pending of a pair is the amount of its pending     *)
(* payments, and, unless somebody posts PAYMENT changes by hand or asks    *)
(* for a payment of less than nothing, that what was paid is in the log.   *)

PaidBooked(d, p) ==
  /\ \A id \in PaymentId : p[id] # NoPayment => p[id].amount >= 0
  /\ \A team, forTeam \in Readers, days \in SUBSET Day : team # forTeam =>
       PaidSum(p, team, forTeam, days) - PaidSum(p, forTeam, team, days)
         = PaidMoves(d, team, forTeam, days)

OnlyPaid == "PAYMENT" \notin PostKind /\ PayAmount \subseteq Nat

PaymentViews(d, p) ==
  /\ \A id \in PaymentId : p[id].status = "ACCEPTED" =>
       \E day \in Day : p[id].acceptedAt = {day}
  /\ \A team, forTeam \in Readers : team # forTeam =>
       d[<<team, forTeam, "PAYABLE">>].pending = PendingSum(p, team, forTeam)
  /\ OnlyPaid => PaidBooked(d, p)

ViewInv == LedgerInv /\ Viewed(db) /\ PaymentViews(db, payments)

(* The invariant holds of the empty tables.                                *)
LEMMA InitViewInv == Init => ViewInv
  <1> SUFFICES ASSUME Init PROVE ViewInv
    OBVIOUS
  <1>1. \A a \in Account : db[a] = NoAccount
    BY DEF Init, EmptyLedger
  <1>2. Viewed(db)
    BY <1>1, NoAccountViews DEF Viewed
  <1>3. payments \in Payments /\ \A id \in PaymentId : payments[id] = NoPayment
    BY DEF Init, Payments
  <1>4. ASSUME NEW team \in Readers, NEW forTeam \in Readers, NEW days
        PROVE  /\ PendingSum(payments, team, forTeam) = 0
               /\ PaidSum(payments, team, forTeam, days) = 0
    <2>1. PaymentRows(payments, team, forTeam, {"PENDING"}) = {}
      BY <1>3 DEF PaymentRows
    <2>2. AcceptedOn(payments, team, forTeam, days) = {}
      BY <1>3 DEF AcceptedOn, PaymentRows
    <2>3. Amounts(payments, {}) = 0
      BY SumFunctionLemma, SumEmpty DEF Amounts
    <2> QED
      BY <2>1, <2>2, <2>3 DEF PendingSum, PaidSum
  <1>5. ASSUME NEW team \in Readers, NEW forTeam \in Readers, NEW days
        PROVE  /\ db[<<team, forTeam, "PAYABLE">>].pending = 0
               /\ PaidMoves(db, team, forTeam, days) = 0
    <2>1. /\ <<team, forTeam, "PAYABLE">> \in Account
          /\ <<team, forTeam, "RECEIVABLE">> \in Account
      BY DEF Readers, Account, BalanceType
    <2>2. NoAccount.log \in Seq(LogEntry) /\ DOMAIN NoAccount.log = {}
      BY EmptyLedgerLemma, RowTypeLemma DEF NoAccount
    <2>3. EntrySum(NoAccount.log, PaidOn(days)) = 0
      BY <2>2, EntrySumType
    <2> QED
      BY <1>1, <2>1, <2>3 DEF PaidMoves, PaidIn, NoAccount
  <1>6. PaymentViews(db, payments)
    <2>1. PaidBooked(db, payments)
      <3>1. ASSUME NEW team \in Readers, NEW forTeam \in Readers, NEW days
            PROVE  PaidSum(payments, team, forTeam, days) - PaidSum(payments, forTeam, team, days)
                     = PaidMoves(db, team, forTeam, days)
        <4>1. /\ PaidSum(payments, team, forTeam, days) = 0
              /\ PaidSum(payments, forTeam, team, days) = 0
              /\ PaidMoves(db, team, forTeam, days) = 0
          BY <1>4, <1>5
        <4> QED
          BY <4>1
      <3> QED
        BY <1>3, <3>1 DEF PaidBooked
    <2>2. \A id \in PaymentId : payments[id].status # "ACCEPTED"
      BY <1>3 DEF NoPayment
    <2>3. \A team, forTeam \in Readers :
            db[<<team, forTeam, "PAYABLE">>].pending = PendingSum(payments, team, forTeam)
      BY <1>4, <1>5
    <2> QED
      BY <2>1, <2>2, <2>3 DEF PaymentViews
  <1> QED
    BY <1>2, <1>6, InitLedgerInv DEF ViewInv

(* A double entry of another kind than PAYMENT moves nothing that was paid.*)
LEMMA OtherKindPaidMoves ==
  ASSUME NEW d \in Ledgers, NEW a \in Account, NEW kind \in ChangeType, kind # "PAYMENT",
         NEW amount \in Int, NEW day \in Day, NEW ref \in Ref, NEW days,
         NEW team \in Team, NEW forTeam \in Team
  PROVE  PaidMoves(postDoubleEntry(d, a, kind, amount, day, ref), team, forTeam, days)
           = PaidMoves(d, team, forTeam, days)
  <1> DEFINE e == postDoubleEntry(d, a, kind, amount, day, ref)
  <1>1. ASSUME NEW b \in Account PROVE PaidIn(e, b, days) = PaidIn(d, b, days)
    BY DoubleEntryPaidIn
  <1>2. /\ <<team, forTeam, "PAYABLE">> \in Account
        /\ <<team, forTeam, "RECEIVABLE">> \in Account
    BY DEF Account, BalanceType
  <1> HIDE DEF e
  <1>3. PaidMoves(e, team, forTeam, days) = PaidMoves(d, team, forTeam, days)
    BY <1>1, <1>2 DEF PaidMoves
  <1> QED
    BY <1>3 DEF e

(* A posting by hand keeps it: one of PAYMENT changes is excluded where it *)
(* matters.                                                                *)
LEMMA CreateBalanceLogViews ==
  ASSUME ViewInv, NEW x, NEW y, NEW bt, NEW kind \in PostKind,
         NEW amount \in PostAmount, NEW day \in Day,
         x \in Team \cup {NoTeam}, y \in Team \cup {NoTeam},
         CreateBalanceLog(x, y, bt, kind, amount, day)
  PROVE  Viewed(db') /\ PaymentViews(db', payments')
  <1> DEFINE a == <<x, y, bt>>
  <1>1. /\ a \in Account /\ kind \in ChangeType /\ amount \in Int /\ NoRef \in Ref
        /\ db' = postDoubleEntry(db, a, kind, amount, day, NoRef)
        /\ payments' = payments
    BY LedgerAssumption, RefAssumption DEF CreateBalanceLog, ValidPosting, Account
  <1>2. Books(db) /\ db \in Ledgers /\ Viewed(db) /\ PaymentViews(db, payments)
    BY DEF ViewInv, LedgerInv, Books
  <1> HIDE DEF a
  <1>3. Viewed(db')
    BY <1>1, <1>2, PostDoubleEntryViews
  <1>4. ASSUME NEW team \in Readers, NEW forTeam \in Readers
        PROVE  /\ db'[<<team, forTeam, "PAYABLE">>].pending
                    = db[<<team, forTeam, "PAYABLE">>].pending
               /\ \A days : OnlyPaid => PaidMoves(db', team, forTeam, days)
                                          = PaidMoves(db, team, forTeam, days)
    <2>1. team \in Team /\ forTeam \in Team
      BY DEF Readers
    <2>2. <<team, forTeam, "PAYABLE">> \in Account
      BY <2>1 DEF Account, BalanceType
    <2>3. db'[<<team, forTeam, "PAYABLE">>].pending
            = db[<<team, forTeam, "PAYABLE">>].pending
      BY <1>1, <1>2, <2>2, PostDoubleEntryPending
    <2>4. ASSUME NEW days, OnlyPaid
          PROVE  PaidMoves(db', team, forTeam, days) = PaidMoves(db, team, forTeam, days)
      <3>1. kind # "PAYMENT"
        BY <2>4 DEF OnlyPaid
      <3> QED
        BY <1>1, <1>2, <2>1, <3>1, OtherKindPaidMoves
    <2> QED
      BY <2>3, <2>4
  <1>5. PaymentViews(db', payments')
    <2>1. ASSUME NEW team \in Readers, NEW forTeam \in Readers, team # forTeam
          PROVE  db'[<<team, forTeam, "PAYABLE">>].pending
                   = PendingSum(payments', team, forTeam)
      BY <1>1, <1>2, <1>4, <2>1 DEF PaymentViews
    <2>2. ASSUME OnlyPaid PROVE PaidBooked(db', payments')
      <3>1. PaidBooked(db, payments) /\ payments' = payments
        BY <1>1, <1>2, <2>2 DEF PaymentViews
      <3>2. ASSUME NEW team \in Readers, NEW forTeam \in Readers, NEW days \in SUBSET Day,
                   team # forTeam
            PROVE  PaidSum(payments', team, forTeam, days) - PaidSum(payments', forTeam, team, days)
                     = PaidMoves(db', team, forTeam, days)
        <4>1. PaidMoves(db', team, forTeam, days) = PaidMoves(db, team, forTeam, days)
          BY <1>4, <2>2
        <4>2. PaidSum(payments, team, forTeam, days) - PaidSum(payments, forTeam, team, days)
                = PaidMoves(db, team, forTeam, days)
          BY <3>1, <3>2 DEF PaidBooked
        <4> QED
          BY <3>1, <4>1, <4>2
      <3> QED
        BY <3>1, <3>2 DEF PaidBooked
    <2> QED
      BY <1>1, <1>2, <2>1, <2>2 DEF PaymentViews
  <1> QED
    BY <1>3, <1>5

(* The steps of a payment: what is pending and what was paid move with its *)
(* row.                                                                    *)
LEMMA PaymentViewsStep ==
  ASSUME NEW d, NEW e, NEW p \in Payments, NEW q \in Payments, NEW id \in PaymentId,
         \A i \in PaymentId : i # id => q[i] = p[i],
         PaymentViews(d, p),
         q[id].status = "ACCEPTED" => \E day \in Day : q[id].acceptedAt = {day},
         OnlyPaid /\ q[id] # NoPayment => q[id].amount >= 0,
         \A team, forTeam \in Readers : team # forTeam =>
           e[<<team, forTeam, "PAYABLE">>].pending
             = d[<<team, forTeam, "PAYABLE">>].pending
                 - PendingPart(p[id], team, forTeam) + PendingPart(q[id], team, forTeam),
         OnlyPaid => \A team, forTeam \in Readers, days \in SUBSET Day : team # forTeam =>
           PaidMoves(e, team, forTeam, days)
             = PaidMoves(d, team, forTeam, days)
                 + (PaidPart(q[id], team, forTeam, days) - PaidPart(p[id], team, forTeam, days))
                 - (PaidPart(q[id], forTeam, team, days) - PaidPart(p[id], forTeam, team, days))
  PROVE  PaymentViews(e, q)
  <1>1. ASSUME NEW i \in PaymentId, q[i].status = "ACCEPTED"
        PROVE  \E day \in Day : q[i].acceptedAt = {day}
    BY <1>1 DEF PaymentViews
  <1>2. ASSUME NEW team \in Readers, NEW forTeam \in Readers, team # forTeam
        PROVE  e[<<team, forTeam, "PAYABLE">>].pending = PendingSum(q, team, forTeam)
    <2>1. PendingSum(q, team, forTeam)
            = PendingSum(p, team, forTeam) - PendingPart(p[id], team, forTeam)
                + PendingPart(q[id], team, forTeam)
      BY PaymentChange
    <2>2. d[<<team, forTeam, "PAYABLE">>].pending = PendingSum(p, team, forTeam)
      BY <1>2 DEF PaymentViews
    <2> QED
      BY <1>2, <2>1, <2>2
  <1>3. ASSUME OnlyPaid PROVE PaidBooked(e, q)
    <2>1. PaidBooked(d, p)
      BY <1>3 DEF PaymentViews
    <2>2. ASSUME NEW i \in PaymentId, q[i] # NoPayment PROVE q[i].amount >= 0
      BY <1>3, <2>1, <2>2 DEF PaidBooked
    <2>3. ASSUME NEW team \in Readers, NEW forTeam \in Readers, NEW days
          PROVE  /\ PaidSum(p, team, forTeam, days) \in Int
                 /\ PaidPart(p[id], team, forTeam, days) \in Int
                 /\ PaidPart(q[id], team, forTeam, days) \in Int
                 /\ PaidSum(q, team, forTeam, days)
                      = PaidSum(p, team, forTeam, days) - PaidPart(p[id], team, forTeam, days)
                          + PaidPart(q[id], team, forTeam, days)
      <3>1. /\ PaidPart(p[id], team, forTeam, days) \in Int
            /\ PaidPart(q[id], team, forTeam, days) \in Int
        BY DEF PaidPart, Payments, InvoicePayment
      <3> QED
        BY <3>1, PaymentChange
    <2>4. ASSUME NEW team \in Readers, NEW forTeam \in Readers, NEW days \in SUBSET Day,
                 team # forTeam
          PROVE  PaidSum(q, team, forTeam, days) - PaidSum(q, forTeam, team, days)
                   = PaidMoves(e, team, forTeam, days)
      <3>1. PaidSum(p, team, forTeam, days) - PaidSum(p, forTeam, team, days)
              = PaidMoves(d, team, forTeam, days)
        BY <2>1, <2>4 DEF PaidBooked
      <3>2. PaidMoves(e, team, forTeam, days)
              = PaidMoves(d, team, forTeam, days)
                 + (PaidPart(q[id], team, forTeam, days) - PaidPart(p[id], team, forTeam, days))
                 - (PaidPart(q[id], forTeam, team, days) - PaidPart(p[id], forTeam, team, days))
        BY <1>3, <2>4
      <3>3. /\ PaidSum(p, team, forTeam, days) \in Int
            /\ PaidSum(p, forTeam, team, days) \in Int
            /\ PaidPart(p[id], team, forTeam, days) \in Int
            /\ PaidPart(q[id], team, forTeam, days) \in Int
            /\ PaidPart(p[id], forTeam, team, days) \in Int
            /\ PaidPart(q[id], forTeam, team, days) \in Int
        BY <2>3
      <3>4. /\ PaidSum(q, team, forTeam, days)
                 = PaidSum(p, team, forTeam, days) - PaidPart(p[id], team, forTeam, days)
                     + PaidPart(q[id], team, forTeam, days)
            /\ PaidSum(q, forTeam, team, days)
                 = PaidSum(p, forTeam, team, days) - PaidPart(p[id], forTeam, team, days)
                     + PaidPart(q[id], forTeam, team, days)
        BY <2>3
      <3> QED
        BY <3>1, <3>2, <3>3, <3>4
    <2> QED
      BY <2>2, <2>4 DEF PaidBooked
  <1> QED
    BY <1>1, <1>2, <1>3 DEF PaymentViews
(* Moving an in-flight amount moves what is pending of its pair alone.     *)
LEMMA AdjustedPending ==
  ASSUME NEW d \in Ledgers, NEW x \in Team, NEW y \in Team, NEW delta \in Int,
         NEW team \in Readers, NEW forTeam \in Readers
  PROVE  /\ d[<<team, forTeam, "PAYABLE">>].pending \in Int
         /\ adjustPendingPair(d, x, y, delta)[<<team, forTeam, "PAYABLE">>].pending
              = d[<<team, forTeam, "PAYABLE">>].pending
                  + (IF team = x /\ forTeam = y THEN delta ELSE 0)
  <1>1. team \in Team /\ forTeam \in Team
    BY DEF Readers
  <1> QED
    BY <1>1, AdjustPendingPairPending

(* An adjustment of what is in flight books no PAYMENT change.             *)
LEMMA AdjustedPaid ==
  ASSUME NEW d \in Ledgers, NEW x \in Team, NEW y \in Team, NEW delta \in Int,
         NEW team \in Readers, NEW forTeam \in Readers, NEW days
  PROVE  /\ PaidMoves(d, team, forTeam, days) \in Int
         /\ PaidMoves(adjustPendingPair(d, x, y, delta), team, forTeam, days)
              = PaidMoves(d, team, forTeam, days)
  <1> DEFINE e == adjustPendingPair(d, x, y, delta)
  <1>1. /\ <<team, forTeam, "PAYABLE">> \in Account
        /\ <<team, forTeam, "RECEIVABLE">> \in Account
    BY DEF Readers, Account, BalanceType
  <1>2. \A b \in Account : e[b].log = d[b].log
    BY AdjustPendingPairLogs
  <1>3. ASSUME NEW b \in Account
        PROVE  PaidIn(e, b, days) = PaidIn(d, b, days) /\ PaidIn(d, b, days) \in Int
    <2>1. d[b].log \in Seq(LogEntry)
      BY RowTypeLemma DEF Ledgers
    <2> QED
      BY <1>2, <2>1, EntrySumType DEF PaidIn
  <1> QED
    BY <1>1, <1>3 DEF PaidMoves

(* A new payment is pending, and in flight at both of its teams.           *)
LEMMA CreatePaymentViews ==
  ASSUME ViewInv, NEW id \in PaymentId, NEW x \in Team, NEW y \in Team,
         NEW amount \in PayAmount, CreatePayment(id, x, y, amount)
  PROVE  Viewed(db') /\ PaymentViews(db', payments')
  <1>1. /\ Books(db) /\ db \in Ledgers /\ Viewed(db) /\ PaymentViews(db, payments)
        /\ payments \in Payments /\ amount \in Int
    BY LedgerAssumption DEF ViewInv, LedgerInv, Books, PaymentsOK, Payments
  <1>2. /\ payments[id] = NoPayment
        /\ payments' = [payments EXCEPT ![id] =
             [status |-> "PENDING", team |-> x, forTeam |-> y,
              amount |-> amount, acceptedAt |-> {}]]
        /\ db' = adjustPendingPair(db, x, y, amount)
    BY DEF CreatePayment
  <1>3. /\ payments' \in Payments
        /\ \A i \in PaymentId : i # id => payments'[i] = payments[i]
        /\ payments'[id].status = "PENDING" /\ payments'[id] # NoPayment
        /\ payments'[id].amount = amount
        /\ payments'[id].team = x /\ payments'[id].forTeam = y
    BY <1>1, <1>2 DEF Payments, InvoicePayment, NoPayment
  <1>4. Viewed(db')
    BY <1>1, <1>2, AdjustPendingPairViews
  <1>5. ASSUME NEW team, NEW forTeam, NEW days
        PROVE  /\ PendingPart(payments[id], team, forTeam) = 0
               /\ PendingPart(payments'[id], team, forTeam)
                    = (IF team = x /\ forTeam = y THEN amount ELSE 0)
               /\ PaidPart(payments[id], team, forTeam, days) = 0
               /\ PaidPart(payments'[id], team, forTeam, days) = 0
    BY <1>2, <1>3 DEF PendingPart, PaidPart
  <1>6. ASSUME NEW team \in Readers, NEW forTeam \in Readers
        PROVE  db'[<<team, forTeam, "PAYABLE">>].pending
                 = db[<<team, forTeam, "PAYABLE">>].pending
                     - PendingPart(payments[id], team, forTeam)
                     + PendingPart(payments'[id], team, forTeam)
    <2>1. /\ db[<<team, forTeam, "PAYABLE">>].pending \in Int
          /\ db'[<<team, forTeam, "PAYABLE">>].pending
               = db[<<team, forTeam, "PAYABLE">>].pending
                   + (IF team = x /\ forTeam = y THEN amount ELSE 0)
      BY <1>1, <1>2, AdjustedPending
    <2> QED
      BY <1>1, <1>5, <2>1
  <1>7. ASSUME NEW team \in Readers, NEW forTeam \in Readers, NEW days \in SUBSET Day
        PROVE  PaidMoves(db', team, forTeam, days)
                 = PaidMoves(db, team, forTeam, days)
                     + (PaidPart(payments'[id], team, forTeam, days)
                          - PaidPart(payments[id], team, forTeam, days))
                     - (PaidPart(payments'[id], forTeam, team, days)
                          - PaidPart(payments[id], forTeam, team, days))
    <2>1. /\ PaidMoves(db, team, forTeam, days) \in Int
          /\ PaidMoves(db', team, forTeam, days) = PaidMoves(db, team, forTeam, days)
      BY <1>1, <1>2, AdjustedPaid
    <2> QED
      BY <1>5, <2>1
  <1>8. OnlyPaid => payments'[id].amount >= 0
    BY <1>3 DEF OnlyPaid
  <1>9. payments'[id].status = "ACCEPTED" => \E day \in Day : payments'[id].acceptedAt = {day}
    BY <1>3
  <1> DEFINE q == payments'
             e == db'
  <1>10. PaymentViews(e, q)
    <2>1. /\ payments \in Payments /\ q \in Payments
          /\ \A i \in PaymentId : i # id => q[i] = payments[i]
          /\ PaymentViews(db, payments)
          /\ q[id].status = "ACCEPTED" => \E day \in Day : q[id].acceptedAt = {day}
          /\ OnlyPaid /\ q[id] # NoPayment => q[id].amount >= 0
      BY <1>1, <1>3, <1>8, <1>9
    <2>2. \A team, forTeam \in Readers : team # forTeam =>
            e[<<team, forTeam, "PAYABLE">>].pending
              = db[<<team, forTeam, "PAYABLE">>].pending
                  - PendingPart(payments[id], team, forTeam) + PendingPart(q[id], team, forTeam)
      BY <1>6
    <2>3. OnlyPaid => \A team, forTeam \in Readers, days \in SUBSET Day : team # forTeam =>
            PaidMoves(e, team, forTeam, days)
              = PaidMoves(db, team, forTeam, days)
                  + (PaidPart(q[id], team, forTeam, days) - PaidPart(payments[id], team, forTeam, days))
                  - (PaidPart(q[id], forTeam, team, days) - PaidPart(payments[id], forTeam, team, days))
      BY <1>7
    <2> HIDE DEF q, e
    <2> QED
      BY <2>1, <2>2, <2>3, PaymentViewsStep
  <1> QED
    BY <1>4, <1>10

(* A rejected payment is neither pending nor in flight any more.           *)
LEMMA RejectPaymentViews ==
  ASSUME ViewInv, NEW id \in PaymentId, NEW x \in Team, NEW y \in Team,
         RejectPayment(id, x, y)
  PROVE  Viewed(db') /\ PaymentViews(db', payments')
  <1> DEFINE p == payments[id]
             amount == p.amount
  <1>1. /\ Books(db) /\ db \in Ledgers /\ Viewed(db) /\ PaymentViews(db, payments)
        /\ payments \in Payments
    BY DEF ViewInv, LedgerInv, Books, PaymentsOK, Payments
  <1>2. /\ p \in InvoicePayment /\ p # NoPayment /\ p.status = "PENDING"
        /\ p.team = x /\ p.forTeam = y /\ amount \in Int /\ -amount \in Int
        /\ db' = adjustPendingPair(db, x, y, -amount)
        /\ payments' = [payments EXCEPT ![id].status = "REJECTED"]
    BY PendingLemma DEF RejectPayment, loadPendingPayment, ViewInv, LedgerInv
  <1>3. /\ payments' \in Payments
        /\ \A i \in PaymentId : i # id => payments'[i] = payments[i]
        /\ payments'[id].status = "REJECTED" /\ payments'[id].amount = amount
    BY <1>1, <1>2 DEF Payments, InvoicePayment
  <1>4. Viewed(db')
    BY <1>1, <1>2, AdjustPendingPairViews
  <1>5. ASSUME NEW team, NEW forTeam, NEW days
        PROVE  /\ PendingPart(payments[id], team, forTeam)
                    = (IF team = x /\ forTeam = y THEN amount ELSE 0)
               /\ PendingPart(payments'[id], team, forTeam) = 0
               /\ PaidPart(payments[id], team, forTeam, days) = 0
               /\ PaidPart(payments'[id], team, forTeam, days) = 0
    BY <1>2, <1>3 DEF PendingPart, PaidPart
  <1> HIDE DEF p, amount
  <1>6. ASSUME NEW team \in Readers, NEW forTeam \in Readers
        PROVE  db'[<<team, forTeam, "PAYABLE">>].pending
                 = db[<<team, forTeam, "PAYABLE">>].pending
                     - PendingPart(payments[id], team, forTeam)
                     + PendingPart(payments'[id], team, forTeam)
    <2>1. /\ db[<<team, forTeam, "PAYABLE">>].pending \in Int
          /\ db'[<<team, forTeam, "PAYABLE">>].pending
               = db[<<team, forTeam, "PAYABLE">>].pending
                   + (IF team = x /\ forTeam = y THEN -amount ELSE 0)
      BY <1>1, <1>2, AdjustedPending
    <2> QED
      BY <1>2, <1>5, <2>1
  <1>7. ASSUME NEW team \in Readers, NEW forTeam \in Readers, NEW days \in SUBSET Day
        PROVE  PaidMoves(db', team, forTeam, days)
                 = PaidMoves(db, team, forTeam, days)
                     + (PaidPart(payments'[id], team, forTeam, days)
                          - PaidPart(payments[id], team, forTeam, days))
                     - (PaidPart(payments'[id], forTeam, team, days)
                          - PaidPart(payments[id], forTeam, team, days))
    <2>1. /\ PaidMoves(db, team, forTeam, days) \in Int
          /\ PaidMoves(db', team, forTeam, days) = PaidMoves(db, team, forTeam, days)
      BY <1>1, <1>2, AdjustedPaid
    <2> QED
      BY <1>5, <2>1
  <1>8. OnlyPaid => payments'[id].amount >= 0
    <2>1. OnlyPaid => p.amount >= 0
      BY <1>1, <1>2 DEF PaymentViews, PaidBooked, p
    <2> QED
      BY <1>3, <2>1 DEF amount
  <1>9. PaymentViews(db', payments')
    BY <1>1, <1>3, <1>6, <1>7, <1>8, PaymentViewsStep
  <1> QED
    BY <1>4, <1>9

(* An accepted payment leaves the flight and is booked in full on the day  *)
(* it is accepted.                                                         *)
LEMMA AcceptPaymentViews ==
  ASSUME ViewInv, NEW id \in PaymentId, NEW x \in Team, NEW y \in Team,
         NEW day \in Day, AcceptPayment(id, x, y, day)
  PROVE  Viewed(db') /\ PaymentViews(db', payments')
  <1> DEFINE p == payments[id]
             amount == p.amount
             e == settle(db, id, p, day)
  <1>1. /\ Books(db) /\ db \in Ledgers /\ Viewed(db) /\ PaymentViews(db, payments)
        /\ payments \in Payments /\ id \in Ref
    BY LedgerAssumption DEF ViewInv, LedgerInv, Books, PaymentsOK, Payments
  <1>2. /\ p \in InvoicePayment /\ p # NoPayment /\ p.status = "PENDING" /\ x # y
        /\ p.team = x /\ p.forTeam = y /\ amount \in Int /\ -amount \in Int
        /\ db' = adjustPendingPair(e, x, y, -amount)
        /\ payments' = [payments EXCEPT
             ![id] = [p EXCEPT !.status = "ACCEPTED", !.acceptedAt = {day}]]
    <2>1. loadPendingPayment(id, x, y)
      BY DEF AcceptPayment
    <2>2. /\ p \in InvoicePayment /\ p # NoPayment /\ p.status = "PENDING" /\ x # y
          /\ p.team = x /\ p.forTeam = y /\ amount \in Int
      BY <2>1, PendingLemma DEF loadPendingPayment, ViewInv, LedgerInv
    <2>3. -amount \in Int
      BY <2>2
    <2> QED
      BY <2>2, <2>3 DEF AcceptPayment
  <1>3. /\ payments' \in Payments
        /\ \A i \in PaymentId : i # id => payments'[i] = payments[i]
        /\ payments'[id] # NoPayment
        /\ payments'[id].status = "ACCEPTED" /\ payments'[id].amount = amount
        /\ payments'[id].team = x /\ payments'[id].forTeam = y
        /\ payments'[id].acceptedAt = {day}
    <2> DEFINE q == [p EXCEPT !.status = "ACCEPTED", !.acceptedAt = {day}]
    <2>1. /\ q \in InvoicePayment /\ q.status = "ACCEPTED" /\ q.amount = amount
          /\ q.team = x /\ q.forTeam = y /\ q.acceptedAt = {day}
      BY <1>2 DEF InvoicePayment
    <2>2. payments' = [payments EXCEPT ![id] = q]
      BY <1>2
    <2> HIDE DEF q
    <2>3. q # NoPayment
      BY <2>1 DEF NoPayment
    <2> QED
      BY <1>1, <2>1, <2>2, <2>3 DEF Payments
  <1>4. Books(e) /\ Viewed(e) /\ e \in Ledgers
    BY <1>1, <1>2, SettleBooks, SettleViews DEF Books
  <1>5. Viewed(db')
    <2> HIDE DEF e, p
    <2> QED
      BY <1>2, <1>4, AdjustPendingPairViews
  <1>6. ASSUME NEW team, NEW forTeam, NEW days
        PROVE  /\ PendingPart(payments[id], team, forTeam)
                    = (IF team = x /\ forTeam = y THEN amount ELSE 0)
               /\ PendingPart(payments'[id], team, forTeam) = 0
               /\ PaidPart(payments[id], team, forTeam, days) = 0
               /\ PaidPart(payments'[id], team, forTeam, days)
                    = (IF team = x /\ forTeam = y /\ day \in days THEN amount ELSE 0)
    BY <1>2, <1>3 DEF PendingPart, PaidPart
  <1>7. ASSUME NEW team \in Readers, NEW forTeam \in Readers
        PROVE  e[<<team, forTeam, "PAYABLE">>].pending
                 = db[<<team, forTeam, "PAYABLE">>].pending
    <2>1. <<team, forTeam, "PAYABLE">> \in Account
      BY DEF Readers, Account, BalanceType
    <2> QED
      BY <1>1, <1>2, <2>1, SettlePending
  <1>8. ASSUME NEW team \in Readers, NEW forTeam \in Readers, NEW days, OnlyPaid
        PROVE  /\ PaidMoves(db, team, forTeam, days) \in Int
               /\ PaidMoves(e, team, forTeam, days) =
                    PaidMoves(db, team, forTeam, days)
                      + (IF day \notin days THEN 0
                         ELSE IF team = x /\ forTeam = y THEN amount
                         ELSE IF team = y /\ forTeam = x THEN -amount ELSE 0)
    <2>1. p.amount >= 0
      BY <1>1, <1>2, <1>8 DEF PaymentViews, PaidBooked
    <2>2. team \in Team /\ forTeam \in Team
      BY DEF Readers
    <2> QED
      BY <1>1, <1>2, <2>1, <2>2, SettlePaidMoves
  <1>9. OnlyPaid => payments'[id].amount >= 0
    BY <1>1, <1>2, <1>3 DEF PaymentViews, PaidBooked
  <1> HIDE DEF p, amount, e
  <1>10. ASSUME NEW team \in Readers, NEW forTeam \in Readers
         PROVE  db'[<<team, forTeam, "PAYABLE">>].pending
                  = db[<<team, forTeam, "PAYABLE">>].pending
                      - PendingPart(payments[id], team, forTeam)
                      + PendingPart(payments'[id], team, forTeam)
    <2>1. /\ e[<<team, forTeam, "PAYABLE">>].pending \in Int
          /\ db'[<<team, forTeam, "PAYABLE">>].pending
               = e[<<team, forTeam, "PAYABLE">>].pending
                   + (IF team = x /\ forTeam = y THEN -amount ELSE 0)
      BY <1>2, <1>4, AdjustedPending
    <2> QED
      BY <1>2, <1>6, <1>7, <2>1
  <1>11. ASSUME OnlyPaid, NEW team \in Readers, NEW forTeam \in Readers,
                NEW days \in SUBSET Day
         PROVE  PaidMoves(db', team, forTeam, days)
                  = PaidMoves(db, team, forTeam, days)
                      + (PaidPart(payments'[id], team, forTeam, days)
                           - PaidPart(payments[id], team, forTeam, days))
                      - (PaidPart(payments'[id], forTeam, team, days)
                           - PaidPart(payments[id], forTeam, team, days))
    <2>1. PaidMoves(db', team, forTeam, days) = PaidMoves(e, team, forTeam, days)
      BY <1>2, <1>4, AdjustedPaid
    <2>2. /\ PaidMoves(db, team, forTeam, days) \in Int
          /\ PaidMoves(e, team, forTeam, days) =
               PaidMoves(db, team, forTeam, days)
                 + (IF day \notin days THEN 0
                    ELSE IF team = x /\ forTeam = y THEN amount
                    ELSE IF team = y /\ forTeam = x THEN -amount ELSE 0)
      BY <1>8, <1>11
    <2> QED
      BY <1>2, <1>6, <2>1, <2>2
  <1>12. PaymentViews(db', payments')
    BY <1>1, <1>3, <1>9, <1>10, <1>11, PaymentViewsStep
  <1> QED
    BY <1>5, <1>12

(* Every step keeps the invariant.                                         *)
LEMMA ViewInvStep == ViewInv /\ [Next]_vars => ViewInv'
  <1> SUFFICES ASSUME ViewInv, [Next]_vars PROVE ViewInv'
    OBVIOUS
  <1>1. ASSUME Viewed(db'), PaymentViews(db', payments') PROVE ViewInv'
    <2>1. LedgerInv'
      BY LedgerInvStep DEF ViewInv
    <2> QED
      BY <1>1, <2>1 DEF ViewInv, Viewed, PaymentViews
  <1>2. ASSUME NEW team \in Team \cup {NoTeam}, NEW forTeam \in Team \cup {NoTeam},
               NEW bt \in BalanceType \cup {"UNSPECIFIED"}, NEW kind \in PostKind,
               NEW amount \in PostAmount, NEW day \in Day,
               CreateBalanceLog(team, forTeam, bt, kind, amount, day)
        PROVE  Viewed(db') /\ PaymentViews(db', payments')
    BY <1>2, CreateBalanceLogViews
  <1>3. ASSUME NEW team \in Team, NEW forTeam \in Team, NEW id \in PaymentId,
               NEW amount \in PayAmount, CreatePayment(id, team, forTeam, amount)
        PROVE  Viewed(db') /\ PaymentViews(db', payments')
    BY <1>3, CreatePaymentViews
  <1>4. ASSUME NEW team \in Team, NEW forTeam \in Team, NEW id \in PaymentId,
               NEW day \in Day, AcceptPayment(id, team, forTeam, day)
        PROVE  Viewed(db') /\ PaymentViews(db', payments')
    BY <1>4, AcceptPaymentViews
  <1>5. ASSUME NEW team \in Team, NEW forTeam \in Team, NEW id \in PaymentId,
               RejectPayment(id, team, forTeam)
        PROVE  Viewed(db') /\ PaymentViews(db', payments')
    BY <1>5, RejectPaymentViews
  <1>6. ASSUME UNCHANGED vars PROVE Viewed(db') /\ PaymentViews(db', payments')
    BY <1>6 DEF vars, ViewInv
  <1>7. Viewed(db') /\ PaymentViews(db', payments')
    BY <1>2, <1>3, <1>4, <1>5, <1>6 DEF Next
  <1> QED
    BY <1>1, <1>7

(* Whatever is posted, paid, accepted or rejected: the daily rows record   *)
(* the changes of their days, a balance is the sum of its log, what is in  *)
(* flight of a pair is the amount of its pending payments, and what was    *)
(* paid between two teams is what the PAYMENT changes of their logs moved. *)
THEOREM LedgerViewInvariant == Spec => []ViewInv
  <1> QED
    BY InitViewInv, ViewInvStep, PTL DEF Spec
-----------------------------------------------------------------------------
(* The opening balance of a timeline.                                      *)

(* The days of some rows, one by one.                                      *)
LEMMA DaysSum ==
  ASSUME NEW r \in AccountRow, NEW D, IsFiniteSet(D)
  PROVE  /\ \A day \in D : ChangeOn(r, {day}) \in Int
         /\ SumFunctionOnSet([day \in D |-> ChangeOn(r, {day})], D) = ChangeOn(r, D)
  <1> DEFINE fun == [i \in DOMAIN r.log |-> r.log[i].change]
             key == [i \in DOMAIN r.log |-> r.log[i].day]
             S == DayIds(r, D)
             part == [day \in D |-> ChangeOn(r, {day})]
  <1>1. IsFiniteSet(S) /\ S \subseteq DOMAIN r.log /\ \A i \in S : r.log[i].change \in Int
    <2>1. S \subseteq DOMAIN r.log
      BY DEF DayIds
    <2> QED
      BY <2>1, RecordedLemma
  <1>2. \A i \in S : fun[i] \in Int /\ key[i] \in D
    BY <1>1 DEF DayIds
  <1>3. ASSUME NEW day \in D
        PROVE  /\ part[day] = SumFunctionOnSet(fun, {i \in S : key[i] = day})
               /\ ChangeOn(r, {day}) \in Int
    <2>1. DayIds(r, {day}) = {i \in S : key[i] = day} /\ DayIds(r, {day}) \subseteq DOMAIN r.log
      BY DEF DayIds
    <2>2. ChangeOn(r, {day}) \in Int
      BY <2>1, RecordedLemma DEF ChangeOn
    <2>3. ChangeOn(r, {day}) = SumFunctionOnSet(fun, DayIds(r, {day}))
      BY DEF ChangeOn, Recorded
    <2>4. part[day] = ChangeOn(r, {day})
      OBVIOUS
    <2> HIDE DEF part, fun, S, key
    <2> QED
      BY <2>1, <2>2, <2>3, <2>4
  <1>4. ChangeOn(r, D) = SumFunctionOnSet(fun, S)
    BY DEF ChangeOn, Recorded
  <1> HIDE DEF fun, key, S, part
  <1>5. SumFunctionOnSet(fun, S) = SumFunctionOnSet(part, D)
    <2>1. InParts(fun, S, key, D, part)
      BY <1>2, <1>3 DEF InParts
    <2> QED
      BY <1>1, <2>1, SumByKey
  <1> QED
    BY <1>3, <1>4, <1>5 DEF part

DaysBefore(start) == {day \in Day : day < start}

(* The days before a day are finitely many.                                *)
LEMMA DaysBeforeLemma ==
  ASSUME NEW start \in Nat
  PROVE  IsFiniteSet(DaysBefore(start)) /\ DaysBefore(start) \subseteq Day
  <1> DEFINE all == 0 .. start
             D == DaysBefore(start)
  <1>1. IsFiniteSet(all)
    BY FS_Interval
  <1>2. \A day \in D : day \in all
    <2>1. \A day \in D : day \in Nat /\ day < start
      BY ViewsAssumption DEF DaysBefore
    <2> HIDE DEF D
    <2> QED
      BY <2>1
  <1>3. \A day \in D : day \in Day
    BY DEF DaysBefore
  <1> HIDE DEF all, D
  <1>4. IsFiniteSet(D)
    <2>1. D \in SUBSET all
      BY <1>2
    <2> QED
      BY <1>1, <2>1, FS_Subset
  <1> QED
    BY <1>3, <1>4 DEF D

(* The opening balance, from the daily rows, is the replay of the log up   *)
(* to the window.                                                          *)
LEMMA OpeningLemma ==
  ASSUME NEW d \in Ledgers, Viewed(d), NEW A, A \subseteq Account, IsFiniteSet(A),
         NEW start \in Nat
  PROVE  Opening(d, A, start) = Changed(LogRows(d, A, DaysBefore(start)))
  <1> DEFINE D == DaysBefore(start)
             S == A \X D
             fun == [x \in S |-> d[x[1]].daily[x[2]].change]
             key == [x \in S |-> x[1]]
             part == [a \in A |-> ChangeOn(d[a], D)]
  <1>1. IsFiniteSet(D) /\ D \subseteq Day
    BY DaysBeforeLemma
  <1>2. IsFiniteSet(S)
    BY <1>1, FS_Product
  <1>3. Opening(d, A, start) = SumFunctionOnSet(fun, S)
    BY SumFunctionLemma DEF Opening, DaysBefore
  <1>4. \A a \in A : d[a] \in AccountRow /\ DailyAdds(d[a])
    BY DEF Ledgers, Viewed, RowViews
  <1> HIDE DEF D
  <1>5. ASSUME NEW a \in A, NEW day \in D
        PROVE  fun[<<a, day>>] = ChangeOn(d[a], {day}) /\ fun[<<a, day>>] \in Int
    <2>1. d[a].daily[day].change = ChangeOn(d[a], {day})
      BY <1>1, <1>4 DEF DailyAdds
    <2>2. ChangeOn(d[a], {day}) \in Int
      BY <1>1, <1>4, DaysSum
    <2>3. <<a, day>> \in S /\ fun[<<a, day>>] = d[a].daily[day].change
      OBVIOUS
    <2> QED
      BY <2>1, <2>2, <2>3
  <1>6. ASSUME NEW a \in A
        PROVE  part[a] = SumFunctionOnSet(fun, {x \in S : key[x] = a})
    <2> DEFINE f == [day \in D |-> <<a, day>>]
               col == [day \in D |-> ChangeOn(d[a], {day})]
               fiber == {x \in S : key[x] = a}
    <2>1. fiber = {f[day] : day \in D}
      <3>1. \A x \in S : key[x] = a <=> x = <<a, x[2]>>
        OBVIOUS
      <3>2. \A day \in D : <<a, day>> \in S /\ key[<<a, day>>] = a
        OBVIOUS
      <3>3. \A day \in D : f[day] = <<a, day>>
        OBVIOUS
      <3>4. \A x \in S : x[2] \in D
        OBVIOUS
      <3>5. \A x : x \in fiber <=> x \in S /\ key[x] = a
        OBVIOUS
      <3> HIDE DEF S, key, f, fiber
      <3>6. ASSUME NEW x \in fiber PROVE \E day \in D : x = f[day]
        <4>1. x[2] \in D /\ x = <<a, x[2]>>
          BY <3>1, <3>4, <3>5, <3>6
        <4> QED
          BY <3>3, <4>1
      <3>7. ASSUME NEW day \in D PROVE f[day] \in fiber
        BY <3>2, <3>3, <3>5
      <3> QED
        BY <3>6, <3>7
    <2>2. \A day \in D : fun[f[day]] = col[day] /\ col[day] \in Int
      BY <1>5
    <2>3. \A x, y \in D : f[x] = f[y] => x = y
      OBVIOUS
    <2>4. SumFunctionOnSet(col, D) = ChangeOn(d[a], D)
      BY <1>1, <1>4, DaysSum
    <2>5. part[a] = ChangeOn(d[a], D)
      OBVIOUS
    <2> HIDE DEF fun, f, col, S, key, fiber, part
    <2>6. SumFunctionOnSet(fun, {f[day] : day \in D}) = SumFunctionOnSet(col, D)
      BY <1>1, <2>2, <2>3, SumMap
    <2> QED
      BY <2>1, <2>4, <2>5, <2>6 DEF fiber
  <1>7. InParts(fun, S, key, A, part)
    <2>1. \A x \in S : fun[x] \in Int /\ key[x] \in A
      <3>1. \A x \in S : x = <<x[1], x[2]>> /\ x[1] \in A /\ x[2] \in D
        OBVIOUS
      <3>2. \A x \in S : key[x] = x[1]
        OBVIOUS
      <3> HIDE DEF S, key, fun
      <3> QED
        BY <1>5, <3>1, <3>2
    <2> HIDE DEF fun, S, key, part
    <2> QED
      BY <1>6, <2>1 DEF InParts
  <1>8. Changed(LogRows(d, A, D)) = SumFunctionOnSet(part, A)
    BY LogRowsSum
  <1> HIDE DEF fun, S, key, part
  <1>9. SumFunctionOnSet(fun, S) = SumFunctionOnSet(part, A)
    BY <1>2, <1>7, SumByKey
  <1> QED
    BY <1>3, <1>8, <1>9 DEF D
-----------------------------------------------------------------------------
(* The readers' totals.                                                    *)

(* The balances that the overview adds up are those that the list shows,   *)
(* one counterparty each: accounts without a row have none.                *)
LEMMA BalancesListed ==
  ASSUME NEW d \in Ledgers, Viewed(d), NEW p, NEW team \in Readers, NEW forTeam \in Filters(team),
         NEW bt \in BalanceType, NEW start, NEW end
  PROVE  /\ Balances(d, Scope(team, forTeam, bt)) \in Int
         /\ Balances(d, Scope(team, forTeam, bt))
              = SumFunction(fetchTeamBalanceData(d, p, bt, team,
                              Counterparties(forTeam, "UNSPECIFIED"), start, end))
  <1> DEFINE A == Scope(team, forTeam, bt)
             xs == Counterparties(forTeam, "UNSPECIFIED")
             ys == {x \in xs : d[<<team, x, bt>>].present}
             val == [a \in A |-> d[a].balance]
             col == [x \in ys |-> d[<<team, x, bt>>].balance]
  <1>1. /\ A \subseteq Account /\ IsFiniteSet(A) /\ A = {<<team, x, bt>> : x \in xs}
    BY ScopeLemma
  <1>2. \A a \in A : d[a] \in AccountRow /\ Dormant(d[a])
    BY <1>1 DEF Ledgers, Viewed, RowViews
  <1>3. \A a \in A : val[a] \in Int /\ (~d[a].present => val[a] = 0)
    BY <1>2, RowTypeLemma DEF Dormant, NoAccount
  <1>4. fetchTeamBalanceData(d, p, bt, team, xs, start, end) = col
    BY DEF fetchTeamBalanceData, BalanceType
  <1>5. \A x \in xs : val[<<team, x, bt>>] = d[<<team, x, bt>>].balance
    BY <1>1
  <1>6. /\ ys \subseteq xs
        /\ \A x \in ys : col[x] = val[<<team, x, bt>>]
        /\ \A x \in xs \ ys : val[<<team, x, bt>>] = 0
    BY <1>1, <1>3, <1>5
  <1>7. Balances(d, A) = SumFunctionOnSet(val, A) /\ SumFunction(col) = SumFunctionOnSet(col, ys)
    BY SumFunctionLemma DEF Balances
  <1>8. SumFunctionOnSet(val, A) \in Int
    <2> HIDE DEF val, A
    <2> QED
      BY <1>1, <1>3, SumType
  <1>9. SumFunctionOnSet(val, A) = SumFunctionOnSet(col, ys)
    <2> HIDE DEF val, col, ys
    <2> QED
      BY <1>3, <1>6, ScopeSum
  <1> QED
    BY <1>4, <1>7, <1>8, <1>9

(* The log list of a reader has the rows of its overview.                  *)
LEMMA ListedRows ==
  ASSUME NEW d, NEW team \in Readers, NEW forTeam \in Filters(team), NEW bts,
         bts \subseteq BalanceType, NEW start, NEW end
  PROVE  ListTeamBalanceLog(d, team, forTeam, bts, start, end)
           = UNION {LogRows(d, Scope(team, forTeam, bt), Between(start, end)) : bt \in bts}
  <1> DEFINE days == Between(start, end)
             Wide(bt) == LogRows(d, Scope(NoTeam, forTeam, bt), days)
             Own(bt) == LogRows(d, Scope(team, forTeam, bt), days)
  <1>1. ASSUME NEW bt \in bts
        PROVE  \A r : r \in Own(bt) <=> r \in Wide(bt) /\ r.account[1] = team
    <2> DEFINE W == Scope(NoTeam, forTeam, bt)
               A == Scope(team, forTeam, bt)
               I == [a \in W |-> DayIds(d[a], days)]
               J == [a \in A |-> DayIds(d[a], days)]
    <2>1. W \subseteq Account
      BY DEF Scope, Account, Filters, Readers, BalanceType
    <2>2. bt \in BalanceType
      OBVIOUS
    <2>3. \A a \in W : a \in A <=> a[1] = team
      <3>1. \A a \in Account :
              a \in A <=> a[1] = team /\ a[3] = bt /\ a \in W
        BY <2>2, ScopeLemma
      <3>2. \A a \in W : a[3] = bt
        BY DEF Scope
      <3> QED
        BY <2>1, <3>1, <3>2
    <2>4. A \subseteq W
      BY <2>2, ScopeLemma
    <2>5. Wide(bt) = RowsAt(d, W, I) /\ Own(bt) = RowsAt(d, A, J)
      BY LogRowsLemma
    <2>6. \A a \in A : I[a] = J[a]
      BY <2>4
    <2> HIDE DEF W, A, I, J
    <2>7. /\ \A r : r \in RowsAt(d, W, I) <=> \E a \in W : \E i \in I[a] : r = RowOf(d, a, i)
          /\ \A r : r \in RowsAt(d, A, J) <=> \E a \in A : \E i \in J[a] : r = RowOf(d, a, i)
      BY RowsAtLemma
    <2>8. \A a, i : RowOf(d, a, i).account = a
      BY DEF RowOf
    <2> QED
      BY <2>3, <2>4, <2>5, <2>6, <2>7, <2>8
  <1>2. ListTeamBalanceLog(d, team, forTeam, bts, start, end)
          = {r \in UNION {Wide(bt) : bt \in bts} : r.account[1] = team}
    BY DEF ListTeamBalanceLog
  <1> HIDE DEF Wide, Own
  <1>3. {r \in UNION {Wide(bt) : bt \in bts} : r.account[1] = team}
          = UNION {Own(bt) : bt \in bts}
    BY <1>1
  <1> QED
    BY <1>2, <1>3 DEF Own

(* The totals of the list of counterparties add up to the changes of the   *)
(* window.                                                                 *)
LEMMA TotalsListed ==
  ASSUME NEW d \in Ledgers, NEW team \in Readers, NEW forTeam \in Filters(team),
         NEW bt \in BalanceType, NEW start, NEW end, NEW list,
         list = totalChangeData(
                  ChangeTotals(d, team, Counterparties(forTeam, "UNSPECIFIED"), bt, start, end),
                  ChangeBreakdown(d, team, Counterparties(forTeam, "UNSPECIFIED"), bt, start, end))
  PROVE  SumFunction([x \in DOMAIN list |-> list[x].total])
           = Changed(LogRows(d, Scope(team, forTeam, bt), Between(start, end)))
  <1> DEFINE A == Scope(team, forTeam, bt)
             xs == Counterparties(forTeam, "UNSPECIFIED")
             days == Between(start, end)
             rows(x) == LogRows(d, {<<team, x, bt>>}, days)
             ys == {y \in xs : rows(y) # {}}
             val == [a \in A |-> ChangeOn(d[a], days)]
             col == [x \in ys |-> list[x].total]
  <1>1. A \subseteq Account /\ IsFiniteSet(A) /\ A = {<<team, x, bt>> : x \in xs}
    BY ScopeLemma
  <1>2. DOMAIN list = ys /\ \A x \in ys : list[x].total = Changed(rows(x))
    BY DEF totalChangeData, ChangeTotals, ChangeBreakdown
  <1>3. ASSUME NEW x \in xs
        PROVE  /\ val[<<team, x, bt>>] \in Int
               /\ Changed(rows(x)) = val[<<team, x, bt>>]
               /\ x \notin ys => val[<<team, x, bt>>] = 0
    <2> DEFINE a == <<team, x, bt>>
               B == {a}
               one == [b \in B |-> ChangeOn(d[b], days)]
    <2>1. a \in A
      BY <1>1
    <2>2. B \subseteq Account /\ IsFiniteSet(B)
      BY <1>1, <2>1, FS_Singleton
    <2>3. val[a] = ChangeOn(d[a], days) /\ one[a] = ChangeOn(d[a], days)
      BY <2>1
    <2> HIDE DEF a
    <2>4. /\ Changed(LogRows(d, B, days)) = SumFunctionOnSet(one, B)
          /\ \A b \in B : ChangeOn(d[b], days) \in Int
      BY <2>2, LogRowsSum
    <2>5. SumFunctionOnSet(one, {a}) = one[a]
      <3>1. one[a] \in Int
        BY <2>3, <2>4
      <3> HIDE DEF one
      <3> QED
        BY <3>1, SumOne
    <2>6. Changed(rows(x)) = val[a] /\ val[a] \in Int
      BY <2>3, <2>4, <2>5 DEF a
    <2>7. Changed({}) = 0
      BY SumFunctionLemma, SumEmpty DEF Changed
    <2> HIDE DEF val, rows, B
    <2> QED
      BY <2>6, <2>7 DEF a
  <1>4. ys \subseteq xs /\ \A x \in ys : col[x] = val[<<team, x, bt>>]
    BY <1>2, <1>3
  <1>5. \A a \in A : val[a] \in Int
    BY <1>1, <1>3
  <1>6. \A x \in xs \ ys : val[<<team, x, bt>>] = 0
    BY <1>3
  <1>7. SumFunction(col) = SumFunctionOnSet(col, ys)
    BY SumFunctionLemma
  <1>8. Changed(LogRows(d, A, days)) = SumFunctionOnSet(val, A)
    BY <1>1, LogRowsSum
  <1>9. SumFunctionOnSet(val, A) = SumFunctionOnSet(col, ys)
    <2> HIDE DEF val, col, ys
    <2> QED
      BY <1>4, <1>5, <1>6, ScopeSum
  <1> QED
    BY <1>2, <1>7, <1>8, <1>9

(* A window is what is before its end and not before its start.            *)
LEMMA WindowLemma ==
  ASSUME NEW d \in Ledgers, Viewed(d), NEW A, A \subseteq Account, IsFiniteSet(A),
         NEW start \in Nat, NEW end \in Nat, start <= end
  PROVE  Changed(LogRows(d, A, Between(start, end)))
           = Opening(d, A, end + 1) - Opening(d, A, start)
  <1>1. /\ DaysBefore(end + 1) = DaysBefore(start) \cup Between(start, end)
        /\ DaysBefore(start) \cap Between(start, end) = {}
    <2>1. ASSUME NEW day \in Nat
          PROVE  /\ day < end + 1 <=> day < start \/ (start <= day /\ day <= end)
                 /\ ~ (day < start /\ start <= day)
      BY <2>1
    <2>2. \A day \in Day : /\ day < end + 1 <=> day < start \/ (start <= day /\ day <= end)
                           /\ ~ (day < start /\ start <= day)
      BY <2>1, ViewsAssumption
    <2> QED
      BY <2>2, Zenon DEF DaysBefore, Between
  <1>2. end + 1 \in Nat
    OBVIOUS
  <1>3. /\ Opening(d, A, end + 1) = Changed(LogRows(d, A, DaysBefore(end + 1)))
        /\ Opening(d, A, start) = Changed(LogRows(d, A, DaysBefore(start)))
    BY <1>2, OpeningLemma
  <1>4. Changed(LogRows(d, A, DaysBefore(start) \cup Between(start, end)))
          = Changed(LogRows(d, A, DaysBefore(start)))
              + Changed(LogRows(d, A, Between(start, end)))
    BY <1>1, LogRowsUnion
  <1>5. /\ Changed(LogRows(d, A, DaysBefore(start))) \in Int
        /\ Changed(LogRows(d, A, Between(start, end))) \in Int
    BY LogRowsSum
  <1>6. Opening(d, A, end + 1) = Opening(d, A, start) + Changed(LogRows(d, A, Between(start, end)))
    BY <1>1, <1>3, <1>4, Zenon
  <1>7. Opening(d, A, start) \in Int
    BY <1>3, <1>5, Zenon
  <1> QED
    BY <1>5, <1>6, <1>7

(* Where the books are kept, what the readers add up agrees.               *)
LEMMA TotalsLemma == ViewInv => TotalsAgree
  <1> SUFFICES ASSUME db \in Ledgers, Viewed(db),
                      NEW team \in Readers, NEW forTeam \in Filters(team), NEW w \in Windows
               PROVE  /\ OverviewReceivable(db, team, forTeam)
                           = Listed("RECEIVABLE", team, forTeam, w)
                      /\ OverviewPayable(db, team, forTeam)
                           = LET v == Listed("PAYABLE", team, forTeam, w)
                             IN  IF v < 0 THEN -v ELSE v
                      /\ \A bt \in BalanceType :
                           LET overview == totalChangeOverview(db, team, forTeam, bt, w[1], w[2])
                               rows == ListTeamBalanceLog(db, team, forTeam, {bt}, w[1], w[2])
                               xs == Counterparties(forTeam, "UNSPECIFIED")
                               list == totalChangeData(
                                         ChangeTotals(db, team, xs, bt, w[1], w[2]),
                                         ChangeBreakdown(db, team, xs, bt, w[1], w[2]))
                               accounts == Scope(team, forTeam, bt)
                           IN  /\ overview = [total |-> Changed(rows),
                                              change |-> ChangeSums(rows)]
                               /\ overview.total
                                    = SumFunction([x \in DOMAIN list |-> list[x].total])
                               /\ overview.total
                                    = Opening(db, accounts, w[2] + 1)
                                        - Opening(db, accounts, w[1])
    BY DEF TotalsAgree, ViewInv, LedgerInv, Books
  <1>1. "PAYABLE" \in BalanceType /\ "RECEIVABLE" \in BalanceType
    BY DEF BalanceType
  <1>2. OverviewReceivable(db, team, forTeam) = Listed("RECEIVABLE", team, forTeam, w)
    BY <1>1, BalancesListed DEF OverviewReceivable, Listed
  <1>3. OverviewPayable(db, team, forTeam)
          = LET v == Listed("PAYABLE", team, forTeam, w) IN IF v < 0 THEN -v ELSE v
    BY <1>1, BalancesListed DEF OverviewPayable, Listed
  <1>4. ASSUME NEW bt \in BalanceType
        PROVE  LET overview == totalChangeOverview(db, team, forTeam, bt, w[1], w[2])
                   rows == ListTeamBalanceLog(db, team, forTeam, {bt}, w[1], w[2])
                   xs == Counterparties(forTeam, "UNSPECIFIED")
                   list == totalChangeData(
                             ChangeTotals(db, team, xs, bt, w[1], w[2]),
                             ChangeBreakdown(db, team, xs, bt, w[1], w[2]))
                   accounts == Scope(team, forTeam, bt)
               IN  /\ overview = [total |-> Changed(rows), change |-> ChangeSums(rows)]
                   /\ overview.total = SumFunction([x \in DOMAIN list |-> list[x].total])
                   /\ overview.total
                        = Opening(db, accounts, w[2] + 1) - Opening(db, accounts, w[1])
    <2> DEFINE overview == totalChangeOverview(db, team, forTeam, bt, w[1], w[2])
               rows == ListTeamBalanceLog(db, team, forTeam, {bt}, w[1], w[2])
               xs == Counterparties(forTeam, "UNSPECIFIED")
               list == totalChangeData(ChangeTotals(db, team, xs, bt, w[1], w[2]),
                                       ChangeBreakdown(db, team, xs, bt, w[1], w[2]))
               accounts == Scope(team, forTeam, bt)
               R == LogRows(db, accounts, Between(w[1], w[2]))
    <2>1. accounts \subseteq Account /\ IsFiniteSet(accounts)
      BY ScopeLemma
    <2>2. IsFiniteSet(R) /\ \A r \in R : r.change \in Int
      BY <2>1, LogRowsSum
    <2>3. rows = R
      <3>1. {bt} \subseteq BalanceType
        OBVIOUS
      <3>2. rows = UNION {LogRows(db, Scope(team, forTeam, b), Between(w[1], w[2])) : b \in {bt}}
        BY <3>1, ListedRows
      <3> QED
        BY <3>2
    <2>4. overview = [total |-> SumFunction([c \in ChangeSums(R) |-> c.amount]),
                      change |-> ChangeSums(R)]
      BY DEF totalChangeOverview
    <2>5. SumFunction([c \in ChangeSums(R) |-> c.amount]) = Changed(R)
      <3> HIDE DEF R
      <3> QED
        BY <2>2, ChangeSumsTotal
    <2>6. SumFunction([x \in DOMAIN list |-> list[x].total]) = Changed(R)
      BY TotalsListed
    <2>7. Changed(R) = Opening(db, accounts, w[2] + 1) - Opening(db, accounts, w[1])
      <3>1. w[1] \in Nat /\ w[2] \in Nat /\ w[1] <= w[2]
        BY ViewsAssumption DEF Windows
      <3> HIDE DEF accounts
      <3> QED
        BY <2>1, <3>1, WindowLemma
    <2> HIDE DEF overview, rows, R, list, accounts
    <2>8. overview.total = Changed(R)
      BY <2>4, <2>5
    <2>9. /\ overview = [total |-> Changed(rows), change |-> ChangeSums(rows)]
          /\ overview.total = SumFunction([x \in DOMAIN list |-> list[x].total])
          /\ overview.total = Opening(db, accounts, w[2] + 1) - Opening(db, accounts, w[1])
      BY <2>3, <2>4, <2>5, <2>6, <2>7, <2>8
    <2> QED
      BY <2>9 DEF overview, rows, list, accounts
  <1> QED
    BY <1>2, <1>3, <1>4

(* The overview, the list of counterparties, the log list and the daily    *)
(* rows agree in every reachable state, for any number of teams and days.  *)
THEOREM LedgerTotalsAgree == Spec => []TotalsAgree
  BY TotalsLemma, LedgerViewInvariant, PTL
-----------------------------------------------------------------------------
(* Payments, as both of their teams see them.                              *)

(* Two teams have one account of each type with the other.                 *)
LEMMA PairLemma ==
  ASSUME NEW team \in Readers, NEW forTeam \in Readers, team # forTeam
  PROVE  /\ forTeam \in Filters(team) /\ team \in Filters(forTeam)
         /\ team \in Team /\ forTeam \in Team
         /\ Counterparties(forTeam, "UNSPECIFIED") = {forTeam}
         /\ \A bt \in BalanceType : /\ <<team, forTeam, bt>> \in Account
                                    /\ Scope(team, forTeam, bt) = {<<team, forTeam, bt>>}
  <1>1. /\ team \in Team /\ forTeam \in Team /\ team # NoTeam /\ forTeam # NoTeam
        /\ forTeam \in Filters(team) /\ team \in Filters(forTeam)
    BY DEF Readers, Filters
  <1>2. Counterparties(forTeam, "UNSPECIFIED") = {forTeam}
    BY <1>1 DEF Counterparties
  <1>3. ASSUME NEW bt \in BalanceType
        PROVE  /\ <<team, forTeam, bt>> \in Account
               /\ Scope(team, forTeam, bt) = {<<team, forTeam, bt>>}
    <2>1. Scope(team, forTeam, bt) = {team} \X {forTeam} \X {bt}
      BY <1>1 DEF Scope
    <2>2. {team} \X {forTeam} \X {bt} = {<<team, forTeam, bt>>}
      OBVIOUS
    <2> QED
      BY <1>1, <2>1, <2>2 DEF Account
  <1> QED
    BY <1>1, <1>2, <1>3

(* The paying team and the paid one list the same pending payments.        *)
LEMMA PendingLists ==
  ASSUME NEW p, NEW team \in Readers, NEW forTeam \in Readers
  PROVE  /\ Amounts(p, ListPayment(p, team, forTeam, {"PENDING"})) = PendingSum(p, team, forTeam)
         /\ Amounts(p, ListIncomingPayment(p, forTeam, team, {"PENDING"}))
              = PendingSum(p, team, forTeam)
  <1>1. team # NoTeam /\ forTeam # NoTeam
    BY DEF Readers
  <1>2. /\ ListPayment(p, team, forTeam, {"PENDING"}) = PaymentRows(p, team, forTeam, {"PENDING"})
        /\ ListIncomingPayment(p, forTeam, team, {"PENDING"})
             = PaymentRows(p, team, forTeam, {"PENDING"})
    BY <1>1 DEF ListPayment, ListIncomingPayment, PaymentRows
  <1> QED
    BY <1>2 DEF PendingSum

(* What the overview and the list show as pending with one other team.     *)
LEMMA PendingListed ==
  ASSUME NEW d \in Ledgers, Viewed(d), NEW p,
         NEW team \in Readers, NEW forTeam \in Readers, team # forTeam, NEW start, NEW end,
         NEW payable, payable = <<team, forTeam, "PAYABLE">>,
         NEW receivable, receivable = <<team, forTeam, "RECEIVABLE">>
  PROVE  /\ OverviewPendingPayment(d, team, forTeam) = d[payable].pending
         /\ OverviewIncomingPayment(d, team, forTeam) = d[receivable].pending
         /\ SumFunction(fetchTeamBalanceData(d, p, "PENDING_PAYMENT", team,
                          Counterparties(forTeam, "UNSPECIFIED"), start, end))
              = d[payable].pending
         /\ SumFunction(fetchTeamBalanceData(d, p, "INCOMING_PAYMENT", team,
                          Counterparties(forTeam, "UNSPECIFIED"), start, end))
              = d[receivable].pending
  <1>1. ASSUME NEW bt \in BalanceType
        PROVE  /\ Pendings(d, Scope(team, forTeam, bt)) = d[<<team, forTeam, bt>>].pending
               /\ SumFunction([x \in {y \in {forTeam} : d[<<team, y, bt>>].present}
                                |-> d[<<team, x, bt>>].pending])
                    = d[<<team, forTeam, bt>>].pending
    <2> DEFINE a == <<team, forTeam, bt>>
               one == [b \in {a} |-> d[b].pending]
               ys == {y \in {forTeam} : d[<<team, y, bt>>].present}
               col == [x \in ys |-> d[<<team, x, bt>>].pending]
    <2>1. a \in Account /\ Scope(team, forTeam, bt) = {a}
      BY PairLemma
    <2>2. d[a].pending \in Int /\ (~d[a].present => d[a].pending = 0)
      <3>1. d[a] \in AccountRow /\ Dormant(d[a])
        BY <2>1 DEF Ledgers, Viewed, RowViews
      <3> QED
        BY <3>1, RowTypeLemma DEF Dormant, NoAccount
    <2>3. SumFunctionOnSet(one, {a}) = d[a].pending
      <3>1. one[a] = d[a].pending
        OBVIOUS
      <3> HIDE DEF one, a
      <3> QED
        BY <2>2, <3>1, SumOne
    <2>4. Pendings(d, Scope(team, forTeam, bt)) = SumFunctionOnSet(one, {a})
      BY <2>1, SumFunctionLemma DEF Pendings
    <2>5. SumFunction(col) = SumFunctionOnSet(col, ys)
      BY SumFunctionLemma
    <2>6. SumFunctionOnSet(col, ys) = d[a].pending
      <3>1. CASE d[a].present
        <4>1. ys = {forTeam}
          BY <3>1
        <4>2. col[forTeam] = d[a].pending
          BY <4>1
        <4> HIDE DEF col, ys, a
        <4> QED
          BY <2>2, <4>1, <4>2, SumOne
      <3>2. CASE ~d[a].present
        <4>1. ys = {}
          BY <3>2
        <4> HIDE DEF col, ys, a
        <4> QED
          BY <2>2, <3>2, <4>1, SumEmpty
      <3> QED
        BY <3>1, <3>2
    <2> QED
      BY <2>3, <2>4, <2>5, <2>6
  <1>2. "PAYABLE" \in BalanceType /\ "RECEIVABLE" \in BalanceType
    BY DEF BalanceType
  <1>3. Counterparties(forTeam, "UNSPECIFIED") = {forTeam}
    BY PairLemma
  <1>4. /\ fetchTeamBalanceData(d, p, "PENDING_PAYMENT", team, {forTeam}, start, end)
             = [x \in {y \in {forTeam} : d[<<team, y, "PAYABLE">>].present}
                  |-> d[<<team, x, "PAYABLE">>].pending]
        /\ fetchTeamBalanceData(d, p, "INCOMING_PAYMENT", team, {forTeam}, start, end)
             = [x \in {y \in {forTeam} : d[<<team, y, "RECEIVABLE">>].present}
                  |-> d[<<team, x, "RECEIVABLE">>].pending]
    BY DEF fetchTeamBalanceData
  <1> QED
    BY <1>1, <1>2, <1>3, <1>4 DEF OverviewPendingPayment, OverviewIncomingPayment

(* What the overview and the list show as paid to one other team.          *)
LEMMA PaidListed ==
  ASSUME NEW d, NEW p \in Payments, NEW team \in Readers, NEW forTeam \in Readers,
         team # forTeam, NEW start, NEW end
  PROVE  /\ OverviewTotalPayment(p, team, forTeam, start, end)
              = PaidSum(p, team, forTeam, Between(start, end))
         /\ SumFunction(fetchTeamBalanceData(d, p, "TOTAL_PAYMENT", team,
                          Counterparties(forTeam, "UNSPECIFIED"), start, end))
              = PaidSum(p, team, forTeam, Between(start, end))
  <1> DEFINE days == Between(start, end)
             paid(x) == AcceptedOn(p, team, x, days)
             ys == {y \in {forTeam} : paid(y) # {}}
             col == [x \in ys |-> Amounts(p, paid(x))]
  <1>1. Counterparties(forTeam, "UNSPECIFIED") = {forTeam}
    BY PairLemma
  <1>2. fetchTeamBalanceData(d, p, "TOTAL_PAYMENT", team, {forTeam}, start, end) = col
    BY DEF fetchTeamBalanceData
  <1>3. SumFunction(col) = SumFunctionOnSet(col, ys)
    BY SumFunctionLemma
  <1>4. SumFunctionOnSet(col, ys) = PaidSum(p, team, forTeam, days)
    <2>1. CASE paid(forTeam) # {}
      <3>1. ys = {forTeam}
        BY <2>1
      <3>2. col[forTeam] = PaidSum(p, team, forTeam, days)
        BY <3>1 DEF PaidSum
      <3>3. PaidSum(p, team, forTeam, days) \in Int
        <4>1. PICK id : id \in PaymentId
          BY <2>1 DEF AcceptedOn, PaymentRows
        <4> HIDE DEF days
        <4> QED
          BY <4>1, PaymentChange
      <3> HIDE DEF col, ys, days
      <3> QED
        BY <3>1, <3>2, <3>3, SumOne
    <2>2. CASE paid(forTeam) = {}
      <3>1. ys = {}
        BY <2>2
      <3>2. Amounts(p, {}) = 0
        BY SumFunctionLemma, SumEmpty DEF Amounts
      <3>3. PaidSum(p, team, forTeam, days) = 0
        BY <2>2, <3>2 DEF PaidSum
      <3> HIDE DEF col, ys, days
      <3> QED
        BY <3>1, <3>3, SumEmpty
    <2> QED
      BY <2>1, <2>2
  <1> QED
    BY <1>1, <1>2, <1>3, <1>4 DEF OverviewTotalPayment, PaidSum

(* The PAYMENT rows that the log list shows between two teams.             *)
LEMMA PaidRowsListed ==
  ASSUME NEW d \in Ledgers, NEW team \in Readers, NEW forTeam \in Readers, team # forTeam,
         NEW start, NEW end
  PROVE  Changed({r \in ListTeamBalanceLog(d, team, forTeam, BalanceType, start, end) :
                    r.kind = "PAYMENT"})
           = PaidMoves(d, team, forTeam, Between(start, end))
  <1> DEFINE days == Between(start, end)
             P == <<team, forTeam, "PAYABLE">>
             R == <<team, forTeam, "RECEIVABLE">>
             A == {P, R}
             I == [a \in A |-> {i \in DOMAIN d[a].log : d[a].log[i] \in PaidOn(days)}]
             rows == {r \in ListTeamBalanceLog(d, team, forTeam, BalanceType, start, end) :
                        r.kind = "PAYMENT"}
             val == [a \in A |-> Recorded(d[a], I[a])]
  <1>1. /\ P \in Account /\ R \in Account /\ P # R
        /\ Scope(team, forTeam, "PAYABLE") = {P} /\ Scope(team, forTeam, "RECEIVABLE") = {R}
    BY PairLemma DEF BalanceType
  <1>2. ListTeamBalanceLog(d, team, forTeam, BalanceType, start, end)
          = LogRows(d, {P}, days) \cup LogRows(d, {R}, days)
    <2>1. forTeam \in Filters(team)
      BY PairLemma
    <2>2. ListTeamBalanceLog(d, team, forTeam, BalanceType, start, end)
            = UNION {LogRows(d, Scope(team, forTeam, bt), days) : bt \in BalanceType}
      BY <2>1, ListedRows
    <2> QED
      BY <1>1, <2>2, Zenon DEF BalanceType
  <1> HIDE DEF P, R, days
  <1>3. ASSUME NEW a \in A
        PROVE  \A r : r \in LogRows(d, {a}, days)
                        <=> \E i \in DayIds(d[a], days) : r = RowOf(d, a, i)
    <2> DEFINE one == {a}
               ids == [b \in one |-> DayIds(d[b], days)]
    <2>1. LogRows(d, one, days) = RowsAt(d, one, ids)
      BY LogRowsLemma
    <2>2. ids[a] = DayIds(d[a], days)
      OBVIOUS
    <2> HIDE DEF ids
    <2>3. \A r : r \in RowsAt(d, one, ids) <=> \E b \in one : \E i \in ids[b] : r = RowOf(d, b, i)
      BY RowsAtLemma
    <2> QED
      BY <2>1, <2>2, <2>3
  <1>4. ASSUME NEW a \in A, NEW i
        PROVE  /\ i \in I[a] <=> i \in DayIds(d[a], days) /\ RowOf(d, a, i).kind = "PAYMENT"
               /\ I[a] \subseteq DOMAIN d[a].log
    <2>1. d[a] \in AccountRow
      BY <1>1 DEF Ledgers
    <2>2. \A j \in DOMAIN d[a].log : d[a].log[j] \in LogEntry
      BY <2>1, RowTypeLemma
    <2>3. RowOf(d, a, i).kind = d[a].log[i].kind
      BY DEF RowOf
    <2> QED
      BY <2>2, <2>3 DEF DayIds, PaidOn
  <1>5. rows = RowsAt(d, A, I)
    <2> HIDE DEF I, rows
    <2>1. \A r : r \in RowsAt(d, A, I) <=> \E a \in A : \E i \in I[a] : r = RowOf(d, a, i)
      BY RowsAtLemma
    <2>2. \A r : r \in rows <=> /\ r \in LogRows(d, {P}, days) \cup LogRows(d, {R}, days)
                                /\ r.kind = "PAYMENT"
      BY <1>2 DEF rows
    <2>3. \A r : r \in rows <=> \E a \in A : r \in LogRows(d, {a}, days) /\ r.kind = "PAYMENT"
      BY <2>2
    <2>4. ASSUME NEW a \in A, NEW r
          PROVE  r \in LogRows(d, {a}, days) /\ r.kind = "PAYMENT"
                   <=> \E i \in I[a] : r = RowOf(d, a, i)
      <3>1. r \in LogRows(d, {a}, days) <=> \E i \in DayIds(d[a], days) : r = RowOf(d, a, i)
        BY <1>3
      <3>2. \A i : i \in I[a] <=> i \in DayIds(d[a], days) /\ RowOf(d, a, i).kind = "PAYMENT"
        BY <1>4
      <3> HIDE DEF A
      <3> QED
        BY <3>1, <3>2
    <2>5. ASSUME NEW r
          PROVE  r \in rows <=> r \in RowsAt(d, A, I)
      <3>1. r \in RowsAt(d, A, I) <=> \E a \in A : \E i \in I[a] : r = RowOf(d, a, i)
        BY <2>1
      <3>2. r \in rows <=> \E a \in A : r \in LogRows(d, {a}, days) /\ r.kind = "PAYMENT"
        BY <2>3
      <3> HIDE DEF A
      <3> QED
        BY <2>4, <3>1, <3>2, Zenon
    <2> HIDE DEF A
    <2> QED
      BY <2>5
  <1>6. A \subseteq Account /\ IsFiniteSet(A)
    <2>1. IsFiniteSet({P}) /\ {P} \cup {R} = A
      BY FS_Singleton
    <2>2. IsFiniteSet({P} \cup {R})
      BY <2>1, FS_AddElement
    <2> QED
      BY <1>1, <2>1, <2>2
  <1>7. Changed(rows) = SumFunctionOnSet(val, A) /\ \A a \in A : Recorded(d[a], I[a]) \in Int
    <2>1. \A a \in A : I[a] \subseteq DOMAIN d[a].log
      BY <1>4
    <2> HIDE DEF I, A, rows
    <2> QED
      BY <1>5, <1>6, <2>1, RowsAtSum
  <1>8. ASSUME NEW a \in A
        PROVE  val[a] = PaidIn(d, a, days) /\ val[a] \in Int
    <2>1. val[a] \in Int
      BY <1>7
    <2>2. val[a] = PaidIn(d, a, days)
      BY DEF PaidIn, EntrySum, Recorded
    <2> QED
      BY <2>1, <2>2
  <1>9. SumFunctionOnSet(val, A) = val[R] + val[P]
    <2>1. P \in A /\ R \in A /\ A = {P} \cup {R} /\ R \notin {P} /\ IsFiniteSet({P})
      BY <1>1, FS_Singleton
    <2> HIDE DEF val, A
    <2>2. SumFunctionOnSet(val, {P}) = val[P]
      BY <1>8, <2>1, SumOne
    <2>3. SumFunctionOnSet(val, {P} \cup {R}) = val[R] + SumFunctionOnSet(val, {P})
      BY <1>8, <2>1, SumAdd
    <2> QED
      BY <2>1, <2>2, <2>3
  <1>10. PaidMoves(d, team, forTeam, days) = PaidIn(d, P, days) + PaidIn(d, R, days)
    BY DEF PaidMoves, P, R
  <1>11. P \in A /\ R \in A
    OBVIOUS
  <1> HIDE DEF val, rows, A
  <1>12. Changed(rows) = PaidMoves(d, team, forTeam, days)
    BY <1>7, <1>8, <1>9, <1>10, <1>11
  <1> QED
    BY <1>12 DEF rows, days

(* Where the books are kept, both teams see what is paid and waiting.      *)
LEMMA PaymentsLemma == ViewInv => PaymentsAgree
  <1> SUFFICES ASSUME db \in Ledgers, Mirrored(db), Viewed(db), payments \in Payments,
                      PaymentViews(db, payments),
                      NEW team \in Readers, NEW forTeam \in Readers, team # forTeam,
                      NEW w \in Windows
               PROVE  LET paid == OverviewTotalPayment(payments, team, forTeam, w[1], w[2])
                          gotten == OverviewTotalPayment(payments, forTeam, team, w[1], w[2])
                          rows == ListTeamBalanceLog(db, team, forTeam, BalanceType, w[1], w[2])
                          out == Amounts(payments,
                                   ListPayment(payments, team, forTeam, {"PENDING"}))
                          in == Amounts(payments,
                                  ListIncomingPayment(payments, forTeam, team, {"PENDING"}))
                      IN  /\ paid = Listed("TOTAL_PAYMENT", team, forTeam, w)
                          /\ "PAYMENT" \notin PostKind /\ PayAmount \subseteq Nat =>
                               paid - gotten = Changed({r \in rows : r.kind = "PAYMENT"})
                          /\ out = in
                          /\ out = OverviewPendingPayment(db, team, forTeam)
                          /\ out = OverviewIncomingPayment(db, forTeam, team)
                          /\ out = Listed("PENDING_PAYMENT", team, forTeam, w)
                          /\ out = Listed("INCOMING_PAYMENT", forTeam, team, w)
    <2>1. ViewInv => /\ db \in Ledgers /\ Mirrored(db) /\ Viewed(db)
                     /\ payments \in Payments /\ PaymentViews(db, payments)
      BY DEF ViewInv, LedgerInv, Books, PaymentsOK, Payments
    <2>2. \A forTeam \in Readers, team \in Readers : forTeam \in Readers \ {team} => team # forTeam
      OBVIOUS
    <2> QED
      BY <2>1, <2>2, Zenon DEF PaymentsAgree
  <1> DEFINE days == Between(w[1], w[2])
             P == <<team, forTeam, "PAYABLE">>
             Q == <<forTeam, team, "RECEIVABLE">>
  <1>1. days \in SUBSET Day
    BY DEF Between
  <1>2. /\ OverviewTotalPayment(payments, team, forTeam, w[1], w[2])
             = PaidSum(payments, team, forTeam, days)
        /\ OverviewTotalPayment(payments, forTeam, team, w[1], w[2])
             = PaidSum(payments, forTeam, team, days)
        /\ Listed("TOTAL_PAYMENT", team, forTeam, w) = PaidSum(payments, team, forTeam, days)
    BY PaidListed DEF Listed
  <1>3. Changed({r \in ListTeamBalanceLog(db, team, forTeam, BalanceType, w[1], w[2]) :
                   r.kind = "PAYMENT"}) = PaidMoves(db, team, forTeam, days)
    BY PaidRowsListed
  <1>4. "PAYMENT" \notin PostKind /\ PayAmount \subseteq Nat =>
          PaidSum(payments, team, forTeam, days) - PaidSum(payments, forTeam, team, days)
            = PaidMoves(db, team, forTeam, days)
    <2> HIDE DEF days
    <2> QED
      BY <1>1 DEF PaymentViews, OnlyPaid, PaidBooked
  <1>5. db[P].pending = PendingSum(payments, team, forTeam)
    BY DEF PaymentViews
  <1>6. db[Q].pending = db[P].pending
    <2>1. P \in Account
      BY PairLemma DEF BalanceType
    <2>2. Mirror(P) = Q
      BY DEF Mirror, oppositeBalance
    <2> QED
      BY <2>1, <2>2 DEF Mirrored
  <1>7. /\ OverviewPendingPayment(db, team, forTeam) = db[P].pending
        /\ Listed("PENDING_PAYMENT", team, forTeam, w) = db[P].pending
    <2> DEFINE R == <<team, forTeam, "RECEIVABLE">>
    <2>1. P = <<team, forTeam, "PAYABLE">> /\ R = <<team, forTeam, "RECEIVABLE">>
      OBVIOUS
    <2> HIDE DEF P, R
    <2> QED
      BY <2>1, PendingListed DEF Listed
  <1>8. /\ OverviewIncomingPayment(db, forTeam, team) = db[Q].pending
        /\ Listed("INCOMING_PAYMENT", forTeam, team, w) = db[Q].pending
    <2> DEFINE R == <<forTeam, team, "PAYABLE">>
    <2>1. R = <<forTeam, team, "PAYABLE">> /\ Q = <<forTeam, team, "RECEIVABLE">>
      OBVIOUS
    <2> HIDE DEF Q, R
    <2> QED
      BY <2>1, PendingListed DEF Listed
  <1>9. /\ Amounts(payments, ListPayment(payments, team, forTeam, {"PENDING"}))
             = PendingSum(payments, team, forTeam)
        /\ Amounts(payments, ListIncomingPayment(payments, forTeam, team, {"PENDING"}))
             = PendingSum(payments, team, forTeam)
    BY PendingLists
  <1> HIDE DEF days, P, Q
  <1> QED
    BY <1>2, <1>3, <1>4, <1>5, <1>6, <1>7, <1>8, <1>9

(* Whatever the number of teams, payments and days: what the lists and the *)
(* overview show as paid is what the PAYMENT changes moved, and both teams *)
(* of a pending payment see the same amount waiting.                       *)
THEOREM LedgerPaymentsAgree == Spec => []PaymentsAgree
  BY PaymentsLemma, LedgerViewInvariant, PTL
-----------------------------------------------------------------------------
(* The periods of the timeline.                                            *)

(* s lists the numbers of S in ascending order.                            *)
Ascends(s, S) ==
  s \in SetToSeqs(S) /\ \A i, j \in DOMAIN s : i < j => s[i] < s[j]

(* Every finite set of naturals can be put in ascending order.             *)
LEMMA AscendsExists ==
  ASSUME NEW S, IsFiniteSet(S), \A x \in S : x \in Nat
  PROVE  \E s : Ascends(s, S)
  <1> DEFINE Bad == {t \in SUBSET S : ~\E s : Ascends(s, t)}
  <1>1. SUFFICES ASSUME Bad # {} PROVE FALSE
    OBVIOUS
  <1>2. PICK t \in Bad : /\ IsFiniteSet(t)
                         /\ \A u \in Bad : ~(u \subseteq t /\ u # t)
    <2>1. Bad \subseteq SUBSET S
      OBVIOUS
    <2> HIDE DEF Bad
    <2> QED
      BY <1>1, <2>1, LeastSubset
  <1>3. t \in SUBSET S /\ (\A x \in t : x \in Nat) /\ ~\E s : Ascends(s, t)
    OBVIOUS
  <1>4. CASE t = {}
    <2> DEFINE s == [i \in {} |-> 0]
    <2>1. Cardinality(t) = 0
      BY <1>4, FS_EmptySet
    <2>2. 1 .. Cardinality(t) = {}
      BY <2>1
    <2>3. s \in [{} -> t] /\ DOMAIN s = {}
      OBVIOUS
    <2>4. Ascends(s, t)
      BY <2>2, <2>3 DEF Ascends, SetToSeqs
    <2> QED
      BY <1>3, <2>4
  <1>5. CASE t # {}
    <2>1. PICK m \in t : \A k \in t : k <= m
      BY <1>2, <1>3, <1>5, GreatestOf
    <2> DEFINE u == t \ {m}
               n == Cardinality(u)
    <2>2. u \in SUBSET S /\ u \subseteq t /\ u # t
      BY <1>3, <2>1
    <2> HIDE DEF Bad
    <2>3. PICK s : Ascends(s, u)
      BY <1>2, <2>2 DEF Bad
    <2>4. n \in Nat /\ Cardinality(t) = n + 1
      <3>1. Cardinality(u) = Cardinality(t) - 1 /\ IsFiniteSet(u)
        BY <1>2, <2>1, FS_RemoveElement
      <3>2. Cardinality(t) \in Nat /\ Cardinality(u) \in Nat
        BY <1>2, <3>1, FS_CardinalityType
      <3> QED
        BY <3>1, <3>2
    <2> HIDE DEF n
    <2>5. /\ s \in [1 .. n -> u]
          /\ \A i, j \in 1 .. n : i # j => s[i] # s[j]
          /\ \A i, j \in 1 .. n : i < j => s[i] < s[j]
      BY <2>3 DEF Ascends, SetToSeqs, n
    <2> DEFINE r == [i \in 1 .. n + 1 |-> IF i = n + 1 THEN m ELSE s[i]]
    <2>6. \A i \in 1 .. n : r[i] = s[i] /\ s[i] \in u /\ s[i] \in Nat /\ s[i] < m
      <3>1. \A i \in 1 .. n : r[i] = s[i] /\ s[i] \in u
        BY <2>4, <2>5
      <3>2. \A k \in u : k \in Nat /\ m \in Nat /\ k <= m /\ k # m
        BY <1>3, <2>1
      <3>3. \A k \in u : k \in Nat /\ k < m
        BY <3>2
      <3> QED
        BY <3>1, <3>3
    <2>7. r[n + 1] = m
      BY <2>4
    <2>8. \A i \in 1 .. n + 1 : i \in 1 .. n \/ i = n + 1
      BY <2>4
    <2>9. r \in [1 .. n + 1 -> t] /\ DOMAIN r = 1 .. n + 1
      <3>1. \A i \in 1 .. n + 1 : r[i] \in t
        BY <2>1, <2>6, <2>7, <2>8
      <3> QED
        BY <3>1
    <2>10. \A i, j \in 1 .. n + 1 : i < j => r[i] < r[j]
      <3> SUFFICES ASSUME NEW i \in 1 .. n + 1, NEW j \in 1 .. n + 1, i < j
                   PROVE  r[i] < r[j]
        OBVIOUS
      <3> HIDE DEF r
      <3>1. i \in 1 .. n
        BY <2>4
      <3>2. CASE j = n + 1
        BY <2>6, <2>7, <3>1, <3>2
      <3>3. CASE j \in 1 .. n
        <4>1. s[i] < s[j]
          BY <2>5, <3>1, <3>3
        <4> QED
          BY <2>6, <3>1, <3>3, <4>1
      <3> QED
        BY <2>8, <3>2, <3>3
    <2>11. \A i, j \in 1 .. n + 1 : i # j => r[i] # r[j]
      <3> SUFFICES ASSUME NEW i \in 1 .. n + 1, NEW j \in 1 .. n + 1, i # j
                   PROVE  r[i] # r[j]
        OBVIOUS
      <3>1. r[i] \in Nat /\ r[j] \in Nat
        BY <1>3, <2>9
      <3>2. i < j \/ j < i
        BY <2>4
      <3> HIDE DEF r
      <3> QED
        BY <2>10, <3>1, <3>2
    <2> HIDE DEF r
    <2>12. Ascends(r, t)
      BY <2>4, <2>9, <2>10, <2>11 DEF Ascends, SetToSeqs
    <2> QED
      BY <1>3, <2>12
  <1> QED
    BY <1>4, <1>5

(* s lists the n numbers of S, the smaller ones first.                     *)
Lists(s, n, S) ==
  /\ n \in Nat /\ DOMAIN s = 1 .. n
  /\ \A i \in 1 .. n : s[i] \in S
  /\ \A i, j \in 1 .. n : i < j => s[i] < s[j]
  /\ \A x \in S : \E i \in 1 .. n : s[i] = x

(* What Ascending returns.                                                 *)
LEMMA AscendingLemma ==
  ASSUME NEW S, IsFiniteSet(S), \A x \in S : x \in Nat
  PROVE  Lists(Ascending(S), Cardinality(S), S)
  <1> DEFINE s == Ascending(S)
             n == Cardinality(S)
             I == 1 .. n
  <1>1. n \in Nat
    BY FS_CardinalityType
  <1>2. s \in SetToSeqs(S) /\ \A i, j \in DOMAIN s : i < j => s[i] < s[j]
    BY AscendsExists DEF Ascends, Ascending
  <1>3. s \in [I -> S] /\ \A i, j \in I : i # j => s[i] # s[j]
    BY <1>2 DEF SetToSeqs
  <1>4. s \in Injection(I, S)
    BY <1>3 DEF Injection, IsInjective
  <1>5. IsFiniteSet(I) /\ Cardinality(I) = n
    BY <1>1, FS_Interval
  <1> HIDE DEF s, n, I
  <1>6. Cardinality(I) = Cardinality(S)
    BY <1>5 DEF n
  <1>7. s \in Surjection(I, S)
    BY <1>4, <1>6, FS_Injection
  <1>8. \A x \in S : \E i \in I : s[i] = x
    BY <1>7 DEF Surjection
  <1>9. Lists(s, n, S)
    BY <1>1, <1>2, <1>3, <1>8 DEF I, Lists
  <1> QED
    BY <1>9 DEF s, n

(* The recursion of Running has the values of any g that satisfies it.     *)
LEMMA RunningLemma ==
  ASSUME NEW opening, NEW changes, NEW n \in Nat, Len(changes) = n, NEW g, g[0] = opening,
         \A i \in 1 .. n : g[i] = [bt \in BalanceType |-> g[i - 1][bt] + changes[i][bt]]
  PROVE  \A i \in 0 .. n : Running(opening, changes)[i] = g[i]
  <1> DEFINE after[i \in 0 .. Len(changes)] ==
               IF i = 0 THEN opening
               ELSE [bt \in BalanceType |-> after[i - 1][bt] + changes[i][bt]]
             Solves(h) ==
               h = [i \in 0 .. Len(changes) |->
                      IF i = 0 THEN opening
                      ELSE [bt \in BalanceType |-> h[i - 1][bt] + changes[i][bt]]]
             f == [i \in 0 .. Len(changes) |-> g[i]]
  <1>1. Running(opening, changes) = after
    BY DEF Running
  <1>2. after = CHOOSE h : Solves(h)
    OBVIOUS
  <1>3. Solves(f)
    <2>1. \A i \in 0 .. n : f[i] = g[i]
      OBVIOUS
    <2>2. \A i \in 1 .. n : i - 1 \in 0 .. n
      OBVIOUS
    <2>3. \A i \in 0 .. n : i = 0 \/ i \in 1 .. n
      OBVIOUS
    <2>4. ASSUME NEW i \in 1 .. n
          PROVE  g[i] = [bt \in BalanceType |-> f[i - 1][bt] + changes[i][bt]]
      <3>1. f[i - 1] = g[i - 1]
        BY <2>1, <2>2
      <3> HIDE DEF f
      <3> QED
        BY <3>1
    <2>5. \A i \in 0 .. n : g[i] = IF i = 0 THEN opening
                                   ELSE [bt \in BalanceType |-> f[i - 1][bt] + changes[i][bt]]
      <3> HIDE DEF f
      <3> QED
        BY <2>3, <2>4
    <2>6. f = [i \in 0 .. n |-> g[i]]
      OBVIOUS
    <2> HIDE DEF f
    <2> QED
      BY <2>5, <2>6
  <1> HIDE DEF Solves, f
  <1>4. Solves(after)
    <2> HIDE DEF after
    <2> QED
      BY <1>2, <1>3
  <1> HIDE DEF after
  <1>5. /\ after[0] = opening
        /\ \A i \in 1 .. n :
             after[i] = [bt \in BalanceType |-> after[i - 1][bt] + changes[i][bt]]
    <2>1. \A i \in 0 .. n :
            after[i] = IF i = 0 THEN opening
                       ELSE [bt \in BalanceType |-> after[i - 1][bt] + changes[i][bt]]
      BY <1>4 DEF Solves
    <2>2. 0 \in 0 .. n /\ \A i \in 1 .. n : i \in 0 .. n /\ i # 0
      OBVIOUS
    <2> QED
      BY <2>1, <2>2
  <1>6. \A i \in 0 .. n : after[i] = g[i]
    <2> DEFINE Bad == {i \in 0 .. n : after[i] # g[i]}
    <2> SUFFICES ASSUME Bad # {} PROVE FALSE
      OBVIOUS
    <2>1. PICK m \in Bad : \A k \in Bad : m <= k
      <3>1. Bad \in SUBSET Nat
        OBVIOUS
      <3> HIDE DEF Bad
      <3> QED
        BY <3>1, LeastNatural
    <2>2. m \in 1 .. n /\ m - 1 \in 0 .. n
      BY <1>5
    <2>3. after[m - 1] = g[m - 1]
      <3>1. m - 1 \notin Bad
        BY <2>1, <2>2
      <3> QED
        BY <2>2, <3>1
    <2> HIDE DEF Bad
    <2>4. after[m] = g[m]
      <3>1. after[m] = [bt \in BalanceType |-> after[m - 1][bt] + changes[m][bt]]
        BY <1>5, <2>2
      <3>2. g[m] = [bt \in BalanceType |-> g[m - 1][bt] + changes[m][bt]]
        BY <2>2
      <3> QED
        BY <2>3, <3>1, <3>2
    <2> USE DEF Bad
    <2> QED
      BY <2>1, <2>4
  <1> QED
    BY <1>1, <1>6

(* Whole multiples of a period.                                            *)
LEMMA MultipleLemma ==
  ASSUME NEW u \in Nat, u # 0, NEW q \in Nat, NEW p \in Nat
  PROVE  /\ q * u \in Nat
         /\ q <= p <=> q * u <= p * u
         /\ q <= p <=> q * u < p * u + u
  <1>1. q * u \in Nat /\ p * u \in Nat
    OBVIOUS
  <1>2. ASSUME q <= p PROVE q * u <= p * u
    <2>1. PICK k \in Nat : p = q + k
      BY <1>2
    <2>2. p * u = q * u + k * u /\ k * u \in Nat
      BY <2>1
    <2> QED
      BY <1>1, <2>2
  <1>3. ASSUME ~(q <= p) PROVE p * u + u <= q * u
    <2>1. PICK k \in Nat : q = p + 1 + k
      <3>1. q - (p + 1) \in Nat /\ q = p + 1 + (q - (p + 1))
        BY <1>3
      <3> QED
        BY <3>1
    <2>2. q * u = p * u + u + k * u /\ k * u \in Nat
      BY <2>1
    <2> QED
      BY <1>1, <2>2
  <1> QED
    BY <1>1, <1>2, <1>3

(* A day is in the period that bucket names, and the periods of unit days  *)
(* follow each other.                                                      *)
LEMMA BucketLemma ==
  ASSUME NEW unit \in Unit, NEW day \in Nat, NEW other \in Nat
  PROVE  /\ bucket(unit, day) \in Nat /\ unit \in Nat
         /\ bucket(unit, day) <= day /\ day < bucket(unit, day) + unit
         /\ day < bucket(unit, other) + unit <=> bucket(unit, day) <= bucket(unit, other)
  <1> DEFINE q == day \div unit
             p == other \div unit
  <1>1. unit \in Nat /\ unit # 0
    BY ViewsAssumption
  <1>2. q \in Nat /\ p \in Nat /\ day = q * unit + (day % unit) /\ day % unit \in 0 .. unit - 1
    BY <1>1
  <1>3. bucket(unit, day) = q * unit /\ bucket(unit, other) = p * unit
    BY DEF bucket
  <1> HIDE DEF q, p
  <1>4. /\ q * unit \in Nat /\ p * unit \in Nat
        /\ q <= p <=> q * unit <= p * unit
        /\ q <= p <=> q * unit < p * unit + unit
    BY <1>1, <1>2, MultipleLemma
  <1>5. ~(q <= p) => p * unit + unit <= q * unit
    BY <1>1, <1>4
  <1> DEFINE r == day % unit
             b == q * unit
             c == p * unit
  <1>6. r \in Nat /\ r < unit /\ day = b + r
    BY <1>1, <1>2
  <1>7. b \in Nat /\ c \in Nat /\ (b <= c \/ c + unit <= b)
    BY <1>4, <1>5
  <1>8. bucket(unit, day) = b /\ bucket(unit, other) = c
    BY <1>3
  <1> HIDE DEF r, b, c
  <1> QED
    BY <1>1, <1>6, <1>7, <1>8

(* x is a row of balance_change_logs.                                      *)
IsRow(d, x) == x.id \in DOMAIN d[x.account].log /\ x = RowOf(d, x.account, x.id)

(* LogRows selects the rows by their accounts and days.                    *)
LEMMA LogRowsMember ==
  ASSUME NEW d, NEW A, NEW days, NEW x
  PROVE  x \in LogRows(d, A, days) <=> IsRow(d, x) /\ x.account \in A /\ x.day \in days
  <1> DEFINE I == [a \in A |-> DayIds(d[a], days)]
  <1>1. LogRows(d, A, days) = RowsAt(d, A, I)
    BY LogRowsLemma
  <1>2. \A a \in A : I[a] = DayIds(d[a], days)
    OBVIOUS
  <1> HIDE DEF I
  <1>3. x \in RowsAt(d, A, I) <=> \E a \in A : \E i \in I[a] : x = RowOf(d, a, i)
    BY RowsAtLemma
  <1>4. \A a, i : LET y == RowOf(d, a, i)
                  IN  y.account = a /\ y.id = i /\ y.day = d[a].log[i].day
    BY DEF RowOf
  <1>5. \A a, i : i \in DayIds(d[a], days) <=> i \in DOMAIN d[a].log /\ d[a].log[i].day \in days
    BY DEF DayIds
  <1>6. ASSUME NEW a \in A, NEW i \in I[a], x = RowOf(d, a, i)
        PROVE  IsRow(d, x) /\ x.account \in A /\ x.day \in days
    BY <1>2, <1>4, <1>5, <1>6 DEF IsRow
  <1>7. ASSUME IsRow(d, x), x.account \in A, x.day \in days
        PROVE  \E a \in A : \E i \in I[a] : x = RowOf(d, a, i)
    <2>1. x.id \in I[x.account]
      BY <1>2, <1>4, <1>5, <1>7 DEF IsRow
    <2> QED
      BY <1>7, <2>1 DEF IsRow
  <1> QED
    BY <1>1, <1>3, <1>6, <1>7
(* What a row of balance_change_logs holds.                                *)
LEMMA RowLemma ==
  ASSUME NEW d \in Ledgers, NEW x, IsRow(d, x), x.account \in Account
  PROVE  x.day \in Day /\ x.day \in Nat /\ x.change \in Int
  <1>1. d[x.account] \in AccountRow
    BY DEF Ledgers
  <1>2. \A i \in DOMAIN d[x.account].log : d[x.account].log[i] \in LogEntry
    BY <1>1, RowTypeLemma
  <1>3. d[x.account].log[x.id] \in LogEntry
    BY <1>2 DEF IsRow
  <1>4. /\ RowOf(d, x.account, x.id).day = d[x.account].log[x.id].day
        /\ RowOf(d, x.account, x.id).change = d[x.account].log[x.id].change
    BY DEF RowOf
  <1> QED
    BY <1>3, <1>4, ViewsAssumption DEF IsRow, LogEntry

(* Days that have the same rows.                                           *)
LEMMA LogRowsSame ==
  ASSUME NEW d, NEW A, NEW X, NEW Y,
         \A x : IsRow(d, x) /\ x.account \in A => (x.day \in X <=> x.day \in Y)
  PROVE  LogRows(d, A, X) = LogRows(d, A, Y)
  <1>1. ASSUME NEW x
        PROVE  x \in LogRows(d, A, X) <=> x \in LogRows(d, A, Y)
    <2>1. x \in LogRows(d, A, X) <=> IsRow(d, x) /\ x.account \in A /\ x.day \in X
      BY LogRowsMember
    <2>2. x \in LogRows(d, A, Y) <=> IsRow(d, x) /\ x.account \in A /\ x.day \in Y
      BY LogRowsMember
    <2> QED
      BY <2>1, <2>2
  <1>2. \A x \in LogRows(d, A, X) : x \in LogRows(d, A, Y)
    BY <1>1
  <1>3. \A x \in LogRows(d, A, Y) : x \in LogRows(d, A, X)
    BY <1>1
  <1> QED
    BY <1>2, <1>3

(* All changes of the accounts come to their balances.                     *)
LEMMA BalancesLemma ==
  ASSUME NEW d \in Ledgers, Viewed(d), NEW A, A \subseteq Account, IsFiniteSet(A)
  PROVE  Balances(d, A) = Changed(LogRows(d, A, Day))
  <1> DEFINE f == [a \in A |-> d[a].balance]
             g == [a \in A |-> ChangeOn(d[a], Day)]
  <1>1. Balances(d, A) = SumFunctionOnSet(f, A)
    BY SumFunctionLemma DEF Balances
  <1>2. Changed(LogRows(d, A, Day)) = SumFunctionOnSet(g, A)
    BY LogRowsSum
  <1>3. ASSUME NEW a \in A
        PROVE  f[a] = g[a]
    <2>1. d[a] \in AccountRow /\ AddsUp(d[a])
      BY DEF Ledgers, Viewed, RowViews
    <2>2. OnDays(Day) = LogEntry
      BY DEF OnDays, LogEntry
    <2>3. ChangeOn(d[a], Day) = EntrySum(d[a].log, LogEntry)
      BY <2>1, <2>2, ChangeOnLemma
    <2> QED
      BY <2>1, <2>3 DEF AddsUp
  <1>4. SumFunctionOnSet(f, A) = SumFunctionOnSet(g, A)
    <2> HIDE DEF f, g
    <2> QED
      BY <1>3, SumSame
  <1> QED
    BY <1>1, <1>2, <1>4

(* keys are the periods of the window in chronological order; every row of *)
(* the window is in one of them.                                           *)
Periods(d, team, forTeam, unit, days, keys, n) ==
  /\ n \in Nat /\ DOMAIN keys = 1 .. n
  /\ \A i, j \in 1 .. n : i < j => keys[i] < keys[j]
  /\ \A i \in 1 .. n : \E day \in days : keys[i] = bucket(unit, day)
  /\ \A bt \in BalanceType : \A x :
       IsRow(d, x) /\ x.account \in Scope(team, forTeam, bt) /\ x.day \in days
         => \E i \in 1 .. n : keys[i] = bucket(unit, x.day)

(* The days before the window and those of its first i periods.            *)
Upto(unit, keys, start, days, i) ==
  DaysBefore(start) \cup {day \in days : \E j \in 1 .. i : bucket(unit, day) = keys[j]}

(* The days until the end of the window, or of the period when it is first. *)
Until(w, unit, key) == {day \in Day : day <= w[2] /\ day < key + unit}

DaysOf(unit, days, key) == {day \in days : bucket(unit, day) = key}

(* The accounts of the readers' filters, of either balance type.           *)
LEMMA ScopeType ==
  ASSUME NEW team \in Readers, NEW forTeam \in Filters(team), NEW bt \in BalanceType
  PROVE  /\ Scope(team, forTeam, bt) \subseteq Account /\ IsFiniteSet(Scope(team, forTeam, bt))
         /\ \A a \in Scope(team, forTeam, bt) : a[3] = bt
  <1>1. \A a \in Scope(team, forTeam, bt) : a[3] = bt
    BY DEF Scope
  <1> QED
    BY <1>1, ScopeLemma

(* The keys of Timeline are the periods of the window.                     *)
LEMMA PeriodsLemma ==
  ASSUME NEW d \in Ledgers, NEW p \in Payments,
         \A id \in PaymentId : p[id].status = "ACCEPTED" =>
           \E day \in Day : p[id].acceptedAt = {day},
         NEW team \in Readers, NEW forTeam \in Filters(team), NEW unit \in Unit,
         NEW start, NEW end, NEW days, days = From(start, end), NEW S,
         S = {bucket(unit, r.day) : r \in WindowRows(d, team, forTeam, start, end)
                                            \cup PaidRows(p, team, forTeam, days)}
  PROVE  Periods(d, team, forTeam, unit, days, Ascending(S), Cardinality(S))
  <1> DEFINE rows == WindowRows(d, team, forTeam, start, end)
             paid == PaidRows(p, team, forTeam, days)
             R == rows \cup paid
             key == [r \in R |-> bucket(unit, r.day)]
  <1>1. days \subseteq Day /\ \A day \in days : day \in Nat
    BY ViewsAssumption DEF From
  <1>2. \A r \in rows : r.day \in days
    <2>1. ASSUME NEW bt \in BalanceType, NEW r \in LogRows(d, Scope(team, forTeam, bt), days)
          PROVE  r.day \in days
      BY <2>1, LogRowsMember
    <2> QED
      BY <2>1 DEF WindowRows
  <1>3. \A r \in paid : r.day \in days
    <2>1. ASSUME NEW id \in AcceptedOn(p, team, forTeam, days)
          PROVE  (CHOOSE day \in p[id].acceptedAt : TRUE) \in days
      <3>1. id \in PaymentId /\ p[id].status = "ACCEPTED" /\ p[id].acceptedAt \cap days # {}
        BY DEF AcceptedOn, PaymentRows
      <3>2. PICK day \in Day : p[id].acceptedAt = {day}
        BY <3>1
      <3> QED
        BY <3>1, <3>2
    <2> QED
      BY <2>1 DEF PaidRows
  <1>4. IsFiniteSet(R)
    <2>1. \A bt \in BalanceType : IsFiniteSet(LogRows(d, Scope(team, forTeam, bt), days))
      BY ScopeType, LogRowsSum
    <2>2. rows = LogRows(d, Scope(team, forTeam, "PAYABLE"), days)
                   \cup LogRows(d, Scope(team, forTeam, "RECEIVABLE"), days)
      BY DEF WindowRows, BalanceType
    <2>3. IsFiniteSet(rows)
      <3> DEFINE P == LogRows(d, Scope(team, forTeam, "PAYABLE"), days)
                 Q == LogRows(d, Scope(team, forTeam, "RECEIVABLE"), days)
      <3>1. IsFiniteSet(P) /\ IsFiniteSet(Q)
        BY <2>1 DEF BalanceType
      <3>2. rows = P \cup Q
        BY <2>2
      <3> HIDE DEF P, Q, rows
      <3> QED
        BY <3>1, <3>2, FS_Union
    <2>4. IsFiniteSet(paid)
      <3> DEFINE ids == AcceptedOn(p, team, forTeam, days)
                 f == [id \in ids |-> [id |-> id, day |-> CHOOSE day \in p[id].acceptedAt : TRUE,
                                       amount |-> p[id].amount]]
      <3>1. ids \subseteq PaymentId
        BY DEF AcceptedOn, PaymentRows
      <3>2. IsFiniteSet(ids)
        BY <3>1, FS_Subset, ViewsAssumption
      <3>3. paid = {f[id] : id \in ids}
        BY DEF PaidRows
      <3> HIDE DEF f, ids, paid
      <3>4. IsFiniteSet({f[id] : id \in ids})
        BY <3>2, ImageFinite
      <3> QED
        BY <3>3, <3>4
    <2> HIDE DEF rows, paid
    <2> QED
      BY <2>3, <2>4, FS_Union
  <1>5. \A r \in R : r.day \in days
    BY <1>2, <1>3
  <1>6. S = {key[r] : r \in R} /\ \A r \in R : key[r] = bucket(unit, r.day)
    OBVIOUS
  <1>7. \A x \in S : \E day \in days : x = bucket(unit, day)
    <2> HIDE DEF key, R
    <2> QED
      BY <1>5, <1>6
  <1>8. \A x \in S : x \in Nat
    <2>1. \A day \in days : bucket(unit, day) \in Nat
      BY <1>1, BucketLemma
    <2> QED
      BY <1>7, <2>1
  <1>9. IsFiniteSet(S)
    <2> HIDE DEF key, R
    <2>1. IsFiniteSet({key[r] : r \in R})
      BY <1>4, ImageFinite
    <2> QED
      BY <1>6, <2>1
  <1>10. ASSUME NEW bt \in BalanceType, NEW x, IsRow(d, x),
                x.account \in Scope(team, forTeam, bt), x.day \in days
         PROVE  bucket(unit, x.day) \in S
    <2>1. x \in LogRows(d, Scope(team, forTeam, bt), days)
      BY <1>10, LogRowsMember
    <2>2. x \in R
      BY <2>1 DEF WindowRows
    <2> HIDE DEF key, R
    <2> QED
      BY <1>6, <2>2
  <1> DEFINE s == Ascending(S)
             n == Cardinality(S)
  <1> HIDE DEF rows, paid, R, key
  <1>11. /\ n \in Nat /\ DOMAIN s = 1 .. n
         /\ \A i \in 1 .. n : s[i] \in S
         /\ \A i, j \in 1 .. n : i < j => s[i] < s[j]
         /\ \A x \in S : \E i \in 1 .. n : s[i] = x
    <2>1. Lists(s, n, S)
      BY <1>8, <1>9, AscendingLemma
    <2> HIDE DEF s, n
    <2> QED
      BY <2>1 DEF Lists
  <1> HIDE DEF s, n
  <1>12. \A i \in 1 .. n : \E day \in days : s[i] = bucket(unit, day)
    BY <1>7, <1>11
  <1>13. \A bt \in BalanceType : \A x :
           IsRow(d, x) /\ x.account \in Scope(team, forTeam, bt) /\ x.day \in days
             => \E i \in 1 .. n : s[i] = bucket(unit, x.day)
    BY <1>10, <1>11
  <1>14. Periods(d, team, forTeam, unit, days, s, n)
    BY <1>11, <1>12, <1>13 DEF Periods
  <1> QED
    BY <1>14 DEF s, n

(* The rows that Timeline puts into a period, of one balance type.         *)
LEMMA PeriodRows ==
  ASSUME NEW d, NEW team \in Readers, NEW forTeam \in Filters(team), NEW bt \in BalanceType,
         NEW unit, NEW key, NEW start, NEW end, NEW days, days = From(start, end),
         NEW A, A = Scope(team, forTeam, bt)
  PROVE  {r \in InBucket(WindowRows(d, team, forTeam, start, end), unit, key) :
            r.account[3] = bt}
           = LogRows(d, A, DaysOf(unit, days, key))
  <1> DEFINE rows == WindowRows(d, team, forTeam, start, end)
             X == {r \in InBucket(rows, unit, key) : r.account[3] = bt}
             Y == LogRows(d, A, DaysOf(unit, days, key))
             Own(b) == LogRows(d, Scope(team, forTeam, b), days)
  <1>1. rows = UNION {Own(b) : b \in BalanceType}
    BY DEF WindowRows
  <1>2. \A b \in BalanceType : \A x :
          x \in Own(b) <=> IsRow(d, x) /\ x.account \in Scope(team, forTeam, b) /\ x.day \in days
    BY LogRowsMember
  <1>3. \A x : x \in Y <=> IsRow(d, x) /\ x.account \in A /\ x.day \in DaysOf(unit, days, key)
    BY LogRowsMember
  <1>4. \A day : day \in DaysOf(unit, days, key) <=> day \in days /\ bucket(unit, day) = key
    BY DEF DaysOf
  <1>5. \A b \in BalanceType : \A a \in Scope(team, forTeam, b) : a[3] = b
    BY ScopeType
  <1>6. \A x : x \in X <=> /\ \E b \in BalanceType : x \in Own(b)
                           /\ bucket(unit, x.day) = key /\ x.account[3] = bt
    BY <1>1 DEF InBucket
  <1> HIDE DEF X, Y, Own, rows
  <1>7. ASSUME NEW x
        PROVE  x \in X <=> x \in Y
    <2>1. ASSUME x \in X PROVE x \in Y
      <3>1. PICK b \in BalanceType : x \in Own(b)
        BY <1>6, <2>1
      <3>2. IsRow(d, x) /\ x.account \in Scope(team, forTeam, b) /\ x.day \in days
        BY <1>2, <3>1
      <3>3. b = bt
        BY <1>5, <1>6, <2>1, <3>2
      <3> QED
        BY <1>3, <1>4, <1>6, <2>1, <3>2, <3>3
    <2>2. ASSUME x \in Y PROVE x \in X
      <3>1. /\ IsRow(d, x) /\ x.account \in A /\ x.day \in days
            /\ bucket(unit, x.day) = key
        BY <1>3, <1>4, <2>2
      <3>2. x \in Own(bt) /\ x.account[3] = bt
        BY <1>2, <1>5, <3>1
      <3> QED
        BY <1>6, <3>1, <3>2
    <2> QED
      BY <2>1, <2>2
  <1>8. X = Y
    BY <1>7
  <1> QED
    BY <1>8 DEF X, Y, rows

(* The next period adds its rows.                                          *)
LEMMA UptoStep ==
  ASSUME NEW d \in Ledgers, NEW A, A \subseteq Account, IsFiniteSet(A),
         NEW team, NEW forTeam, NEW unit \in Unit, NEW start \in Nat, NEW end,
         NEW days, days = From(start, end), NEW keys, NEW n,
         Periods(d, team, forTeam, unit, days, keys, n), NEW i \in 1 .. n
  PROVE  Changed(LogRows(d, A, Upto(unit, keys, start, days, i)))
           = Changed(LogRows(d, A, Upto(unit, keys, start, days, i - 1)))
               + Changed(LogRows(d, A, DaysOf(unit, days, keys[i])))
  <1>1. \A day \in days : day \in Nat /\ start <= day
    BY ViewsAssumption DEF From
  <1>2. n \in Nat /\ \A j, k \in 1 .. n : j < k => keys[j] < keys[k]
    BY DEF Periods
  <1>3. \A k \in 1 .. n : keys[k] \in Nat
    <2>1. \A k \in 1 .. n : \E day \in days : keys[k] = bucket(unit, day)
      BY DEF Periods
    <2>2. \A day \in days : bucket(unit, day) \in Nat
      BY <1>1, BucketLemma
    <2> QED
      BY <2>1, <2>2
  <1> DEFINE U(k) == Upto(unit, keys, start, days, k)
             X == DaysOf(unit, days, keys[i])
  <1>4. \A j : j \in 1 .. i <=> j \in 1 .. (i - 1) \/ j = i
    BY <1>2
  <1>5. \A k : U(k) = DaysBefore(start)
                        \cup {day \in days : \E j \in 1 .. k : bucket(unit, day) = keys[j]}
    BY DEF Upto
  <1>6. X = {day \in days : bucket(unit, day) = keys[i]}
    BY DEF DaysOf
  <1>7. U(i) = U(i - 1) \cup X
    <2>1. \A day \in days : (\E j \in 1 .. i : bucket(unit, day) = keys[j])
                              <=> \/ \E j \in 1 .. (i - 1) : bucket(unit, day) = keys[j]
                                  \/ bucket(unit, day) = keys[i]
      BY <1>4
    <2> HIDE DEF U, X
    <2> QED
      BY <1>5, <1>6, <2>1
  <1>8. U(i - 1) \cap X = {}
    <2>1. \A j \in 1 .. (i - 1) : keys[j] # keys[i]
      <3> SUFFICES ASSUME NEW j \in 1 .. (i - 1)
                   PROVE  keys[j] # keys[i]
        OBVIOUS
      <3>1. j \in 1 .. n /\ j < i
        BY <1>2
      <3>2. keys[j] < keys[i] /\ keys[j] \in Nat /\ keys[i] \in Nat
        BY <1>2, <1>3, <3>1
      <3> QED
        BY <3>2
    <2>2. \A day \in days : day \notin DaysBefore(start)
      <3>1. \A day \in days : ~(day < start)
        BY <1>1
      <3> QED
        BY <3>1 DEF DaysBefore
    <2> HIDE DEF U, X
    <2> QED
      BY <1>5, <1>6, <2>1, <2>2
  <1> HIDE DEF U, X
  <1>9. Changed(LogRows(d, A, U(i - 1) \cup X))
          = Changed(LogRows(d, A, U(i - 1))) + Changed(LogRows(d, A, X))
    BY <1>8, LogRowsUnion
  <1>10. Changed(LogRows(d, A, U(i)))
          = Changed(LogRows(d, A, U(i - 1))) + Changed(LogRows(d, A, X))
    BY <1>7, <1>9
  <1> QED
    BY <1>10 DEF U, X

(* The rows of the first i periods and of the days before the window are   *)
(* those up to the end of the i-th period or of the window; when no day is *)
(* after the window, all periods have all rows.                            *)
LEMMA UptoRows ==
  ASSUME NEW d \in Ledgers, NEW team \in Readers, NEW forTeam \in Filters(team),
         NEW bt \in BalanceType, NEW unit \in Unit, NEW w \in Windows, NEW keys, NEW n,
         Periods(d, team, forTeam, unit, From(w[1], w[2] + 1), keys, n), NEW i \in 1 .. n
  PROVE  /\ LogRows(d, Scope(team, forTeam, bt),
                    Upto(unit, keys, w[1], From(w[1], w[2] + 1), i))
              = LogRows(d, Scope(team, forTeam, bt), Until(w, unit, keys[i]))
         /\ i = n /\ (\A day \in Day : day <= w[2])
              => LogRows(d, Scope(team, forTeam, bt),
                         Upto(unit, keys, w[1], From(w[1], w[2] + 1), i))
                   = LogRows(d, Scope(team, forTeam, bt), Day)
  <1> DEFINE days == From(w[1], w[2] + 1)
             A == Scope(team, forTeam, bt)
             until == Until(w, unit, keys[i])
             U == Upto(unit, keys, w[1], days, i)
  <1>1. /\ w[1] \in Nat /\ w[2] \in Nat /\ w[1] <= w[2] /\ unit \in Nat
        /\ \A day \in Day : day \in Nat
    BY ViewsAssumption DEF Windows
  <1>2. \A day : day \in days <=> day \in Day /\ w[1] <= day /\ day <= w[2]
    <2>1. \A day \in Day : day < w[2] + 1 <=> day <= w[2]
      BY <1>1
    <2> QED
      BY <2>1 DEF From
  <1>3. /\ n \in Nat
        /\ \A j, k \in 1 .. n : j < k => keys[j] < keys[k]
        /\ \A j \in 1 .. n : \E day \in days : keys[j] = bucket(unit, day)
        /\ \A x : IsRow(d, x) /\ x.account \in A /\ x.day \in days
             => \E j \in 1 .. n : keys[j] = bucket(unit, x.day)
    BY DEF Periods
  <1>4. \A j \in 1 .. n : keys[j] \in Nat
    <2>1. \A day \in days : bucket(unit, day) \in Nat
      BY <1>1, <1>2, BucketLemma
    <2> QED
      BY <1>3, <2>1
  <1>5. \A j \in 1 .. n : keys[j] <= keys[i] <=> j <= i
    <2> SUFFICES ASSUME NEW j \in 1 .. n
                 PROVE  keys[j] <= keys[i] <=> j <= i
      OBVIOUS
    <2>1. j < i \/ j = i \/ i < j
      BY <1>3
    <2>2. keys[i] \in Nat /\ keys[j] \in Nat
      BY <1>4
    <2>3. j < i => keys[j] < keys[i]
      BY <1>3
    <2>4. i < j => keys[i] < keys[j]
      BY <1>3
    <2> QED
      BY <1>3, <2>1, <2>2, <2>3, <2>4
  <1>6. PICK first \in days : keys[i] = bucket(unit, first)
    BY <1>3
  <1>7. \A day : day \in U <=> \/ day \in Day /\ day < w[1]
                               \/ day \in days /\ \E j \in 1 .. i : bucket(unit, day) = keys[j]
    BY DEF Upto, DaysBefore
  <1>8. \A day \in Day : day < keys[i] + unit <=> bucket(unit, day) <= keys[i]
    BY <1>1, <1>2, <1>6, BucketLemma
  <1>9. \A day \in Day : day < w[1] => day < keys[i] + unit
    <2>1. first < keys[i] + unit /\ w[1] <= first /\ first \in Nat
      BY <1>1, <1>2, <1>6, BucketLemma
    <2>2. \A day \in Day : day \in Nat
      BY <1>1
    <2> QED
      BY <1>1, <1>4, <2>1, <2>2
  <1>10. A \subseteq Account
    BY ScopeType
  <1> HIDE DEF days, A, U
  <1>11. LogRows(d, A, U) = LogRows(d, A, until)
    <2> USE DEF Until
    <2>1. ASSUME NEW x, IsRow(d, x), x.account \in A
          PROVE  x.day \in U <=> x.day \in until
      <3>1. x.day \in Day /\ x.day \in Nat
        BY <1>10, <2>1, RowLemma
      <3>2. CASE x.day < w[1]
        <4>1. x.day \in U
          BY <1>7, <3>1, <3>2
        <4>2. x.day <= w[2]
          BY <1>1, <3>1, <3>2
        <4> QED
          BY <1>9, <3>1, <3>2, <4>1, <4>2
      <3>3. CASE ~(x.day < w[1]) /\ ~(x.day <= w[2])
        BY <1>2, <1>7, <3>3
      <3>4. CASE ~(x.day < w[1]) /\ x.day <= w[2]
        <4>1. x.day \in days
          BY <1>1, <1>2, <3>1, <3>4
        <4>2. PICK k \in 1 .. n : keys[k] = bucket(unit, x.day)
          BY <1>3, <2>1, <4>1
        <4>3. x.day \in until <=> k <= i
          BY <1>5, <1>8, <3>1, <3>4, <4>2
        <4>4. \A j \in 1 .. n : keys[j] = keys[k] => j = k
          <5> SUFFICES ASSUME NEW j \in 1 .. n, keys[j] = keys[k] PROVE j = k
            OBVIOUS
          <5>1. keys[j] \in Nat /\ (j < k \/ j = k \/ k < j)
            BY <1>3, <1>4
          <5>2. (j < k => keys[j] < keys[k]) /\ (k < j => keys[k] < keys[j])
            BY <1>3
          <5> QED
            BY <5>1, <5>2
        <4>5. (\E j \in 1 .. i : bucket(unit, x.day) = keys[j]) <=> k <= i
          <5>1. \A j \in 1 .. i : j \in 1 .. n /\ j <= i
            BY <1>3
          <5>2. k <= i => k \in 1 .. i
            BY <1>3
          <5> QED
            BY <4>2, <4>4, <5>1, <5>2
        <4>6. x.day \in U <=> \E j \in 1 .. i : bucket(unit, x.day) = keys[j]
          BY <1>7, <3>4, <4>1
        <4> QED
          BY <4>3, <4>5, <4>6
      <3> QED
        BY <3>2, <3>3, <3>4
    <2> QED
      BY <2>1, LogRowsSame
  <1>12. ASSUME i = n, \A day \in Day : day <= w[2]
         PROVE  LogRows(d, A, U) = LogRows(d, A, Day)
    <2>1. ASSUME NEW x, IsRow(d, x), x.account \in A
          PROVE  x.day \in U <=> x.day \in Day
      <3>1. x.day \in Day /\ x.day \in Nat
        BY <1>10, <2>1, RowLemma
      <3>2. CASE x.day < w[1]
        BY <1>7, <3>1, <3>2
      <3>3. CASE ~(x.day < w[1])
        <4>1. x.day \in days
          BY <1>1, <1>2, <1>12, <3>1, <3>3
        <4>2. \E j \in 1 .. i : bucket(unit, x.day) = keys[j]
          BY <1>3, <1>12, <2>1, <4>1
        <4> QED
          BY <1>7, <3>1, <4>1, <4>2
      <3> QED
        BY <3>2, <3>3
    <2> QED
      BY <2>1, LogRowsSame
  <1> QED
    BY <1>11, <1>12 DEF days, A, U

(* The timeline b starts each of the periods keys at one of them, and      *)
(* shows the opening plus what the log has from the window's start on.     *)
Shows(b, opening, d, team, forTeam, unit, start, end, keys, n) ==
  /\ Periods(d, team, forTeam, unit, From(start, end), keys, n)
  /\ DOMAIN b = 1 .. n /\ Len(b) = n
  /\ \A i \in 1 .. n :
       /\ b[i].start = keys[i]
       /\ \A bt \in BalanceType :
            b[i].balance[bt]
              = opening[bt]
                  + Changed(LogRows(d, Scope(team, forTeam, bt),
                                    Upto(unit, keys, start, From(start, end), i)))
                  - Changed(LogRows(d, Scope(team, forTeam, bt), DaysBefore(start)))

(* Whatever the opening: it is carried along, and nothing is counted twice. *)
LEMMA TimelineShows ==
  ASSUME NEW d \in Ledgers, NEW p \in Payments,
         \A id \in PaymentId : p[id].status = "ACCEPTED" =>
           \E day \in Day : p[id].acceptedAt = {day},
         NEW team \in Readers, NEW forTeam \in Filters(team), NEW unit \in Unit,
         NEW start \in Nat, NEW end, NEW opening \in [BalanceType -> Int], NEW b,
         b = Timeline(opening, WindowRows(d, team, forTeam, start, end),
                      PaidRows(p, team, forTeam, From(start, end)), unit)
  PROVE  \E keys, n : Shows(b, opening, d, team, forTeam, unit, start, end, keys, n)
  <1> DEFINE days == From(start, end)
             rows == WindowRows(d, team, forTeam, start, end)
             paid == PaidRows(p, team, forTeam, days)
             S == {bucket(unit, r.day) : r \in rows \cup paid}
             keys == Ascending(S)
             n == Cardinality(S)
             of(j, t) == {r \in InBucket(rows, unit, keys[j]) : r.account[3] = t}
             changes == [j \in DOMAIN keys |-> [t \in BalanceType |-> Changed(of(j, t))]]
             Sc(t) == Scope(team, forTeam, t)
             U(j) == Upto(unit, keys, start, days, j)
             g == [j \in 0 .. n |->
                     [t \in BalanceType |-> opening[t] + Changed(LogRows(d, Sc(t), U(j)))
                                              - Changed(LogRows(d, Sc(t), DaysBefore(start)))]]
  <1>1. Periods(d, team, forTeam, unit, days, keys, n)
    <2>2. days = From(start, end)
      OBVIOUS
    <2>3. S = {bucket(unit, r.day) : r \in WindowRows(d, team, forTeam, start, end)
                                             \cup PaidRows(p, team, forTeam, days)}
      OBVIOUS
    <2> HIDE DEF rows, paid, days, keys, n, S
    <2>4. Periods(d, team, forTeam, unit, days, Ascending(S), Cardinality(S))
      BY <2>2, <2>3, PeriodsLemma
    <2> QED
      BY <2>4 DEF keys, n
  <1>2. n \in Nat /\ DOMAIN keys = 1 .. n
    BY <1>1 DEF Periods
  <1> DEFINE item(j) == [start |-> keys[j], balance |-> Running(opening, changes)[j],
                         change |-> changes[j],
                         breakdown |-> [t \in BalanceType |-> ChangeSums(of(j, t))],
                         totalPayment |->
                           SumFunction([r \in InBucket(paid, unit, keys[j]) |-> r.amount])]
  <1>3. b = [j \in 1 .. n |-> item(j)]
    <2>1. b = Timeline(opening, rows, paid, unit)
      OBVIOUS
    <2> HIDE DEF rows, paid
    <2> QED
      BY <1>2, <2>1 DEF Timeline
  <1>4. /\ DOMAIN b = 1 .. n /\ Len(b) = n
        /\ \A i \in 1 .. n : b[i].start = keys[i] /\ b[i].balance = Running(opening, changes)[i]
    <2>1. \A j : item(j).start = keys[j] /\ item(j).balance = Running(opening, changes)[j]
      OBVIOUS
    <2> HIDE DEF item, n, changes, keys
    <2>2. DOMAIN b = 1 .. n /\ Len(b) = n
      BY <1>2, <1>3
    <2>3. \A i \in 1 .. n : b[i] = item(i)
      BY <1>3, <2>2
    <2> QED
      BY <2>1, <2>2, <2>3
  <1> HIDE DEF item
  <1>5. Len(changes) = n
    <2> DEFINE change(j) == [t \in BalanceType |-> Changed(of(j, t))]
    <2>1. changes = [j \in 1 .. n |-> change(j)]
      BY <1>2
    <2> HIDE DEF change, changes, n
    <2> QED
      BY <1>2, <2>1
  <1>6. \A t \in BalanceType : Sc(t) \subseteq Account /\ IsFiniteSet(Sc(t))
    BY ScopeType
  <1>7. \A t \in BalanceType : \A j \in 0 .. n : Changed(LogRows(d, Sc(t), U(j))) \in Int
    <2> HIDE DEF U, Sc, n
    <2> QED
      BY <1>6, LogRowsSum
  <1>8. g[0] = opening
    <2>1. U(0) = DaysBefore(start)
      BY DEF Upto
    <2>2. g[0] = [t \in BalanceType |-> opening[t] + Changed(LogRows(d, Sc(t), U(0)))
                                       - Changed(LogRows(d, Sc(t), DaysBefore(start)))]
      BY <1>2
    <2>3. 0 \in 0 .. n
      BY <1>2
    <2>4. \A t \in BalanceType : opening[t] \in Int /\ Changed(LogRows(d, Sc(t), U(0))) \in Int
      BY <1>7, <2>3
    <2> HIDE DEF g, U, Sc
    <2>5. \A t \in BalanceType : opening[t] + Changed(LogRows(d, Sc(t), U(0)))
                                  - Changed(LogRows(d, Sc(t), DaysBefore(start))) = opening[t]
      BY <2>1, <2>4
    <2>6. g[0] = [t \in BalanceType |-> opening[t]]
      BY <2>2, <2>5
    <2> QED
      BY <2>6
  <1>9. ASSUME NEW j \in 1 .. n, NEW t \in BalanceType
        PROVE  /\ changes[j][t] \in Int
               /\ Changed(LogRows(d, Sc(t), U(j)))
                    = Changed(LogRows(d, Sc(t), U(j - 1))) + changes[j][t]
    <2>1. of(j, t) = LogRows(d, Sc(t), DaysOf(unit, days, keys[j]))
      <3> DEFINE key == keys[j]
                 B == Sc(t)
      <3>1. B = Scope(team, forTeam, t) /\ days = From(start, end)
        OBVIOUS
      <3> HIDE DEF keys, B, days, key
      <3>2. {r \in InBucket(WindowRows(d, team, forTeam, start, end), unit, key) :
               r.account[3] = t} = LogRows(d, B, DaysOf(unit, days, key))
        BY <3>1, PeriodRows
      <3> QED
        BY <3>2 DEF key, B
    <2>2. changes[j][t] = Changed(of(j, t))
      BY <1>2
    <2>3. Changed(LogRows(d, Sc(t), Upto(unit, keys, start, days, j)))
            = Changed(LogRows(d, Sc(t), Upto(unit, keys, start, days, j - 1)))
                + Changed(LogRows(d, Sc(t), DaysOf(unit, days, keys[j])))
      <3> DEFINE B == Sc(t)
      <3>1. B \subseteq Account /\ IsFiniteSet(B) /\ days = From(start, end)
        BY <1>6
      <3> HIDE DEF keys, B, days, n
      <3>2. Changed(LogRows(d, B, Upto(unit, keys, start, days, j)))
            = Changed(LogRows(d, B, Upto(unit, keys, start, days, j - 1)))
                + Changed(LogRows(d, B, DaysOf(unit, days, keys[j])))
        BY <1>1, <3>1, UptoStep
      <3> QED
        BY <3>2 DEF B
    <2> HIDE DEF changes, of, Sc, keys, days, n
    <2>4. Changed(LogRows(d, Sc(t), DaysOf(unit, days, keys[j]))) \in Int
      BY <1>6, LogRowsSum
    <2> QED
      BY <2>1, <2>2, <2>3, <2>4
  <1>10. ASSUME NEW j \in 1 .. n
         PROVE  g[j] = [t \in BalanceType |-> g[j - 1][t] + changes[j][t]]
    <2>1. j \in 0 .. n /\ j - 1 \in 0 .. n
      BY <1>2
    <2> DEFINE C(k, t) == Changed(LogRows(d, Sc(t), U(k)))
               B(t) == Changed(LogRows(d, Sc(t), DaysBefore(start)))
    <2>2. /\ g[j] = [t \in BalanceType |-> opening[t] + C(j, t) - B(t)]
          /\ \A t \in BalanceType : g[j - 1][t] = opening[t] + C(j - 1, t) - B(t)
      BY <2>1
    <2>3. \A t \in BalanceType : /\ opening[t] \in Int /\ C(j, t) \in Int /\ C(j - 1, t) \in Int
                                 /\ B(t) \in Int
      <3>1. \A t \in BalanceType : B(t) \in Int
        <4> HIDE DEF Sc
        <4> QED
          BY <1>6, LogRowsSum
      <3>2. \A t \in BalanceType : C(j, t) \in Int /\ C(j - 1, t) \in Int
        BY <1>7, <2>1
      <3> HIDE DEF B, C
      <3> QED
        BY <3>1, <3>2
    <2>4. \A t \in BalanceType : changes[j][t] \in Int /\ C(j, t) = C(j - 1, t) + changes[j][t]
      BY <1>9
    <2> HIDE DEF g, changes, C, B, n
    <2>5. \A t \in BalanceType : changes[j][t] = C(j, t) - C(j - 1, t)
      BY <2>3, <2>4
    <2>6. \A t \in BalanceType : opening[t] + C(j, t) - B(t) = g[j - 1][t] + changes[j][t]
      BY <2>2, <2>3, <2>5
    <2> QED
      BY <2>2, <2>6
  <1>11. \A i \in 0 .. n : Running(opening, changes)[i] = g[i]
    <2> HIDE DEF changes, g, n
    <2> QED
      BY <1>2, <1>5, <1>8, <1>10, RunningLemma
  <1>12. ASSUME NEW i \in 1 .. n, NEW t \in BalanceType
         PROVE  b[i].balance[t] = opening[t] + Changed(LogRows(d, Sc(t), U(i)))
                                    - Changed(LogRows(d, Sc(t), DaysBefore(start)))
    <2>1. i \in 0 .. n
      BY <1>2
    <2>2. g[i][t] = opening[t] + Changed(LogRows(d, Sc(t), U(i)))
                      - Changed(LogRows(d, Sc(t), DaysBefore(start)))
      BY <2>1
    <2> HIDE DEF changes, g, n, U, Sc
    <2> QED
      BY <1>4, <1>11, <2>1, <2>2
  <1>13. Shows(b, opening, d, team, forTeam, unit, start, end, keys, n)
    <2> DEFINE bef(t) == Changed(LogRows(d, Sc(t), DaysBefore(start)))
    <2>1. \A i \in 1 .. n : \A t \in BalanceType :
             b[i].balance[t] = opening[t] + Changed(LogRows(d, Sc(t), U(i))) - bef(t)
      BY <1>12
    <2>2. \A i \in 1 .. n : b[i].start = keys[i]
      BY <1>4
    <2> HIDE DEF n, keys
    <2> QED
      BY <1>1, <1>4, <2>1, <2>2 DEF Shows
  <1> HIDE DEF keys, n
  <1> QED
    BY <1>13

(* The timeline of one reader, on any books that keep ViewInv.             *)
LEMMA TimelineReplays ==
  ASSUME NEW d \in Ledgers, Viewed(d), NEW p \in Payments, PaymentViews(d, p),
         NEW team \in Readers, NEW forTeam \in Filters(team), NEW unit \in Unit,
         NEW w \in Windows, NEW b,
         b = TeamBalanceTimeline(d, p, team, forTeam, unit, w[1], w[2] + 1),
         NEW i \in DOMAIN b, NEW bt \in BalanceType,
         NEW A, A = Scope(team, forTeam, bt),
         NEW until, until = {day \in Day : day <= w[2] /\ day < b[i].start + unit}
  PROVE  /\ b[i].balance[bt] = Changed(LogRows(d, A, until))
         /\ i = Len(b) /\ (\A day \in Day : day <= w[2]) => b[i].balance[bt] = Balances(d, A)
  <1> DEFINE start == w[1]
             end == w[2] + 1
             opening == Openings(d, team, forTeam, start)
  <1>1. start \in Nat /\ w[2] \in Nat /\ end = w[2] + 1
    BY ViewsAssumption DEF Windows
  <1>2. A \subseteq Account /\ IsFiniteSet(A)
    BY ScopeType
  <1>3. ASSUME NEW t \in BalanceType
        PROVE  /\ opening[t] = Changed(LogRows(d, Scope(team, forTeam, t), DaysBefore(start)))
               /\ opening[t] \in Int
    <2> DEFINE B == Scope(team, forTeam, t)
    <2>1. B \subseteq Account /\ IsFiniteSet(B)
      BY ScopeType
    <2>2. opening[t] = Opening(d, B, start)
      BY DEF Openings
    <2> HIDE DEF B, opening, start
    <2>3. Opening(d, B, start) = Changed(LogRows(d, B, DaysBefore(start)))
      BY <1>1, <2>1, OpeningLemma
    <2>4. Changed(LogRows(d, B, DaysBefore(start))) \in Int
      BY <2>1, LogRowsSum
    <2> QED
      BY <2>2, <2>3, <2>4 DEF B
  <1>4. opening \in [BalanceType -> Int]
    BY <1>3 DEF Openings
  <1>5. PICK keys, n : Shows(b, opening, d, team, forTeam, unit, start, end, keys, n)
    <2>1. \A id \in PaymentId : p[id].status = "ACCEPTED" =>
            \E day \in Day : p[id].acceptedAt = {day}
      BY DEF PaymentViews
    <2>2. b = Timeline(opening, WindowRows(d, team, forTeam, start, end),
                       PaidRows(p, team, forTeam, From(start, end)), unit)
      BY DEF TeamBalanceTimeline
    <2> HIDE DEF opening, start, end
    <2> QED
      BY <1>1, <1>4, <2>1, <2>2, TimelineShows
  <1> DEFINE U == Upto(unit, keys, start, From(start, end), i)
  <1>6. /\ Periods(d, team, forTeam, unit, From(start, end), keys, n)
        /\ i \in 1 .. n /\ Len(b) = n /\ b[i].start = keys[i]
        /\ b[i].balance[bt] = opening[bt] + Changed(LogRows(d, A, U))
                                - Changed(LogRows(d, A, DaysBefore(start)))
    <2> HIDE DEF opening, start, end
    <2> QED
      BY <1>5 DEF Shows
  <1>7. Changed(LogRows(d, A, U)) \in Int
    <2> HIDE DEF U
    <2> QED
      BY <1>2, LogRowsSum
  <1>8. b[i].balance[bt] = Changed(LogRows(d, A, U))
    <2>1. opening[bt] = Changed(LogRows(d, A, DaysBefore(start))) /\ opening[bt] \in Int
      BY <1>3
    <2> HIDE DEF opening, U, start, end
    <2> QED
      BY <1>6, <1>7, <2>1
  <1>9. /\ LogRows(d, A, U) = LogRows(d, A, until)
        /\ i = n /\ (\A day \in Day : day <= w[2]) => LogRows(d, A, U) = LogRows(d, A, Day)
    <2>1. until = Until(w, unit, keys[i])
      BY <1>6 DEF Until
    <2>2. /\ LogRows(d, Scope(team, forTeam, bt),
                     Upto(unit, keys, w[1], From(w[1], w[2] + 1), i))
               = LogRows(d, Scope(team, forTeam, bt), Until(w, unit, keys[i]))
          /\ i = n /\ (\A day \in Day : day <= w[2])
              => LogRows(d, Scope(team, forTeam, bt),
                         Upto(unit, keys, w[1], From(w[1], w[2] + 1), i))
                   = LogRows(d, Scope(team, forTeam, bt), Day)
      <3>1. Periods(d, team, forTeam, unit, From(w[1], w[2] + 1), keys, n) /\ i \in 1 .. n
        BY <1>6
      <3> HIDE DEF opening, start, end, U
      <3> QED
        BY <3>1, UptoRows, SMTT(30)
    <2> QED
      BY <2>1, <2>2
  <1>10. Balances(d, A) = Changed(LogRows(d, A, Day))
    BY <1>2, BalancesLemma
  <1> HIDE DEF U
  <1> QED
    BY <1>6, <1>8, <1>9, <1>10

(* Where the books are kept, every timeline replays the log.               *)
LEMMA TimelineLemma == ViewInv => TimelineIsLogReplay
  <1>1. ViewInv => /\ db \in Ledgers /\ Viewed(db) /\ payments \in Payments
                   /\ PaymentViews(db, payments)
    BY DEF ViewInv, LedgerInv, Books, PaymentsOK, Payments
  <1> SUFFICES ASSUME db \in Ledgers, Viewed(db), payments \in Payments,
                      PaymentViews(db, payments),
                      NEW team \in Readers, NEW forTeam \in Filters(team),
                      NEW unit \in Unit, NEW w \in Windows
               PROVE  LET b == TeamBalanceTimeline(db, payments, team, forTeam, unit,
                                                   w[1], w[2] + 1)
                      IN  \A i \in DOMAIN b, bt \in BalanceType :
                            LET accounts == Scope(team, forTeam, bt)
                                until == {day \in Day : day <= w[2] /\ day < b[i].start + unit}
                            IN  /\ b[i].balance[bt] = Changed(LogRows(db, accounts, until))
                                /\ i = Len(b) /\ (\A day \in Day : day <= w[2])
                                     => b[i].balance[bt] = Balances(db, accounts)
    BY <1>1, Zenon DEF TimelineIsLogReplay
  <1> DEFINE b == TeamBalanceTimeline(db, payments, team, forTeam, unit, w[1], w[2] + 1)
  <1>2. b = TeamBalanceTimeline(db, payments, team, forTeam, unit, w[1], w[2] + 1)
    OBVIOUS
  <1> HIDE DEF b
  <1>3. ASSUME NEW i \in DOMAIN b, NEW bt \in BalanceType
        PROVE  LET accounts == Scope(team, forTeam, bt)
                   until == {day \in Day : day <= w[2] /\ day < b[i].start + unit}
               IN  /\ b[i].balance[bt] = Changed(LogRows(db, accounts, until))
                   /\ i = Len(b) /\ (\A day \in Day : day <= w[2])
                        => b[i].balance[bt] = Balances(db, accounts)
    <2> DEFINE accounts == Scope(team, forTeam, bt)
               until == {day \in Day : day <= w[2] /\ day < b[i].start + unit}
    <2>1. /\ accounts = Scope(team, forTeam, bt)
          /\ until = {day \in Day : day <= w[2] /\ day < b[i].start + unit}
      OBVIOUS
    <2> HIDE DEF accounts, until
    <2>2. /\ b[i].balance[bt] = Changed(LogRows(db, accounts, until))
          /\ i = Len(b) /\ (\A day \in Day : day <= w[2])
               => b[i].balance[bt] = Balances(db, accounts)
      BY <1>2, <2>1, TimelineReplays
    <2> QED
      BY <2>2 DEF accounts, until
  <1> QED
    BY <1>3 DEF b

(* Whatever the teams, the days, the window and the periods: every balance *)
(* that the timeline shows is the replay of the log, and the last one the  *)
(* balance of the team_balances rows.                                      *)
THEOREM LedgerTimeline == Spec => []TimelineIsLogReplay
  BY TimelineLemma, LedgerViewInvariant, PTL
-----------------------------------------------------------------------------
(* OrderFlow: the events of orders.                                        *)

(* The postings of fees, of any kind but the one of payments; no account   *)
(* of the unset team is posted to.                                         *)
FeeEntry ==
  {p \in Entry : p.kind # "PAYMENT" /\ p.acct[1] # NoTeam /\ p.acct[2] # NoTeam}

(* What an order owes is booked as fees.                                   *)
LEMMA OwesFees ==
  ASSUME NEW debtor \in TeamId, NEW creditor \in TeamId, NEW kind \in ChangeType,
         kind # "PAYMENT", NEW amount \in Int, NEW reverse \in BOOLEAN, NEW ref \in Ref
  PROVE  Owes(debtor, creditor, kind, amount, reverse, ref) \in Seq(FeeEntry)
  <1> DEFINE s == Owes(debtor, creditor, kind, amount, reverse, ref)
             p == IF reverse THEN Posting(debtor, creditor, "PAYABLE", kind, amount, ref)
                  ELSE Posting(creditor, debtor, "RECEIVABLE", kind, amount, ref)
  <1>1. CASE Degenerate(debtor, creditor, amount)
    BY <1>1 DEF Owes
  <1>2. CASE ~Degenerate(debtor, creditor, amount)
    <2>1. s = <<p>>
      BY <1>2 DEF Owes
    <2>2. debtor \in Team \ {NoTeam} /\ creditor \in Team \ {NoTeam}
      BY <1>2 DEF Degenerate, TeamId
    <2>3. p \in Entry /\ p.kind = kind /\ p.acct[1] # NoTeam /\ p.acct[2] # NoTeam
      <3>1. CASE reverse
        BY <2>2, <3>1 DEF Posting, Entry, Account, BalanceType
      <3>2. CASE ~reverse
        BY <2>2, <3>2 DEF Posting, Entry, Account, BalanceType
      <3> QED
        BY <3>1, <3>2
    <2> HIDE DEF s, p
    <2>4. s \in Seq(FeeEntry)
      <3>1. p \in FeeEntry
        BY <2>3 DEF FeeEntry
      <3> QED
        BY <2>1, <3>1
    <2> QED
      BY <2>4 DEF s
  <1> QED
    BY <1>1, <1>2

LEMMA OrderFees ==
  ASSUME NEW o \in DOMAIN OrderRow, NEW reverse \in BOOLEAN
  PROVE  postOrderBalances(o, reverse) \in Seq(FeeEntry)
  <1> DEFINE row == OrderRow[o]
             items == row.items
             n == Len(items)
             ss == [i \in DOMAIN items |->
                      IF i \in CrossItems(o)
                      THEN Owes(row.team, items[i].productTeam, "PRODUCT_FEE",
                                items[i].total, reverse, o)
                      ELSE <<>>]
             P == FeeEntry
  <1>1. /\ row.team \in TeamId /\ row.warehouse \in TeamId /\ row.fee \in Int
        /\ items \in Seq(OrderItem) /\ o \in Ref
        /\ "PRODUCT_FEE" \in ChangeType /\ "WAREHOUSE_FEE" \in ChangeType
    BY RowAssumption DEF ChangeType
  <1>2. n \in Nat /\ DOMAIN items = 1 .. n
    BY <1>1
  <1>3. \A i \in 1 .. n : items[i].productTeam \in TeamId /\ items[i].total \in Int
    <2>1. \A i \in 1 .. n : items[i] \in OrderItem
      BY <1>1
    <2> HIDE DEF items
    <2> QED
      BY <2>1 DEF OrderItem
  <1>4. \A i \in 1 .. n : Owes(row.team, items[i].productTeam, "PRODUCT_FEE",
                               items[i].total, reverse, o) \in Seq(P)
    <2> TAKE i \in 1 .. n
    <2> HIDE DEF row, items
    <2> QED
      BY <1>1, <1>3, OwesFees
  <1>5. ss \in [1 .. n -> Seq(P)]
    <2>1. <<>> \in Seq(P)
      OBVIOUS
    <2> HIDE DEF P, items, row, n
    <2> QED
      BY <1>2, <1>4, <2>1
  <1> DEFINE w == [p \in P |-> 0]
             sums == [i \in 1 .. n |-> SeqSum(w, ss[i])]
  <1>6. FlattenSeq(ss) \in Seq(P)
    <2>1. w \in [P -> Int] /\ \A i \in 1 .. n : sums[i] = SeqSum(w, ss[i])
      OBVIOUS
    <2> HIDE DEF P, ss, w, sums, n
    <2>2. SumsOf(sums, w, P, n, ss)
      BY <1>2, <1>5, <2>1 DEF SumsOf
    <2> QED
      BY <2>2, FlattenSum
  <1>7. Owes(row.team, row.warehouse, "WAREHOUSE_FEE", row.fee, reverse, o) \in Seq(P)
    <2> HIDE DEF row
    <2> QED
      BY <1>1, OwesFees
  <1>8. postOrderBalances(o, reverse)
          = FlattenSeq(ss) \o Owes(row.team, row.warehouse, "WAREHOUSE_FEE", row.fee, reverse, o)
    BY DEF postOrderBalances, postCrossOrderBalance, postWarehouseFeeBalance
  <1> HIDE DEF ss, row, P
  <1> QED
    BY <1>6, <1>7, <1>8 DEF P

(* What every posting of fees keeps is kept by all of an event's.          *)
LEMMA PostAllStays ==
  ASSUME NEW V, NEW d \in V, NEW ps \in Seq(FeeEntry), NEW day \in Day,
         \A x \in V : x \in Ledgers,
         \A x \in V, p \in FeeEntry : Post(x, p, day) \in V
  PROVE  PostAll(d, ps, day) \in V
  <1> DEFINE n == Len(ps)
  <1>1. n \in Nat /\ (\A i \in 1 .. n : ps[i] \in FeeEntry) /\ ps \in Seq(Entry)
    <2>1. \A p \in FeeEntry : p \in Entry
      BY DEF FeeEntry
    <2> HIDE DEF FeeEntry, Entry
    <2> QED
      BY <2>1
  <1>2. PICK L : Bookkeeping(L, d, ps, day)
    BY <1>1, PostAllSteps
  <1>3. /\ L[0] = d /\ L[n] = PostAll(d, ps, day)
        /\ \A i \in 1 .. n : L[i] = Post(L[i - 1], ps[i], day)
    BY <1>2 DEF Bookkeeping
  <1> HIDE DEF n
  <1>4. \A i \in 1 .. n : L[i - 1] \in V => L[i] \in V
    BY <1>1, <1>3
  <1>5. \A i \in 0 .. n : L[i] \in V
    BY <1>1, <1>3, <1>4, StepsStay
  <1>6. n \in 0 .. n
    BY <1>1
  <1> QED
    BY <1>3, <1>5, <1>6
-----------------------------------------------------------------------------
(* The step of the push handler.                                           *)

(* An event of an order books its fees or reverses them.                   *)
LEMMA EventLemma ==
  ASSUME NEW e \in DOMAIN EventDay, ApplyEvent(e[1], e[2])
  PROVE  /\ e[1] \in DOMAIN OrderRow /\ e[2] \in {"OrderCreated", "OrderCanceled"}
         /\ EventDay[e] \in Day /\ (e[2] = "OrderCanceled") \in BOOLEAN
         /\ db' = PostAll(db, postOrderBalances(e[1], e[2] = "OrderCanceled"), EventDay[e])
         /\ orders[e[1]].gate = "admitted" /\ e[2] \notin orders[e[1]].applied
         /\ orders' = [orders EXCEPT ![e[1]].applied = @ \cup {e[2]}]
         /\ UNCHANGED <<payments, limits, sets, reader>>
  <1>1. PICK o \in DOMAIN OrderRow, type \in {"OrderCreated", "OrderCanceled"} :
          e = <<o, type>>
    BY FlowAssumption
  <1>2. e[1] = o /\ e[2] = type /\ EventDay[e] = EventDay[<<o, type>>] /\ EventDay[e] \in Day
    BY <1>1, FlowAssumption
  <1> DEFINE day == EventDay[<<o, type>>]
             m == [sub |-> "selling", type |-> type, subject |-> o, day |-> day]
  <1>3. /\ ApplyEvent(o, type)
        /\ db' = PostAll(db, Postings(m), PostingDay(m, day))
    BY <1>2 DEF ApplyEvent
  <1>4. m.sub = "selling" /\ m.type = type /\ m.subject = o /\ m.day = day
    OBVIOUS
  <1> HIDE DEF m
  <1>5. PostingDay(m, day) = day
    BY <1>4 DEF PostingDay
  <1>6. Postings(m) = postOrderBalances(o, type = "OrderCanceled")
    <2>1. CASE type = "OrderCreated"
      <3>1. (type = "OrderCanceled") = FALSE
        BY <2>1
      <3> QED
        BY <1>4, <2>1, <3>1 DEF Postings
    <2>2. CASE type = "OrderCanceled"
      <3>1. (type = "OrderCanceled") = TRUE
        BY <2>2
      <3> QED
        BY <1>4, <2>2, <3>1 DEF Postings
    <2> QED
      BY <2>1, <2>2
  <1> HIDE DEF day
  <1>7. db' = PostAll(db, postOrderBalances(o, type = "OrderCanceled"), day)
    BY <1>3, <1>5, <1>6
  <1> QED
    BY <1>2, <1>3, <1>7 DEF ApplyEvent, day

(* A fee keeps what is proved of the ledger and its views.                 *)
LEMMA FeeViews ==
  ASSUME NEW d, Books(d), Viewed(d), NEW pay, PaymentViews(d, pay),
         NEW p \in FeeEntry, NEW day \in Day
  PROVE  LET e == Post(d, p, day)
         IN  Books(e) /\ Viewed(e) /\ PaymentViews(e, pay)
  <1> DEFINE a == p.acct
             kind == p.kind
             amount == p.amount
             ref == p.ref
             e == Post(d, p, day)
  <1>1. /\ a \in Account /\ kind \in ChangeType /\ amount \in Int /\ ref \in Ref
        /\ kind # "PAYMENT"
    BY EntryLemma DEF FeeEntry
  <1>2. e = postDoubleEntry(d, a, kind, amount, day, ref) /\ d \in Ledgers
    BY DEF Post, Books
  <1> HIDE DEF a, kind, amount, ref, e
  <1>3. Books(e) /\ Viewed(e)
    BY <1>1, <1>2, PostDoubleEntryBooks, PostDoubleEntryViews
  <1>4. ASSUME NEW team \in Readers, NEW forTeam \in Readers
        PROVE  /\ e[<<team, forTeam, "PAYABLE">>].pending
                    = d[<<team, forTeam, "PAYABLE">>].pending
               /\ \A days : PaidMoves(e, team, forTeam, days) = PaidMoves(d, team, forTeam, days)
    <2>1. team \in Team /\ forTeam \in Team
      BY DEF Readers
    <2>2. <<team, forTeam, "PAYABLE">> \in Account
      BY <2>1 DEF Account, BalanceType
    <2>3. e[<<team, forTeam, "PAYABLE">>].pending = d[<<team, forTeam, "PAYABLE">>].pending
      BY <1>1, <1>2, <2>2, PostDoubleEntryPending
    <2>4. ASSUME NEW days
          PROVE  PaidMoves(e, team, forTeam, days) = PaidMoves(d, team, forTeam, days)
      BY <1>1, <1>2, <2>1, OtherKindPaidMoves
    <2> QED
      BY <2>3, <2>4
  <1>5. ASSUME OnlyPaid PROVE PaidBooked(e, pay)
    <2>1. PaidBooked(d, pay)
      BY <1>5 DEF PaymentViews
    <2>2. ASSUME NEW team \in Readers, NEW forTeam \in Readers, NEW days \in SUBSET Day,
                 team # forTeam
          PROVE  PaidSum(pay, team, forTeam, days) - PaidSum(pay, forTeam, team, days)
                   = PaidMoves(e, team, forTeam, days)
      <3>1. PaidSum(pay, team, forTeam, days) - PaidSum(pay, forTeam, team, days)
              = PaidMoves(d, team, forTeam, days)
        BY <2>1, <2>2 DEF PaidBooked
      <3> QED
        BY <1>4, <3>1
    <2> QED
      BY <2>1, <2>2 DEF PaidBooked
  <1>6. PaymentViews(e, pay)
    BY <1>4, <1>5 DEF PaymentViews
  <1> QED
    BY <1>3, <1>6 DEF e

(* What is proved of Ledger and its views holds where orders are booked    *)
(* and the gate and the readers run: every step is one of the ledger, some *)
(* postings of an order, or none.                                          *)
LEMMA FlowSteps ==
  ASSUME [FlowNext]_flowVars
  PROVE  [Next]_vars \/ \E e \in DOMAIN EventDay : ApplyEvent(e[1], e[2])
  <1>1. CASE UNCHANGED <<db, payments>>
    BY <1>1 DEF vars
  <1>2. CASE Pay
    <2>1. \A pair \in PayPair : pair[1] \in Team /\ pair[2] \in Team
      BY FlowAssumption
    <2>2. Next
      BY <1>2, <2>1 DEF Pay, Next
    <2> QED
      BY <2>2
  <1>3. CASE Read
    BY <1>1, <1>3 DEF Read, ReadOpening, ReadChanges, ReadPayments, ReadPage, ReadTotals,
                      ReadBreakdown
  <1>4. ASSUME NEW o \in Order, ReadLimits(o) \/ ReadDebts(o) PROVE UNCHANGED <<db, payments>>
    BY <1>4 DEF ReadLimits, ReadDebts
  <1>5. ASSUME NEW s \in LimitSet, SetLimit(s.team, s.forTeam, s.threshold)
        PROVE  UNCHANGED <<db, payments>>
    BY <1>5 DEF SetLimit
  <1>6. CASE UNCHANGED flowVars
    BY <1>1, <1>6 DEF flowVars
  <1> QED
    BY <1>1, <1>2, <1>3, <1>4, <1>5, <1>6 DEF FlowNext

(* The ledgers that go with the payments pay.                              *)
LedgersWith(pay) == {d \in Ledgers : Books(d) /\ Viewed(d) /\ PaymentViews(d, pay)}

LEMMA EventViews ==
  ASSUME ViewInv, NEW e \in DOMAIN EventDay, ApplyEvent(e[1], e[2])
  PROVE  ViewInv'
  <1> DEFINE V == LedgersWith(payments)
             ps == postOrderBalances(e[1], e[2] = "OrderCanceled")
  <1>1. db' = PostAll(db, ps, EventDay[e]) /\ EventDay[e] \in Day /\ payments' = payments
    BY EventLemma
  <1>2. ps \in Seq(FeeEntry)
    BY EventLemma, OrderFees
  <1>3. db \in V
    BY DEF LedgersWith, ViewInv, LedgerInv, Books
  <1>4. \A x \in V : x \in Ledgers
    BY DEF LedgersWith
  <1>5. \A x \in V, p \in FeeEntry : Post(x, p, EventDay[e]) \in V
    BY <1>1, FeeViews DEF LedgersWith, Books
  <1> HIDE DEF V, ps
  <1>6. db' \in V
    BY <1>1, <1>2, <1>3, <1>4, <1>5, PostAllStays
  <1>7. Books(db') /\ Viewed(db') /\ PaymentViews(db', payments')
    BY <1>1, <1>6 DEF V, LedgersWith
  <1>8. PaymentsOK'
    BY <1>1 DEF ViewInv, LedgerInv, PaymentsOK
  <1> QED
    BY <1>7, <1>8 DEF ViewInv, LedgerInv, Books, Viewed, PaymentViews, Mirrored

LEMMA FlowViewInvStep == ViewInv /\ [FlowNext]_flowVars => ViewInv'
  BY FlowSteps, ViewInvStep, EventViews

(* The books, the daily rows and the views of payments hold whatever the   *)
(* orders, the gate and the readers do in between.                         *)
THEOREM FlowViewInvariant == FlowSpec => []ViewInv
  <1>1. FlowInit => ViewInv
    BY InitViewInv DEF FlowInit
  <1> QED
    BY <1>1, FlowViewInvStep, PTL DEF FlowSpec

(* The books that the push handler keeps with its fees, in between the     *)
(* payments of the teams, are mirrored and replay, and what every reader   *)
(* adds up from them agrees.                                               *)
THEOREM FlowBooks ==
  FlowSpec => [](/\ MirrorBooks /\ LogReplays /\ DailySpansLog
                 /\ TotalsAgree /\ PaymentsAgree /\ TimelineIsLogReplay)
  <1>1. ViewInv => MirrorBooks /\ LogReplays /\ DailySpansLog
    BY DEF ViewInv, LedgerInv, Books, MirrorBooks, LogReplays, DailySpansLog
  <1> QED
    BY <1>1, FlowViewInvariant, TotalsLemma, PaymentsLemma, TimelineLemma, PTL
-----------------------------------------------------------------------------
(* Logs only grow.                                                         *)

Continues(l, m) ==
  /\ Len(l) <= Len(m)
  /\ \A i \in 1 .. Len(l) : m[i] = l[i]

(* The tables e are those of d, or what they became later.                 *)
Extends(d, e) == \A a \in Account : Continues(d[a].log, e[a].log)

LEMMA ContinuesLemma ==
  ASSUME NEW P, NEW l \in Seq(P)
  PROVE  /\ Continues(l, l)
         /\ \A x \in P : Continues(l, Append(l, x))
         /\ \A m \in Seq(P), n \in Seq(P) :
              Continues(l, m) /\ Continues(m, n) => Continues(l, n)
  <1>1. Len(l) \in Nat
    OBVIOUS
  <1>2. Continues(l, l)
    BY <1>1 DEF Continues
  <1>3. ASSUME NEW x \in P PROVE Continues(l, Append(l, x))
    <2>1. Len(Append(l, x)) = Len(l) + 1 /\ \A i \in 1 .. Len(l) : Append(l, x)[i] = l[i]
      OBVIOUS
    <2> QED
      BY <1>1, <2>1 DEF Continues
  <1>4. ASSUME NEW m \in Seq(P), NEW n \in Seq(P), Continues(l, m), Continues(m, n)
        PROVE  Continues(l, n)
    <2>1. Len(m) \in Nat /\ Len(n) \in Nat
      OBVIOUS
    <2>2. Len(l) <= Len(m) /\ Len(m) <= Len(n)
      BY <1>4 DEF Continues
    <2>3. \A i \in 1 .. Len(l) : i \in 1 .. Len(m)
      BY <1>1, <2>1, <2>2
    <2>4. Len(l) <= Len(n)
      BY <1>1, <2>1, <2>2
    <2>5. \A i \in 1 .. Len(l) : n[i] = l[i]
      BY <1>4, <2>3 DEF Continues
    <2> QED
      BY <2>4, <2>5 DEF Continues
  <1> QED
    BY <1>2, <1>3, <1>4

LEMMA LogType ==
  ASSUME NEW d \in Ledgers, NEW a \in Account
  PROVE  d[a] \in AccountRow /\ d[a].log \in Seq(LogEntry)
  <1>1. d[a] \in AccountRow
    BY DEF Ledgers
  <1> QED
    BY <1>1, RowTypeLemma

LEMMA ExtendsTrans ==
  ASSUME NEW d \in Ledgers, NEW e \in Ledgers, NEW f \in Ledgers, Extends(d, e), Extends(e, f)
  PROVE  Extends(d, f)
  <1> SUFFICES ASSUME NEW a \in Account PROVE Continues(d[a].log, f[a].log)
    BY DEF Extends
  <1>1. d[a].log \in Seq(LogEntry) /\ e[a].log \in Seq(LogEntry) /\ f[a].log \in Seq(LogEntry)
    BY LogType
  <1>2. Continues(d[a].log, e[a].log) /\ Continues(e[a].log, f[a].log)
    BY DEF Extends
  <1> QED
    BY <1>1, <1>2, ContinuesLemma

LEMMA SameLogs ==
  ASSUME NEW d \in Ledgers, NEW e, \A a \in Account : e[a].log = d[a].log
  PROVE  Extends(d, e)
  <1> SUFFICES ASSUME NEW a \in Account PROVE Continues(d[a].log, e[a].log)
    BY DEF Extends
  <1> QED
    BY LogType, ContinuesLemma

(* A double entry appends to the logs of its accounts.                     *)
LEMMA PostExtends ==
  ASSUME NEW d \in Ledgers, NEW a \in Account, NEW kind \in ChangeType,
         NEW amount \in Int, NEW day \in Day, NEW ref \in Ref
  PROVE  /\ postDoubleEntry(d, a, kind, amount, day, ref) \in Ledgers
         /\ Extends(d, postDoubleEntry(d, a, kind, amount, day, ref))
  <1> DEFINE e == postDoubleEntry(d, a, kind, amount, day, ref)
             m == Mirror(a)
  <1>1. m \in Account /\ -amount \in Int
    BY MirrorLemma
  <1>2. /\ e \in Ledgers
        /\ e[a] = postEntryRow(d[a], kind, amount, day, ref)
        /\ e[m] = postEntryRow(d[m], kind, -amount, day, ref)
        /\ \A b \in Account : b # a /\ b # m => e[b] = d[b]
    BY PostDoubleEntryLemma
  <1> HIDE DEF e, m
  <1>3. ASSUME NEW b \in Account, NEW delta \in Int,
               e[b] = postEntryRow(d[b], kind, delta, day, ref)
        PROVE  Continues(d[b].log, e[b].log)
    <2>1. d[b] \in AccountRow /\ d[b].log \in Seq(LogEntry) /\ d[b].balance \in Int
      BY LogType, RowTypeLemma
    <2>2. e[b].log = Append(d[b].log, logEntry(d[b], kind, delta, day, ref))
      <3> DEFINE r == d[b]
      <3>1. r \in AccountRow
        BY <2>1
      <3> HIDE DEF r
      <3>2. postEntryRow(r, kind, delta, day, ref).log
              = Append(r.log, logEntry(r, kind, delta, day, ref))
        BY <3>1, PostEntryRowLemma
      <3> QED
        BY <1>3, <3>2 DEF r
    <2>3. logEntry(d[b], kind, delta, day, ref) \in LogEntry
      BY <2>1, LogEntryLemma
    <2> QED
      BY <2>1, <2>2, <2>3, ContinuesLemma
  <1>4. ASSUME NEW b \in Account PROVE Continues(d[b].log, e[b].log)
    <2>1. CASE b # a /\ b # m
      BY <1>2, <2>1, LogType, ContinuesLemma
    <2> QED
      BY <1>1, <1>2, <1>3, <2>1
  <1> QED
    BY <1>2, <1>4 DEF Extends, e

LEMMA SettleExtends ==
  ASSUME NEW d \in Ledgers, NEW id \in Ref, NEW day \in Day, NEW p,
         p.team \in Team, p.forTeam \in Team, p.amount \in Int
  PROVE  settle(d, id, p, day) \in Ledgers /\ Extends(d, settle(d, id, p, day))
  <1> DEFINE pay == <<p.team, p.forTeam, "PAYABLE">>
             rec == <<p.team, p.forTeam, "RECEIVABLE">>
             s == settledPart(d[pay].balance, p.amount)
             paid == IF s > 0
                     THEN postDoubleEntry(d, pay, "PAYMENT", s, day, id) ELSE d
  <1>1. pay \in Account /\ rec \in Account /\ "PAYMENT" \in ChangeType
    BY DEF Account, BalanceType, ChangeType
  <1>2. d[pay].balance \in Int
    BY <1>1, RowTypeLemma DEF Ledgers
  <1> HIDE DEF pay, rec
  <1>3. s \in Int /\ p.amount - s \in Int
    <2>1. settledPart(d[pay].balance, p.amount) \in Int
      BY <1>2, SettledPartLemma
    <2> QED
      BY <2>1
  <1> HIDE DEF s
  <1>4. paid \in Ledgers /\ Extends(d, paid)
    BY <1>1, <1>3, PostExtends, SameLogs
  <1> HIDE DEF paid
  <1> DEFINE all == IF p.amount - s > 0
                    THEN postDoubleEntry(paid, rec, "PAYMENT", p.amount - s, day, id)
                    ELSE paid
  <1>5. all \in Ledgers /\ Extends(paid, all)
    BY <1>1, <1>3, <1>4, PostExtends, SameLogs
  <1>6. settle(d, id, p, day) = all
    BY DEF settle, pay, rec, s, paid
  <1> HIDE DEF all
  <1> QED
    BY <1>4, <1>5, <1>6, ExtendsTrans

LEMMA AdjustExtends ==
  ASSUME NEW d \in Ledgers, NEW team \in Team, NEW forTeam \in Team, NEW delta \in Int
  PROVE  /\ adjustPendingPair(d, team, forTeam, delta) \in Ledgers
         /\ Extends(d, adjustPendingPair(d, team, forTeam, delta))
  <1> DEFINE e == adjustPendingPair(d, team, forTeam, delta)
  <1>1. e \in Ledgers
    BY AdjustPendingPairLemma
  <1>2. \A b \in Account : e[b].log = d[b].log
    BY AdjustPendingPairLogs
  <1> HIDE DEF e
  <1>3. Extends(d, e)
    BY <1>2, SameLogs
  <1> QED
    BY <1>1, <1>3 DEF e

(* A step of the ledger ...                                                *)
LEMMA LedgerExtends ==
  ASSUME ViewInv, [Next]_vars
  PROVE  Extends(db, db')
  <1>1. db \in Ledgers
    BY DEF ViewInv, LedgerInv, Books
  <1>2. ASSUME NEW team \in Team \cup {NoTeam}, NEW forTeam \in Team \cup {NoTeam},
               NEW bt, NEW kind \in PostKind, NEW amount \in PostAmount, NEW day \in Day,
               CreateBalanceLog(team, forTeam, bt, kind, amount, day)
        PROVE  Extends(db, db')
    <2>1. /\ <<team, forTeam, bt>> \in Account /\ kind \in ChangeType /\ amount \in Int
          /\ NoRef \in Ref
          /\ db' = postDoubleEntry(db, <<team, forTeam, bt>>, kind, amount, day, NoRef)
      BY <1>2, LedgerAssumption, RefAssumption DEF CreateBalanceLog, ValidPosting, Account
    <2> QED
      BY <1>1, <2>1, PostExtends
  <1>3. ASSUME NEW team \in Team, NEW forTeam \in Team, NEW id \in PaymentId,
               NEW amount \in PayAmount, CreatePayment(id, team, forTeam, amount)
        PROVE  Extends(db, db')
    BY <1>1, <1>3, AdjustExtends, LedgerAssumption DEF CreatePayment
  <1>4. ASSUME NEW team \in Team, NEW forTeam \in Team, NEW id \in PaymentId,
               loadPendingPayment(id, team, forTeam)
        PROVE  /\ payments[id].team \in Team /\ payments[id].forTeam \in Team
               /\ payments[id].amount \in Int /\ -payments[id].amount \in Int
    <2>1. /\ payments[id].team \in Team /\ payments[id].forTeam \in Team
          /\ payments[id].amount \in Int
      BY <1>4, PendingLemma DEF ViewInv, LedgerInv
    <2> QED
      BY <2>1
  <1>5. ASSUME NEW team \in Team, NEW forTeam \in Team, NEW id \in PaymentId,
               NEW day \in Day, AcceptPayment(id, team, forTeam, day)
        PROVE  Extends(db, db')
    <2> DEFINE p == payments[id]
               e == settle(db, id, p, day)
               amount == -p.amount
    <2>1. p.team \in Team /\ p.forTeam \in Team /\ p.amount \in Int /\ amount \in Int
      BY <1>4, <1>5 DEF AcceptPayment
    <2>2. db' = adjustPendingPair(e, team, forTeam, amount) /\ id \in Ref
      BY <1>5, LedgerAssumption DEF AcceptPayment
    <2> HIDE DEF p, amount
    <2>3. e \in Ledgers /\ Extends(db, e)
      BY <1>1, <2>1, <2>2, SettleExtends
    <2> HIDE DEF e
    <2>4. db' \in Ledgers /\ Extends(e, db')
      BY <2>1, <2>2, <2>3, AdjustExtends
    <2> QED
      BY <1>1, <2>3, <2>4, ExtendsTrans
  <1>6. ASSUME NEW team \in Team, NEW forTeam \in Team, NEW id \in PaymentId,
               RejectPayment(id, team, forTeam)
        PROVE  Extends(db, db')
    <2>1. -payments[id].amount \in Int
      BY <1>4, <1>6 DEF RejectPayment
    <2> QED
      BY <1>1, <1>6, <2>1, AdjustExtends DEF RejectPayment
  <1>7. CASE UNCHANGED vars
    BY <1>1, <1>7, SameLogs DEF vars
  <1> QED
    BY <1>2, <1>3, <1>5, <1>6, <1>7 DEF Next

(* ... and of OrderFlow.                                                   *)
LEMMA FlowExtends ==
  ASSUME ViewInv, [FlowNext]_flowVars
  PROVE  Extends(db, db')
  <1>1. ASSUME NEW e \in DOMAIN EventDay, ApplyEvent(e[1], e[2])
        PROVE  Extends(db, db')
    <2> DEFINE V == {x \in Ledgers : Extends(db, x)}
               ps == postOrderBalances(e[1], e[2] = "OrderCanceled")
               day == EventDay[e]
    <2>1. db' = PostAll(db, ps, day) /\ day \in Day
      BY <1>1, EventLemma
    <2>2. ps \in Seq(FeeEntry)
      BY <1>1, EventLemma, OrderFees
    <2>3. db \in Ledgers
      BY DEF ViewInv, LedgerInv, Books
    <2>4. db \in V
      BY <2>3, SameLogs
    <2>5. \A x \in V : x \in Ledgers
      OBVIOUS
    <2>6. ASSUME NEW x \in V, NEW p \in FeeEntry
          PROVE  Post(x, p, day) \in V
      <3>1. x \in Ledgers /\ Extends(db, x)
        OBVIOUS
      <3>2. p.acct \in Account /\ p.kind \in ChangeType /\ p.amount \in Int /\ p.ref \in Ref
        BY EntryLemma DEF FeeEntry
      <3>3. Post(x, p, day) \in Ledgers /\ Extends(x, Post(x, p, day))
        BY <2>1, <3>1, <3>2, PostExtends DEF Post
      <3> QED
        BY <2>3, <3>1, <3>3, ExtendsTrans
    <2> HIDE DEF V, ps, day
    <2>7. db' \in V
      BY <2>1, <2>2, <2>4, <2>5, <2>6, PostAllStays
    <2> QED
      BY <2>7 DEF V
  <1> QED
    BY <1>1, FlowSteps, LedgerExtends
-----------------------------------------------------------------------------
(* What a reader that works while the tables change has seen.              *)

LensOf(d, team) == [a \in {b \in Account : b[1] = team} |-> Len(d[a].log)]

(* s has the lengths of the logs.                                          *)
Ends(s, d, A) == \A a \in A : s[a] = Len(d[a].log)

(* The rows of a table that was later extended are those up to its ids.    *)
LEMMA EarlierRows ==
  ASSUME NEW d \in Ledgers, NEW e \in Ledgers, Extends(d, e), NEW A, A \subseteq Account,
         NEW days, NEW s, Ends(s, d, A), NEW x
  PROVE  x \in LogRows(d, A, days) <=> x \in LogRows(e, A, days) /\ x.id <= s[x.account]
  <1>1. /\ x \in LogRows(d, A, days) <=> IsRow(d, x) /\ x.account \in A /\ x.day \in days
        /\ x \in LogRows(e, A, days) <=> IsRow(e, x) /\ x.account \in A /\ x.day \in days
    BY LogRowsMember
  <1>2. ASSUME x.account \in A
        PROVE  IsRow(d, x) <=> IsRow(e, x) /\ x.id <= s[x.account]
    <2> DEFINE a == x.account
               l == d[a].log
               m == e[a].log
    <2>1. a \in Account /\ s[a] = Len(l)
      BY <1>2 DEF Ends
    <2>2. l \in Seq(LogEntry) /\ m \in Seq(LogEntry) /\ Continues(l, m)
      BY <2>1, LogType DEF Extends
    <2>3. /\ DOMAIN l = 1 .. Len(l) /\ DOMAIN m = 1 .. Len(m)
          /\ Len(l) \in Nat /\ Len(m) \in Nat
      BY <2>2
    <2>4. x.id \in DOMAIN l <=> x.id \in DOMAIN m /\ x.id <= Len(l)
      BY <2>2, <2>3 DEF Continues
    <2>5. x.id \in DOMAIN l => m[x.id] = l[x.id]
      BY <2>2, <2>3 DEF Continues
    <2>6. x.id \in DOMAIN l => RowOf(d, a, x.id) = RowOf(e, a, x.id)
      BY <2>5 DEF RowOf
    <2> HIDE DEF a, l, m
    <2> QED
      BY <2>1, <2>4, <2>6 DEF IsRow, a, l, m
  <1> QED
    BY <1>1, <1>2

(* The states of the tables that a statement may see.                      *)
Snapshots == {d \in Ledgers : Viewed(d)}

Dated(p) ==
  /\ p \in Payments
  /\ \A id \in PaymentId : p[id].status = "ACCEPTED" => \E day \in Day : p[id].acceptedAt = {day}

OpenedAt(rd, d) ==
  \E e \in Snapshots :
    /\ Extends(e, d)
    /\ rd.seen = LensOf(e, rd.req.team)
    /\ rd.opening = Openings(e, rd.req.team, rd.req.forTeam, rd.req.start)

ChangedAt(rd, d) ==
  \E e \in Snapshots, f \in Snapshots :
    /\ Extends(e, f) /\ Extends(f, d)
    /\ rd.seen = LensOf(e, rd.req.team) /\ rd.upto = LensOf(f, rd.req.team)
    /\ rd.opening = Openings(e, rd.req.team, rd.req.forTeam, rd.req.start)
    /\ rd.rows = WindowRows(f, rd.req.team, rd.req.forTeam, rd.req.start, rd.req.end)

TimelineDone(rd, d) ==
  \E e \in Snapshots, f \in Snapshots, p \in Payments :
    /\ Extends(e, f) /\ Extends(f, d) /\ Dated(p)
    /\ rd.seen = LensOf(e, rd.req.team) /\ rd.upto = LensOf(f, rd.req.team)
    /\ rd.data = Timeline(Openings(e, rd.req.team, rd.req.forTeam, rd.req.start),
                          WindowRows(f, rd.req.team, rd.req.forTeam, rd.req.start, rd.req.end),
                          PaidRows(p, rd.req.team, rd.req.forTeam,
                                   From(rd.req.start, rd.req.end)),
                          rd.req.unit)

TotaledAt(rd, d) ==
  \E e \in Snapshots :
    /\ Extends(e, d)
    /\ rd.seen = LensOf(e, rd.req.team)
    /\ rd.totals = ChangeTotals(e, rd.req.team, rd.ids, rd.req.bt, rd.req.start, rd.req.end)

ListDone(rd, d) ==
  \E e \in Snapshots, f \in Snapshots :
    /\ Extends(e, f) /\ Extends(f, d)
    /\ rd.seen = LensOf(e, rd.req.team) /\ rd.upto = LensOf(f, rd.req.team)
    /\ rd.data = totalChangeData(
         ChangeTotals(e, rd.req.team, rd.ids, rd.req.bt, rd.req.start, rd.req.end),
         ChangeBreakdown(f, rd.req.team, rd.ids, rd.req.bt, rd.req.start, rd.req.end))

(* The reader rd has its results from tables that became d later.          *)
ReaderOK(rd, d) ==
  \/ rd = NoReader
  \/ /\ rd.req \in Request /\ rd.req.op = "timeline"
     /\ \/ rd.pc = "opened" /\ OpenedAt(rd, d)
        \/ rd.pc = "changed" /\ ChangedAt(rd, d)
        \/ rd.pc = "done" /\ TimelineDone(rd, d)
  \/ /\ rd.req \in Request /\ rd.req.op = "list" /\ rd.ids \subseteq Team
     /\ \/ rd.pc = "paged"
        \/ rd.pc = "totaled" /\ TotaledAt(rd, d)
        \/ rd.pc = "done" /\ ListDone(rd, d)

FlowInv == ViewInv /\ ReaderOK(reader, db)

(* What was so of the tables stays so.                                     *)
LEMMA ReaderKept ==
  ASSUME NEW d \in Ledgers, NEW e \in Ledgers, Extends(d, e), NEW rd, ReaderOK(rd, d)
  PROVE  ReaderOK(rd, e)
  <1>1. \A x \in Snapshots : Extends(x, d) => Extends(x, e)
    BY ExtendsTrans DEF Snapshots
  <1>2. OpenedAt(rd, d) => OpenedAt(rd, e)
    BY <1>1 DEF OpenedAt
  <1>3. ChangedAt(rd, d) => ChangedAt(rd, e)
    BY <1>1 DEF ChangedAt
  <1>4. TimelineDone(rd, d) => TimelineDone(rd, e)
    BY <1>1 DEF TimelineDone
  <1>5. TotaledAt(rd, d) => TotaledAt(rd, e)
    BY <1>1 DEF TotaledAt
  <1>6. ListDone(rd, d) => ListDone(rd, e)
    BY <1>1 DEF ListDone
  <1> QED
    BY <1>2, <1>3, <1>4, <1>5, <1>6 DEF ReaderOK

(* The counterparties of a list are teams.                                 *)
LEMMA ColumnTeams ==
  ASSUME NEW d, NEW p, NEW sort \in SortKey, NEW team, NEW xs, NEW start, NEW end
  PROVE  DOMAIN SortColumn(d, p, sort, team, xs, start, end) \subseteq xs
  <1> DEFINE column == SortColumn(d, p, sort, team, xs, start, end)
             at(x, bt) == <<team, x, bt>>
             days == Between(start, end)
             withRow(bt) == {x \in xs : d[at(x, bt)].present}
             changed(bt) == {x \in xs : LogRows(d, {at(x, bt)}, days) # {}}
  <1>1. sort = "COMMON" => DOMAIN column
          = {x \in xs \cap DOMAIN teams : \E bt \in BalanceType : d[at(x, bt)].present}
    BY DEF SortColumn
  <1>2. sort = "PAYABLE" => DOMAIN column = withRow("PAYABLE")
    BY DEF SortColumn
  <1>3. sort = "RECEIVABLE" => DOMAIN column = withRow("RECEIVABLE")
    BY DEF SortColumn
  <1>4. sort = "PENDING_PAYMENT" => DOMAIN column = withRow("PAYABLE")
    BY DEF SortColumn
  <1>5. sort = "INCOMING_PAYMENT" => DOMAIN column = withRow("RECEIVABLE")
    BY DEF SortColumn
  <1>6. sort = "TOTAL_PAYMENT" => DOMAIN column = {y \in xs : AcceptedOn(p, team, y, days) # {}}
    BY DEF SortColumn
  <1>7. sort = "TOTAL_PAYABLE" => DOMAIN column = changed("PAYABLE")
    BY DEF SortColumn
  <1>8. sort = "TOTAL_RECEIVABLE" => DOMAIN column = changed("RECEIVABLE")
    BY DEF SortColumn
  <1> HIDE DEF column
  <1>9. DOMAIN column \subseteq xs
    BY <1>1, <1>2, <1>3, <1>4, <1>5, <1>6, <1>7, <1>8 DEF SortKey
  <1> QED
    BY <1>9 DEF column

(* The part of a sequence between two places.                              *)
LEMMA PartLemma ==
  ASSUME NEW S, NEW s, NEW k \in Nat, NEW m \in Nat, \A i \in (k + 1) .. m : s[i] \in S
  PROVE  /\ DOMAIN SubSeq(s, k + 1, m) = 1 .. (m - k)
         /\ \A i \in 1 .. (m - k) : SubSeq(s, k + 1, m)[i] = s[i + k]
  <1> DEFINE j == k + 1
             sub == SubSeq(s, j, m)
  <1>1. j \in Int /\ m \in Int /\ \A i \in j .. m : s[i] \in S
    OBVIOUS
  <1> HIDE DEF j
  <1>2. sub \in Seq(S)
    BY <1>1
  <1>3. Len(sub) = IF j <= m THEN m - j + 1 ELSE 0
    BY <1>1
  <1>4. \A i \in 1 .. m - j + 1 : sub[i] = s[j + i - 1]
    BY <1>1
  <1> HIDE DEF sub
  <1>5. DOMAIN sub = 1 .. Len(sub)
    BY <1>2
  <1>6. 1 .. (m - k) = 1 .. Len(sub)
    <2>1. Len(sub) = m - k \/ (Len(sub) = 0 /\ m <= k)
      BY <1>3 DEF j
    <2> QED
      BY <2>1
  <1>7. m - j + 1 = m - k
    BY DEF j
  <1>8. \A i \in 1 .. (m - k) : j + i - 1 = i + k
    BY DEF j
  <1>9. \A i \in 1 .. (m - k) : sub[i] = s[i + k]
    BY <1>4, <1>7, <1>8
  <1> QED
    BY <1>5, <1>6, <1>9 DEF sub, j

(* A page of a sequence is a part of it.                                   *)
PageAsked == [page : Int, limit : Nat \ {0}]
Offset(page) == IF page.page < 1 THEN 0 ELSE (page.page - 1) * page.limit
OnPage(page, i) == Offset(page) < i /\ i <= Offset(page) + page.limit
Listing(n, S) == [1 .. n -> S]

LEMMA PageLemma ==
  ASSUME NEW S, NEW n \in Nat, NEW s \in Listing(n, S), NEW page \in PageAsked
  PROVE  /\ Offset(page) \in Nat
         /\ \A x : x \in ToSet(PageOf(s, page)) <=> \E i \in 1 .. n : OnPage(page, i) /\ x = s[i]
  <1> DEFINE from == Offset(page)
             limit == page.limit
             k == page.page
             last == from + limit
             end == IF last < n THEN last ELSE n
             sub == SubSeq(s, from + 1, end)
  <1> USE DEF PageAsked, Listing
  <1>0. from = (IF k < 1 THEN 0 ELSE (k - 1) * limit)
    BY DEF Offset
  <1> HIDE DEF from
  <1>1. k \in Int /\ limit \in Nat /\ limit # 0
    OBVIOUS
  <1>2. from \in Nat
    <2>1. ~(k < 1) => k - 1 \in Nat
      BY <1>1
    <2>2. \A a \in Nat : a * limit \in Nat
      BY <1>1
    <2> QED
      BY <1>0, <2>1, <2>2
  <1>3. Len(s) = n
    OBVIOUS
  <1>4. PageOf(s, page) = sub
    <2>1. ~(page.limit <= 0)
      BY <1>1
    <2>2. pageLimitOffset(page).limit = limit /\ pageLimitOffset(page).offset = from
      BY <1>0, <2>1 DEF pageLimitOffset
    <2>3. PageOf(s, page) = SubSeq(s, from + 1, IF from + limit < Len(s) THEN from + limit ELSE Len(s))
      BY <2>2, Zenon DEF PageOf
    <2> QED
      BY <1>3, <2>3
  <1> HIDE DEF limit, k
  <1>5. last \in Nat /\ last = from + limit
    BY <1>1, <1>2
  <1> HIDE DEF last
  <1>6. end \in Nat /\ end <= n /\ end <= last /\ (end = n \/ end = last)
    BY <1>5
  <1> HIDE DEF end
  <1>7. \A j : j \in 1 .. (end - from) <=> j \in Nat /\ 1 <= j /\ j + from <= end
    BY <1>2, <1>6
  <1>8. DOMAIN sub = 1 .. (end - from) /\ \A i \in 1 .. (end - from) : sub[i] = s[i + from]
    <2> HIDE DEF Listing
    <2>1. /\ from \in Nat /\ end \in Nat /\ end <= n
          /\ \A i \in (from + 1) .. end : s[i] \in S
      <3>1. \A i \in 1 .. n : s[i] \in S
        BY DEF Listing
      <3> QED
        BY <1>2, <1>6, <3>1
    <2> QED
      BY <2>1, PartLemma, SMTT(60)
  <1> HIDE DEF sub
  <1>9. ASSUME NEW x
        PROVE  x \in ToSet(sub) <=> \E i \in 1 .. n : from < i /\ i <= last /\ x = s[i]
    <2>1. x \in ToSet(sub) <=> \E j \in 1 .. (end - from) : x = s[j + from]
      BY <1>8 DEF ToSet
    <2>2. ASSUME NEW j \in 1 .. (end - from)
          PROVE  j + from \in 1 .. n /\ from < j + from /\ j + from <= last
      BY <1>2, <1>5, <1>6, <1>7
    <2>3. ASSUME NEW i \in 1 .. n, from < i, i <= last
          PROVE  i - from \in 1 .. (end - from) /\ (i - from) + from = i
      BY <1>2, <1>5, <1>6, <1>7, <2>3
    <2> QED
      BY <2>1, <2>2, <2>3
  <1> QED
    BY <1>2, <1>4, <1>5, <1>9 DEF OnPage, from, limit
-----------------------------------------------------------------------------
(* What the reader's steps do to its results.                              *)

LEMMA SnapshotLemma ==
  ASSUME ViewInv
  PROVE  db \in Snapshots /\ Extends(db, db) /\ \A t : Lens(t) = LensOf(db, t)
  <1>1. db \in Ledgers /\ Viewed(db)
    BY DEF ViewInv, LedgerInv, Books
  <1>2. Extends(db, db)
    BY <1>1, SameLogs
  <1> QED
    BY <1>1, <1>2 DEF Snapshots, Lens, LensOf

(* Where the reader is says what it has.                                   *)
LEMMA ReaderAt ==
  ASSUME NEW rd, NEW d, ReaderOK(rd, d)
  PROVE  /\ rd.pc = "opened" => rd.req \in Request /\ rd.req.op = "timeline" /\ OpenedAt(rd, d)
         /\ rd.pc = "changed" => rd.req \in Request /\ rd.req.op = "timeline" /\ ChangedAt(rd, d)
         /\ rd.pc = "paged" => rd.req \in Request /\ rd.req.op = "list" /\ rd.ids \subseteq Team
         /\ rd.pc = "totaled" => /\ rd.req \in Request /\ rd.req.op = "list"
                                 /\ rd.ids \subseteq Team /\ TotaledAt(rd, d)
         /\ rd.pc = "done" /\ rd.req.op = "timeline" => rd.req \in Request /\ TimelineDone(rd, d)
         /\ rd.pc = "done" /\ rd.req.op = "list" => /\ rd.req \in Request /\ rd.ids \subseteq Team
                                                    /\ ListDone(rd, d)
  <1>1. NoReader.pc = "idle"
    BY DEF NoReader
  <1> QED
    BY <1>1 DEF ReaderOK

LEMMA OpeningRead ==
  ASSUME ViewInv, NEW r \in Request, ReadOpening(r)
  PROVE  ReaderOK(reader', db)
  <1>1. /\ reader'.pc = "opened" /\ reader'.req = r /\ r.op = "timeline"
        /\ reader'.seen = LensOf(db, r.team)
        /\ reader'.opening = Openings(db, r.team, r.forTeam, r.start)
    BY SnapshotLemma DEF ReadOpening
  <1>2. OpenedAt(reader', db)
    BY <1>1, SnapshotLemma DEF OpenedAt
  <1> QED
    BY <1>1, <1>2 DEF ReaderOK

LEMMA ChangesRead ==
  ASSUME FlowInv, ReadChanges
  PROVE  ReaderOK(reader', db)
  <1> DEFINE r == reader.req
  <1>1. r \in Request /\ r.op = "timeline" /\ OpenedAt(reader, db)
    BY ReaderAt DEF FlowInv, ReadChanges
  <1>2. /\ reader'.pc = "changed" /\ reader'.req = r
        /\ reader'.seen = reader.seen /\ reader'.opening = reader.opening
        /\ reader'.upto = LensOf(db, r.team)
        /\ reader'.rows = WindowRows(db, r.team, r.forTeam, r.start, r.end)
    BY SnapshotLemma DEF FlowInv, ReadChanges
  <1> HIDE DEF r
  <1>3. ChangedAt(reader', db)
    <2>1. PICK e \in Snapshots :
            /\ Extends(e, db)
            /\ reader.seen = LensOf(e, r.team)
            /\ reader.opening = Openings(e, r.team, r.forTeam, r.start)
      BY <1>1 DEF OpenedAt, r
    <2>2. db \in Snapshots /\ Extends(db, db)
      BY SnapshotLemma DEF FlowInv
    <2> QED
      BY <1>2, <2>1, <2>2 DEF ChangedAt
  <1> QED
    BY <1>1, <1>2, <1>3 DEF ReaderOK

(* An accepted payment has one day of acceptance.                          *)
LEMMA PaymentsDated == ViewInv => Dated(payments)
  BY DEF ViewInv, LedgerInv, PaymentsOK, PaymentViews, Dated, Payments

LEMMA PaymentsRead ==
  ASSUME FlowInv, ReadPayments
  PROVE  ReaderOK(reader', db)
  <1> DEFINE r == reader.req
             paid == PaidRows(payments, r.team, r.forTeam, From(r.start, r.end))
  <1>1. r \in Request /\ r.op = "timeline" /\ ChangedAt(reader, db)
    BY ReaderAt DEF FlowInv, ReadPayments
  <1>2. /\ reader'.pc = "done" /\ reader'.req = r
        /\ reader'.seen = reader.seen /\ reader'.upto = reader.upto
        /\ reader'.data = Timeline(reader.opening, reader.rows, paid, r.unit)
    BY DEF ReadPayments
  <1> HIDE DEF r
  <1>3. TimelineDone(reader', db)
    <2>1. PICK e \in Snapshots, f \in Snapshots :
            /\ Extends(e, f) /\ Extends(f, db)
            /\ reader.seen = LensOf(e, r.team) /\ reader.upto = LensOf(f, r.team)
            /\ reader.opening = Openings(e, r.team, r.forTeam, r.start)
            /\ reader.rows = WindowRows(f, r.team, r.forTeam, r.start, r.end)
      BY <1>1 DEF ChangedAt, r
    <2>2. Dated(payments) /\ payments \in Payments
      BY PaymentsDated DEF FlowInv, Dated
    <2> QED
      BY <1>2, <2>1, <2>2 DEF TimelineDone
  <1> QED
    BY <1>1, <1>2, <1>3 DEF ReaderOK

LEMMA TotalsRead ==
  ASSUME FlowInv, ReadTotals
  PROVE  ReaderOK(reader', db)
  <1> DEFINE r == reader.req
  <1>1. r \in Request /\ r.op = "list" /\ reader.ids \subseteq Team
    BY ReaderAt DEF FlowInv, ReadTotals
  <1>2. /\ reader'.pc = "totaled" /\ reader'.req = r /\ reader'.ids = reader.ids
        /\ reader'.seen = LensOf(db, r.team)
        /\ reader'.totals = ChangeTotals(db, r.team, reader.ids, r.bt, r.start, r.end)
    BY SnapshotLemma DEF FlowInv, ReadTotals
  <1> HIDE DEF r
  <1>3. TotaledAt(reader', db)
    BY <1>2, SnapshotLemma DEF TotaledAt, FlowInv
  <1> QED
    BY <1>1, <1>2, <1>3 DEF ReaderOK

LEMMA BreakdownRead ==
  ASSUME FlowInv, ReadBreakdown
  PROVE  ReaderOK(reader', db)
  <1> DEFINE r == reader.req
             breakdown == ChangeBreakdown(db, r.team, reader.ids, r.bt, r.start, r.end)
  <1>1. r \in Request /\ r.op = "list" /\ reader.ids \subseteq Team /\ TotaledAt(reader, db)
    BY ReaderAt DEF FlowInv, ReadBreakdown
  <1>2. /\ reader'.pc = "done" /\ reader'.req = r /\ reader'.ids = reader.ids
        /\ reader'.seen = reader.seen /\ reader'.upto = LensOf(db, r.team)
        /\ reader'.data = totalChangeData(reader.totals, breakdown)
    BY SnapshotLemma DEF FlowInv, ReadBreakdown
  <1> HIDE DEF r
  <1>3. ListDone(reader', db)
    <2>1. PICK e \in Snapshots :
            /\ Extends(e, db)
            /\ reader.seen = LensOf(e, r.team)
            /\ reader.totals = ChangeTotals(e, r.team, reader.ids, r.bt, r.start, r.end)
      BY <1>1 DEF TotaledAt, r
    <2>2. db \in Snapshots /\ Extends(db, db)
      BY SnapshotLemma DEF FlowInv
    <2> QED
      BY <1>2, <2>1, <2>2 DEF ListDone
  <1> QED
    BY <1>1, <1>2, <1>3 DEF ReaderOK

LEMMA PageRead ==
  ASSUME ViewInv, NEW r \in Request, ReadPage(r)
  PROVE  ReaderOK(reader', db)
  <1> DEFINE xs == Counterparties(r.forTeam, r.type)
             column == SortColumn(db, payments, r.sort, r.team, xs, r.start, r.end)
             n == Cardinality(DOMAIN column)
  <1>1. r.op = "list"
    BY DEF ReadPage
  <1>2. r.sort \in SortKey /\ r.page \in [page : Int, limit : Nat \ {0}]
    BY <1>1, FlowAssumption
  <1>3. PICK ids \in sortForTeamIDs(column, r.desc, r.page) :
          reader' = [pc |-> "paged", req |-> r, ids |-> ToSet(ids)]
    BY DEF ReadPage
  <1>4. DOMAIN column \subseteq Team
    <2>1. xs \subseteq Team
      BY DEF Counterparties
    <2> QED
      BY <1>2, <2>1, ColumnTeams
  <1> HIDE DEF xs, column
  <1>5. n \in Nat
    <2>1. IsFiniteSet(DOMAIN column)
      BY <1>4, ViewsAssumption, FS_Subset
    <2> QED
      BY <2>1, FS_CardinalityType
  <1>6. PICK s \in Sorted(column, r.desc) : ids = PageOf(s, r.page)
    BY <1>3 DEF sortForTeamIDs
  <1>7. s \in [1 .. n -> DOMAIN column]
    BY <1>6 DEF Sorted, SetToSeqs
  <1> HIDE DEF n
  <1>8. ToSet(ids) \subseteq Team
    <2> DEFINE page == r.page
               S == DOMAIN column
    <2>1. page \in PageAsked
      BY <1>2 DEF PageAsked
    <2>2. s \in Listing(n, S)
      BY <1>7 DEF Listing
    <2> HIDE DEF page, S
    <2>3. \A x : x \in ToSet(PageOf(s, page)) <=> \E i \in 1 .. n : OnPage(page, i) /\ x = s[i]
      BY <1>5, <2>1, <2>2, PageLemma
    <2>4. \A x \in ToSet(PageOf(s, page)) : x \in S
      BY <2>2, <2>3 DEF Listing
    <2> QED
      BY <1>4, <1>6, <2>4 DEF page, S
  <1>9. reader'.pc = "paged" /\ reader'.req = r /\ reader'.ids = ToSet(ids)
    BY <1>3
  <1> QED
    BY <1>1, <1>8, <1>9 DEF ReaderOK

LEMMA FlowInvStep == FlowInv /\ [FlowNext]_flowVars => FlowInv'
  <1> SUFFICES ASSUME FlowInv, [FlowNext]_flowVars PROVE FlowInv'
    OBVIOUS
  <1>1. ViewInv /\ ReaderOK(reader, db) /\ ViewInv'
    BY FlowViewInvStep DEF FlowInv
  <1>2. db \in Ledgers /\ db' \in Ledgers
    BY <1>1 DEF ViewInv, LedgerInv, Books
  <1>3. Extends(db, db')
    BY <1>1, FlowExtends
  <1>4. CASE reader' = reader
    <2>1. ReaderOK(reader, db')
      BY <1>1, <1>2, <1>3, ReaderKept
    <2> QED
      BY <1>1, <1>4, <2>1 DEF FlowInv
  <1>5. CASE Read
    <2>1. db' = db
      BY <1>5 DEF Read, ReadOpening, ReadChanges, ReadPayments, ReadPage, ReadTotals, ReadBreakdown
    <2>2. ReaderOK(reader', db)
      <3>1. ASSUME NEW r \in Request, ReadOpening(r) \/ ReadPage(r) PROVE ReaderOK(reader', db)
        BY <1>1, <3>1, OpeningRead, PageRead
      <3>2. CASE ReadChanges \/ ReadPayments
        BY <1>1, <3>2, ChangesRead, PaymentsRead
      <3>3. CASE ReadTotals
        BY <1>1, <3>3, TotalsRead
      <3>4. CASE ReadBreakdown
        BY <3>4, BreakdownRead, Zenon
      <3> QED
        BY <1>5, <3>1, <3>2, <3>3, <3>4, Zenon DEF Read
    <2> QED
      BY <1>1, <2>1, <2>2 DEF FlowInv
  <1>6. Read \/ reader' = reader
    BY DEF FlowNext, ReadLimits, ReadDebts, ApplyEvent, SetLimit, Pay, flowVars
  <1> QED
    BY <1>4, <1>5, <1>6

(* What a reader has got comes from tables that the ledger had, one after  *)
(* the other, since it began.                                              *)
THEOREM FlowInvariant == FlowSpec => []FlowInv
  <1>1. FlowInit => FlowInv
    BY InitViewInv DEF FlowInit, FlowInv, ReaderOK
  <1> QED
    BY <1>1, FlowInvStep, PTL DEF FlowSpec
-----------------------------------------------------------------------------
(* What a reader misses are the rows that came between its statements.     *)

Known(d, A, days, upto) == {row \in LogRows(d, A, days) : row.id <= upto[row.account]}

LateRows(d, A, days, seen, upto) ==
  {row \in LogRows(d, A, days) : seen[row.account] < row.id /\ row.id <= upto[row.account]}

OwnedBy(A, team) == \A a \in A : a[1] = team

(* The rows of the tables f of the second statement are those of the       *)
(* tables e of the first and the late ones.                                *)
LEMMA LateLemma ==
  ASSUME NEW d \in Ledgers, NEW e \in Ledgers, NEW f \in Ledgers, Extends(e, f), Extends(f, d),
         NEW team, NEW A, A \subseteq Account, IsFiniteSet(A), OwnedBy(A, team), NEW days
  PROVE  /\ Known(d, A, days, LensOf(f, team)) = LogRows(f, A, days)
         /\ LogRows(e, A, days) \subseteq LogRows(f, A, days)
         /\ IsFiniteSet(LogRows(f, A, days))
         /\ \A x \in LogRows(f, A, days) : x.change \in Int
         /\ Changed(LogRows(e, A, days)) \in Int /\ Changed(LogRows(f, A, days)) \in Int
         /\ Changed(LateRows(d, A, days, LensOf(e, team), LensOf(f, team))) \in Int
         /\ Changed(LogRows(e, A, days))
              = Changed(LogRows(f, A, days))
                  - Changed(LateRows(d, A, days, LensOf(e, team), LensOf(f, team)))
  <1> DEFINE R == LogRows(e, A, days)
             S == LogRows(f, A, days)
             seen == LensOf(e, team)
             upto == LensOf(f, team)
             known == Known(d, A, days, upto)
             late == LateRows(d, A, days, seen, upto)
  <1>1. Ends(seen, e, A) /\ Ends(upto, f, A) /\ Extends(e, d)
    <2>1. \A a \in A : a \in {b \in Account : b[1] = team}
      BY DEF OwnedBy
    <2> QED
      BY <2>1, ExtendsTrans DEF LensOf, Ends
  <1> HIDE DEF seen, upto
  <1>2. ASSUME NEW x
        PROVE  x \in R <=> x \in LogRows(d, A, days) /\ x.id <= seen[x.account]
    <2>1. Extends(e, d) /\ Ends(seen, e, A)
      BY <1>1
    <2>2. x \in LogRows(e, A, days) <=> x \in LogRows(d, A, days) /\ x.id <= seen[x.account]
      BY <2>1, EarlierRows
    <2> QED
      BY <2>2
  <1>3. ASSUME NEW x
        PROVE  x \in S <=> x \in LogRows(d, A, days) /\ x.id <= upto[x.account]
    <2>1. Extends(f, d) /\ Ends(upto, f, A)
      BY <1>1
    <2>2. x \in LogRows(f, A, days) <=> x \in LogRows(d, A, days) /\ x.id <= upto[x.account]
      BY <2>1, EarlierRows
    <2> QED
      BY <2>2
  <1>4. \A x \in LogRows(d, A, days) :
          x.account \in A /\ x.id \in Int /\ seen[x.account] \in Int /\ upto[x.account] \in Int
               /\ seen[x.account] <= upto[x.account]
    <2> SUFFICES ASSUME NEW x \in LogRows(d, A, days)
                 PROVE  /\ x.account \in A /\ x.id \in Int
                        /\ seen[x.account] \in Int /\ upto[x.account] \in Int
                        /\ seen[x.account] <= upto[x.account]
      OBVIOUS
    <2>1. IsRow(d, x) /\ x.account \in A
      BY LogRowsMember
    <2> DEFINE a == x.account
    <2>2. a \in Account
      BY <2>1
    <2> HIDE DEF a
    <2>3. /\ d[a].log \in Seq(LogEntry) /\ e[a].log \in Seq(LogEntry)
          /\ f[a].log \in Seq(LogEntry)
      BY <2>2, LogType
    <2>4. Len(e[a].log) \in Nat /\ Len(f[a].log) \in Nat /\ DOMAIN d[a].log = 1 .. Len(d[a].log)
      BY <2>3
    <2>5. x.id \in Int
      BY <2>1, <2>4 DEF IsRow, a
    <2>6. Len(e[a].log) <= Len(f[a].log)
      BY <2>2 DEF Extends, Continues
    <2> QED
      BY <1>1, <2>1, <2>4, <2>5, <2>6 DEF a, Ends
  <1>5. IsFiniteSet(R) /\ Changed(R) \in Int /\ \A x \in R : x.change \in Int
    BY LogRowsSum
  <1>6. IsFiniteSet(S) /\ Changed(S) \in Int /\ \A x \in S : x.change \in Int
    BY LogRowsSum
  <1> HIDE DEF R, S
  <1>7. known = S
    BY <1>3 DEF Known
  <1>8. R \cap late = {} /\ R \cup late = S
    BY <1>2, <1>3, <1>4 DEF LateRows
  <1> HIDE DEF known, late
  <1>9. IsFiniteSet(late)
    BY <1>6, <1>8, FS_Subset
  <1>10. Changed(late) \in Int /\ Changed(R \cup late) = Changed(R) + Changed(late)
    BY <1>5, <1>6, <1>8, <1>9, ChangedUnion
  <1>11. Changed(R) = Changed(known) - Changed(late)
    <2>1. Changed(known) = Changed(R) + Changed(late)
      BY <1>7, <1>8, <1>10
    <2> QED
      BY <1>5, <1>10, <2>1
  <1>12. R \subseteq S
    BY <1>8
  <1> QED
    BY <1>5, <1>6, <1>7, <1>10, <1>11, <1>12 DEF R, S, known, late, seen, upto

(* A list, one counterparty.                                               *)
ListData(e, f, team, ids, bt, start, end) ==
  totalChangeData(ChangeTotals(e, team, ids, bt, start, end),
                  ChangeBreakdown(f, team, ids, bt, start, end))

AddsUpTo(item, known, late) ==
  /\ SumFunction([c \in item.change |-> c.amount]) = Changed(known)
  /\ item.total = Changed(known) - Changed(late)

LEMMA ListedAddsUp ==
  ASSUME NEW d \in Ledgers, NEW e \in Ledgers, NEW f \in Ledgers, Extends(e, f), Extends(f, d),
         NEW team \in Team, NEW ids, ids \subseteq Team, NEW bt \in BalanceType,
         NEW start, NEW end, NEW x \in ids,
         NEW data, data = ListData(e, f, team, ids, bt, start, end),
         NEW known, known = Known(d, {<<team, x, bt>>}, Between(start, end), LensOf(f, team)),
         NEW late, late = LateRows(d, {<<team, x, bt>>}, Between(start, end),
                                   LensOf(e, team), LensOf(f, team))
  PROVE  /\ x \in DOMAIN data <=> known # {}
         /\ known # {} => AddsUpTo(data[x], known, late)
  <1> DEFINE totals == ChangeTotals(e, team, ids, bt, start, end)
             breakdown == ChangeBreakdown(f, team, ids, bt, start, end)
             A == {<<team, x, bt>>}
             days == Between(start, end)
             R == LogRows(e, A, days)
  <1>1. A \subseteq Account /\ IsFiniteSet(A) /\ OwnedBy(A, team)
    <2>1. IsFiniteSet(A)
      BY FS_Singleton
    <2>2. x \in Team
      OBVIOUS
    <2>3. A \subseteq Account /\ OwnedBy(A, team)
      BY <2>2 DEF Account, OwnedBy
    <2> QED
      BY <2>1, <2>3
  <1>2. /\ known = LogRows(f, A, days) /\ R \subseteq known
        /\ IsFiniteSet(known) /\ (\A y \in known : y.change \in Int)
        /\ Changed(R) = Changed(known) - Changed(late)
    <2>2. known = Known(d, A, days, LensOf(f, team)) /\ late = LateRows(d, A, days, LensOf(e, team), LensOf(f, team))
      OBVIOUS
    <2> HIDE DEF R, A, days
    <2>1. /\ Known(d, A, days, LensOf(f, team)) = LogRows(f, A, days)
          /\ LogRows(e, A, days) \subseteq LogRows(f, A, days)
          /\ IsFiniteSet(LogRows(f, A, days))
          /\ \A y \in LogRows(f, A, days) : y.change \in Int
          /\ Changed(LogRows(e, A, days))
               = Changed(LogRows(f, A, days))
                   - Changed(LateRows(d, A, days, LensOf(e, team), LensOf(f, team)))
      BY <1>1, LateLemma
    <2> QED
      BY <2>1, <2>2 DEF R
  <1>3. /\ x \in DOMAIN totals <=> R # {}
        /\ R # {} => totals[x] = Changed(R)
    BY DEF ChangeTotals
  <1>4. /\ x \in DOMAIN breakdown <=> known # {}
        /\ known # {} => breakdown[x] = ChangeSums(known)
    BY <1>2 DEF ChangeBreakdown
  <1> HIDE DEF totals, breakdown
  <1>5. /\ x \in DOMAIN data <=> x \in DOMAIN totals \/ x \in DOMAIN breakdown
        /\ x \in DOMAIN data =>
             /\ data[x].total = IF x \in DOMAIN totals THEN totals[x] ELSE 0
             /\ data[x].change = IF x \in DOMAIN breakdown THEN breakdown[x] ELSE {}
    BY DEF ListData, totalChangeData, totals, breakdown
  <1> HIDE DEF R
  <1>6. R = {} => Changed(R) = 0
    BY SumFunctionLemma, SumEmpty DEF Changed
  <1>7. SumFunction([c \in ChangeSums(known) |-> c.amount]) = Changed(known)
    BY <1>2, ChangeSumsTotal
  <1> QED
    BY <1>2, <1>3, <1>4, <1>5, <1>6, <1>7 DEF AddsUpTo
-----------------------------------------------------------------------------
LEMMA ListInvariant == FlowInv => ListAddsUp
  <1> SUFFICES ASSUME FlowInv, reader.pc = "done", reader.req.op = "list"
               PROVE  LET r == reader.req
                          late(x) == Late({<<r.team, x, r.bt>>}, Between(r.start, r.end))
                      IN  \A x \in reader.ids :
                            LET known == {row \in LogRows(db, {<<r.team, x, r.bt>>},
                                                          Between(r.start, r.end)) :
                                            row.id <= reader.upto[row.account]}
                            IN  /\ x \in DOMAIN reader.data <=> known # {}
                                /\ known # {} =>
                                     /\ SumFunction([c \in reader.data[x].change |-> c.amount])
                                          = Changed(known)
                                     /\ reader.data[x].total = Changed(known) - Changed(late(x))
    BY DEF ListAddsUp
  <1> DEFINE r == reader.req
             ids == reader.ids
             data == reader.data
  <1>1. db \in Ledgers
    BY DEF FlowInv, ViewInv, LedgerInv, Books
  <1>2. r \in Request /\ r.op = "list" /\ ids \subseteq Team /\ ListDone(reader, db)
    BY ReaderAt DEF FlowInv
  <1>3. r.team \in Team /\ r.bt \in BalanceType
    BY <1>2, FlowAssumption DEF Readers
  <1>4. PICK e \in Snapshots, f \in Snapshots :
          /\ Extends(e, f) /\ Extends(f, db)
          /\ reader.seen = LensOf(e, r.team) /\ reader.upto = LensOf(f, r.team)
          /\ data = ListData(e, f, r.team, ids, r.bt, r.start, r.end)
    BY <1>2 DEF ListDone, ListData
  <1>5. e \in Ledgers /\ f \in Ledgers
    BY <1>4 DEF Snapshots
  <1> HIDE DEF r, ids, data
  <1>6. ASSUME NEW x \in ids
        PROVE  LET known == {row \in LogRows(db, {<<r.team, x, r.bt>>}, Between(r.start, r.end)) :
                               row.id <= reader.upto[row.account]}
                   late == {row \in LogRows(db, {<<r.team, x, r.bt>>}, Between(r.start, r.end)) :
                              /\ reader.seen[row.account] < row.id
                              /\ row.id <= reader.upto[row.account]}
               IN  /\ x \in DOMAIN data <=> known # {}
                   /\ known # {} =>
                        /\ SumFunction([c \in data[x].change |-> c.amount]) = Changed(known)
                        /\ data[x].total = Changed(known) - Changed(late)
    <2> DEFINE team == r.team
               bt == r.bt
               A == {<<team, x, bt>>}
               known == Known(db, A, Between(r.start, r.end), LensOf(f, team))
               late == LateRows(db, A, Between(r.start, r.end), LensOf(e, team), LensOf(f, team))
               start == r.start
               end == r.end
    <2>1. /\ x \in DOMAIN data <=> known # {}
          /\ known # {} => AddsUpTo(data[x], known, late)
      <3>1. /\ known = Known(db, {<<team, x, bt>>}, Between(start, end), LensOf(f, team))
            /\ late = LateRows(db, {<<team, x, bt>>}, Between(start, end),
                               LensOf(e, team), LensOf(f, team))
            /\ data = ListData(e, f, team, ids, bt, start, end)
            /\ team \in Team /\ bt \in BalanceType
            /\ Extends(e, f) /\ Extends(f, db)
            /\ ids \subseteq Team /\ db \in Ledgers /\ e \in Ledgers /\ f \in Ledgers
        BY <1>1, <1>2, <1>3, <1>4, <1>5
      <3> HIDE DEF known, late, team, bt, start, end, A
      <3> QED
        BY <3>1, ListedAddsUp, SMTT(60)
    <2>2. known = {row \in LogRows(db, A, Between(r.start, r.end)) :
                     row.id <= reader.upto[row.account]}
      BY <1>4 DEF Known
    <2>3. late = {row \in LogRows(db, A, Between(r.start, r.end)) :
                    reader.seen[row.account] < row.id /\ row.id <= reader.upto[row.account]}
      BY <1>4 DEF LateRows
    <2> HIDE DEF known, late
    <2> QED
      BY <2>1, <2>2, <2>3 DEF AddsUpTo
  <1> QED
    BY <1>6 DEF r, ids, data, Late

(* The list of counterparties, read in two statements while orders are     *)
(* booked, adds up for every request and any number of postings between.   *)
THEOREM FlowListAddsUp == FlowSpec => []ListAddsUp
  BY FlowInvariant, ListInvariant, PTL
-----------------------------------------------------------------------------
(* The timeline, read while orders are booked.                             *)

(* All periods have all rows until the end of the window.                  *)
LEMMA UptoAll ==
  ASSUME NEW d \in Ledgers, NEW team \in Readers, NEW forTeam \in Filters(team),
         NEW bt \in BalanceType, NEW unit, NEW start \in Nat, NEW end \in Nat, NEW keys, NEW n,
         Periods(d, team, forTeam, unit, From(start, end), keys, n), n # 0
  PROVE  LogRows(d, Scope(team, forTeam, bt), Upto(unit, keys, start, From(start, end), n))
           = LogRows(d, Scope(team, forTeam, bt), DaysBefore(end))
  <1> DEFINE days == From(start, end)
             A == Scope(team, forTeam, bt)
             U == Upto(unit, keys, start, days, n)
  <1>1. \A day : day \in days <=> day \in Day /\ start <= day /\ day < end
    BY DEF From
  <1>2. \A day \in Day : day \in Nat
    BY ViewsAssumption
  <1>3. /\ n \in Nat /\ \A j \in 1 .. n : \E day \in days : keys[j] = bucket(unit, day)
        /\ \A x : IsRow(d, x) /\ x.account \in A /\ x.day \in days
             => \E j \in 1 .. n : keys[j] = bucket(unit, x.day)
    BY DEF Periods
  <1>4. start < end
    <2>1. 1 \in 1 .. n
      BY <1>3
    <2>2. PICK day : day \in days
      BY <1>3, <2>1
    <2> QED
      BY <1>1, <1>2, <2>2
  <1>5. \A day : day \in U <=> \/ day \in Day /\ day < start
                               \/ day \in days /\ \E j \in 1 .. n : bucket(unit, day) = keys[j]
    BY DEF Upto, DaysBefore
  <1>6. A \subseteq Account
    BY ScopeType
  <1> HIDE DEF days, A, U
  <1>7. ASSUME NEW x, IsRow(d, x), x.account \in A
        PROVE  x.day \in U <=> x.day \in DaysBefore(end)
    <2>1. x.day \in Day /\ x.day \in Nat
      BY <1>6, <1>7, RowLemma
    <2>2. x.day \in DaysBefore(end) <=> x.day < end
      BY <2>1 DEF DaysBefore
    <2>3. x.day \in days => \E j \in 1 .. n : bucket(unit, x.day) = keys[j]
      BY <1>3, <1>7
    <2>4. x.day \in U <=> x.day < start \/ x.day \in days
      BY <1>5, <2>1, <2>3
    <2> QED
      BY <1>1, <1>4, <2>1, <2>2, <2>4
  <1>8. LogRows(d, A, U) = LogRows(d, A, DaysBefore(end))
    BY <1>7, LogRowsSame
  <1> QED
    BY <1>8 DEF A, U, days

LEMMA TimelineInvariant == FlowInv => TimelineMissesOnlyLate
  <1> DEFINE r == reader.req
             b == reader.data
  <1> SUFFICES ASSUME FlowInv, reader.pc = "done", reader.req.op = "timeline", b # << >>,
                      NEW bt \in BalanceType
               PROVE  LET accounts == Scope(r.team, r.forTeam, bt)
                          known == {row \in LogRows(db, accounts, {day \in Day : day < r.end}) :
                                      row.id <= reader.upto[row.account]}
                      IN  b[Len(b)].balance[bt]
                            = Changed(known) - Changed(Late(accounts, {day \in Day : day < r.start}))
    BY DEF TimelineMissesOnlyLate
  <1> DEFINE team == r.team
             forTeam == r.forTeam
             start == r.start
             end == r.end
             unit == r.unit
             A == Scope(team, forTeam, bt)
  <1>1. db \in Ledgers
    BY DEF FlowInv, ViewInv, LedgerInv, Books
  <1>2. r \in Request /\ TimelineDone(reader, db)
    BY ReaderAt DEF FlowInv
  <1>3. /\ team \in Readers /\ forTeam \in Filters(team) /\ unit \in Unit
        /\ start \in Nat /\ end \in Nat
    BY <1>2, FlowAssumption
  <1>4. PICK e \in Snapshots, f \in Snapshots, p \in Payments :
          /\ Extends(e, f) /\ Extends(f, db) /\ Dated(p)
          /\ reader.seen = LensOf(e, team) /\ reader.upto = LensOf(f, team)
          /\ b = Timeline(Openings(e, team, forTeam, start),
                          WindowRows(f, team, forTeam, start, end),
                          PaidRows(p, team, forTeam, From(start, end)), unit)
    BY <1>2 DEF TimelineDone
  <1>5. e \in Ledgers /\ f \in Ledgers /\ Viewed(e)
    BY <1>4 DEF Snapshots
  <1> HIDE DEF r, b, team, forTeam, start, end, unit
  <1> DEFINE opening == Openings(e, team, forTeam, start)
  <1>6. \A t \in BalanceType :
          /\ opening[t] = Changed(LogRows(e, Scope(team, forTeam, t), DaysBefore(start)))
          /\ opening[t] \in Int
    <2> SUFFICES ASSUME NEW t \in BalanceType
                 PROVE  /\ opening[t] = Changed(LogRows(e, Scope(team, forTeam, t), DaysBefore(start)))
                        /\ opening[t] \in Int
      OBVIOUS
    <2> DEFINE B == Scope(team, forTeam, t)
    <2>1. B \subseteq Account /\ IsFiniteSet(B)
      BY <1>3, ScopeType
    <2>2. opening[t] = Opening(e, B, start)
      BY DEF Openings
    <2> HIDE DEF B, opening
    <2>3. Opening(e, B, start) = Changed(LogRows(e, B, DaysBefore(start)))
      BY <1>3, <1>5, <2>1, OpeningLemma
    <2>4. Changed(LogRows(e, B, DaysBefore(start))) \in Int
      BY <1>5, <2>1, LogRowsSum
    <2> QED
      BY <2>2, <2>3, <2>4 DEF B
  <1>7. opening \in [BalanceType -> Int]
    BY <1>6 DEF Openings
  <1>8. PICK keys, n : Shows(b, opening, f, team, forTeam, unit, start, end, keys, n)
    <2>1. \A id \in PaymentId : p[id].status = "ACCEPTED" =>
            \E day \in Day : p[id].acceptedAt = {day}
      BY <1>4 DEF Dated
    <2> HIDE DEF opening
    <2>2. b = Timeline(opening, WindowRows(f, team, forTeam, start, end),
                       PaidRows(p, team, forTeam, From(start, end)), unit)
      BY <1>4 DEF opening
    <2> QED
      BY <1>3, <1>5, <1>7, <2>1, <2>2, TimelineShows
  <1>9. A \subseteq Account /\ IsFiniteSet(A) /\ OwnedBy(A, team)
    <2>1. A \subseteq Account /\ IsFiniteSet(A)
      BY <1>3, ScopeType
    <2>2. OwnedBy(A, team)
      BY <1>3 DEF Scope, OwnedBy, Readers
    <2> QED
      BY <2>1, <2>2
  <1> HIDE DEF opening
  <1>10. n # 0 /\ n \in Nat /\ Len(b) = n /\ n \in 1 .. n
    <2>1. n \in Nat /\ DOMAIN b = 1 .. n /\ Len(b) = n
      BY <1>8 DEF Shows, Periods
    <2>2. n # 0
      BY <2>1
    <2> QED
      BY <2>1, <2>2
  <1>11. b[Len(b)].balance[bt]
           = opening[bt] + Changed(LogRows(f, A, DaysBefore(end)))
                         - Changed(LogRows(f, A, DaysBefore(start)))
    <2>1. b[n].balance[bt]
            = opening[bt] + Changed(LogRows(f, A, Upto(unit, keys, start, From(start, end), n)))
                          - Changed(LogRows(f, A, DaysBefore(start)))
      BY <1>8, <1>10 DEF Shows
    <2>2. Periods(f, team, forTeam, unit, From(start, end), keys, n)
      BY <1>8 DEF Shows
    <2>3. LogRows(f, A, Upto(unit, keys, start, From(start, end), n))
            = LogRows(f, A, DaysBefore(end))
      BY <1>3, <1>5, <1>10, <2>2, UptoAll
    <2> QED
      BY <1>10, <2>1, <2>3
  <1>12. opening[bt] = Changed(LogRows(e, A, DaysBefore(start)))
    BY <1>6
  <1> HIDE DEF A
  <1> DEFINE early == DaysBefore(start)
             days == DaysBefore(end)
  <1>13. Known(db, A, days, LensOf(f, team)) = LogRows(f, A, days)
    <2> HIDE DEF days
    <2> QED
      BY <1>1, <1>4, <1>5, <1>9, LateLemma
  <1>14. /\ Changed(LogRows(e, A, early)) \in Int /\ Changed(LogRows(f, A, early)) \in Int
         /\ Changed(LateRows(db, A, early, LensOf(e, team), LensOf(f, team))) \in Int
         /\ Changed(LogRows(e, A, early))
              = Changed(LogRows(f, A, early))
                  - Changed(LateRows(db, A, early, LensOf(e, team), LensOf(f, team)))
    <2> HIDE DEF early
    <2> QED
      BY <1>1, <1>4, <1>5, <1>9, LateLemma
  <1>15. Changed(LogRows(f, A, days)) \in Int
    <2> HIDE DEF days
    <2> QED
      BY <1>5, <1>9, LogRowsSum
  <1> DEFINE late == LateRows(db, A, early, LensOf(e, team), LensOf(f, team))
  <1>16. b[Len(b)].balance[bt] = Changed(Known(db, A, days, LensOf(f, team))) - Changed(late)
    <2> HIDE DEF days, early, late
    <2> QED
      BY <1>11, <1>12, <1>13, <1>14, <1>15 DEF days, early, late
  <1>17. Known(db, A, days, LensOf(f, team))
           = {row \in LogRows(db, A, {day \in Day : day < end}) : row.id <= reader.upto[row.account]}
    BY <1>4 DEF Known, DaysBefore
  <1>18. late = Late(A, {day \in Day : day < start})
    BY <1>4 DEF LateRows, Late, DaysBefore
  <1> HIDE DEF late, days, early
  <1> QED
    BY <1>16, <1>17, <1>18 DEF A, team, forTeam, start, end, r
-----------------------------------------------------------------------------
(* The pages of a list.                                                    *)

(* What is listed without repetition has as many members as the list.      *)
LEMMA ListedOnce ==
  ASSUME NEW I, IsFiniteSet(I), NEW s, \A i, j \in I : i # j => s[i] # s[j],
         NEW T, \A x : x \in T <=> \E i \in I : x = s[i]
  PROVE  IsFiniteSet(T) /\ Cardinality(T) = Cardinality(I)
  <1> DEFINE f == [i \in I |-> s[i]]
  <1>1. f \in [I -> T] /\ (\A i, j \in I : i # j => f[i] # f[j]) /\ \A x \in T : \E i \in I : f[i] = x
    OBVIOUS
  <1> HIDE DEF f
  <1>2. f \in Bijection(I, T)
    BY <1>1 DEF Bijection, Injection, IsInjective, Surjection
  <1>3. ExistsBijection(I, T)
    BY <1>2 DEF ExistsBijection
  <1> QED
    BY <1>3, FS_Bijection

LEMMA MinMaxLemma ==
  ASSUME NEW a \in Int, NEW b \in Int
  PROVE  /\ Min({a, b}) = IF a <= b THEN a ELSE b
         /\ Max({a, b}) = IF a >= b THEN a ELSE b
  <1>1. \A S : Min(S) = CHOOSE x \in S : \A y \in S : x <= y
    BY DEF Min
  <1>2. \A S : Max(S) = CHOOSE x \in S : \A y \in S : x >= y
    BY DEF Max
  <1>3. Min({a, b}) \in {a, b} /\ \A y \in {a, b} : Min({a, b}) <= y
    <2>1. \E x \in {a, b} : \A y \in {a, b} : x <= y
      OBVIOUS
    <2> QED
      BY <1>1, <2>1
  <1>4. Max({a, b}) \in {a, b} /\ \A y \in {a, b} : Max({a, b}) >= y
    <2>1. \E x \in {a, b} : \A y \in {a, b} : x >= y
      OBVIOUS
    <2> QED
      BY <1>2, <2>1
  <1> QED
    BY <1>3, <1>4

(* The places of the i-th page, and how many there are.                    *)
PageAt(i, limit) == [page |-> i, limit |-> limit]
Places(n, page) == {k \in 1 .. n : OnPage(page, k)}
WithinPage(i, limit, k) == (i - 1) * limit < k /\ k <= (i - 1) * limit + limit
PageSize(n, i, limit) == Max({0, Min({limit, n - (i - 1) * limit})})

LEMMA PagePlaces ==
  ASSUME NEW n \in Nat, NEW limit \in Nat, limit # 0, NEW i \in Nat, i # 0
  PROVE  /\ PageAt(i, limit) \in PageAsked
         /\ \A k \in 1 .. n : OnPage(PageAt(i, limit), k) <=> WithinPage(i, limit, k)
         /\ IsFiniteSet(Places(n, PageAt(i, limit)))
         /\ Cardinality(Places(n, PageAt(i, limit))) = PageSize(n, i, limit)
  <1> USE DEF PageAt
  <1> DEFINE page == PageAt(i, limit)
             I == Places(n, page)
             from == (i - 1) * limit
             last == from + limit
             end == IF last < n THEN last ELSE n
  <1>1. page \in PageAsked
    BY DEF PageAsked
  <1>2. from \in Nat
    <2>1. i - 1 \in Nat
      OBVIOUS
    <2>2. \A q \in Nat : q * limit \in Nat
      OBVIOUS
    <2> QED
      BY <2>1, <2>2
  <1>3. \A k : OnPage(page, k) <=> from < k /\ k <= last
    <2>1. page.page = i /\ page.limit = limit /\ ~(i < 1)
      OBVIOUS
    <2>2. Offset(page) = from
      BY <2>1 DEF Offset
    <2> QED
      BY <2>1, <2>2 DEF OnPage
  <1> HIDE DEF from, page, I
  <1>4. last \in Nat /\ end \in Nat
    BY <1>2
  <1>5. I = (from + 1) .. end
    <2>1. \A k : k \in I <=> k \in 1 .. n /\ from < k /\ k <= last
      BY <1>3 DEF Places, I
    <2>2. \A k : k \in 1 .. n /\ from < k /\ k <= last <=> k \in (from + 1) .. end
      BY <1>2, <1>4
    <2> HIDE DEF end, last
    <2> QED
      BY <2>1, <2>2
  <1>6. IsFiniteSet(I) /\ Cardinality(I) = IF from + 1 > end THEN 0 ELSE end - (from + 1) + 1
    <2>1. from + 1 \in Int /\ end \in Int
      BY <1>2, <1>4
    <2> HIDE DEF end
    <2> QED
      BY <1>5, <2>1, FS_Interval
  <1>7. Min({limit, n - from}) = (IF limit <= n - from THEN limit ELSE n - from)
    BY <1>2, MinMaxLemma
  <1> DEFINE m == Min({limit, n - from})
  <1>8. m \in Int
    BY <1>2, <1>7
  <1>9. Max({0, m}) = (IF 0 >= m THEN 0 ELSE m)
    <2> HIDE DEF m
    <2> QED
      BY <1>8, MinMaxLemma
  <1>10. Cardinality(I) = Max({0, m})
    <2>1. m = (IF limit <= n - from THEN limit ELSE n - from)
      BY <1>7
    <2> HIDE DEF m
    <2> QED
      BY <1>2, <1>6, <1>9, <2>1
  <1>11. \A k \in 1 .. n : OnPage(page, k) <=> from < k /\ k <= from + limit
    BY <1>3
  <1> QED
    BY <1>1, <1>6, <1>10, <1>11 DEF from, page, I, PageSize, WithinPage

(* The page a place is on.                                                 *)
LEMMA PlacePage ==
  ASSUME NEW limit \in Nat, limit # 0, NEW n \in Nat, NEW k \in 1 .. n
  PROVE  \E i \in 1 .. n : \A j \in 1 .. n : WithinPage(j, limit, k) <=> j = i
  <1> DEFINE q == (k - 1) \div limit
             r == (k - 1) % limit
  <1>1. q \in Nat /\ k - 1 = q * limit + r /\ r \in 0 .. limit - 1
    BY limit \in Nat, limit # 0, k - 1 \in Nat
  <1> HIDE DEF q, r
  <1>2. q * limit \in Nat /\ q <= q * limit
    <2>1. limit = 1 + (limit - 1) /\ limit - 1 \in Nat
      OBVIOUS
    <2>2. q * (1 + (limit - 1)) = q + q * (limit - 1) /\ q * (limit - 1) \in Nat
      BY <1>1, <2>1
    <2> QED
      BY <1>1, <2>1, <2>2
  <1>3. q + 1 \in 1 .. n
    BY <1>1, <1>2
  <1>4. ASSUME NEW j \in 1 .. n
        PROVE  (j - 1) * limit < k /\ k <= (j - 1) * limit + limit <=> j = q + 1
    <2> DEFINE p == j - 1
    <2>1. p \in Nat /\ (j = q + 1 <=> p = q)
      BY <1>1
    <2> HIDE DEF p
    <2>2. /\ p * limit \in Nat /\ q * limit \in Nat
          /\ p <= q <=> p * limit <= q * limit
          /\ p <= q <=> p * limit < q * limit + limit
          /\ q <= p <=> q * limit <= p * limit
          /\ q <= p <=> q * limit < p * limit + limit
      BY <1>1, <2>1, MultipleLemma
    <2> DEFINE b == p * limit
               c == q * limit
    <2>3. /\ b \in Nat /\ c \in Nat /\ k - 1 = c + r
          /\ p <= q <=> b <= c
          /\ p <= q <=> b < c + limit
          /\ q <= p <=> c <= b
          /\ q <= p <=> c < b + limit
      BY <1>1, <2>2
    <2> HIDE DEF b, c
    <2>4. b < k /\ k <= b + limit <=> p <= q /\ q <= p
      BY <1>1, <2>3
    <2>5. p <= q /\ q <= p <=> p = q
      BY <1>1, <2>1
    <2> QED
      BY <2>1, <2>4, <2>5 DEF b, p
  <1> QED
    BY <1>3, <1>4 DEF WithinPage
-----------------------------------------------------------------------------
(* What a list is sorted by are numbers.                                   *)
LEMMA ColumnNumbers ==
  ASSUME NEW d \in Ledgers, NEW p \in Payments, NEW sort \in SortKey, NEW team \in Team,
         NEW xs, xs \subseteq Team, NEW start, NEW end,
         NEW x \in DOMAIN SortColumn(d, p, sort, team, xs, start, end)
  PROVE  SortColumn(d, p, sort, team, xs, start, end)[x] \in Int
  <1> DEFINE column == SortColumn(d, p, sort, team, xs, start, end)
             at(y, bt) == <<team, y, bt>>
             days == Between(start, end)
             withRow(bt) == {y \in xs : d[at(y, bt)].present}
             changed(bt) == {y \in xs : LogRows(d, {at(y, bt)}, days) # {}}
             named == {y \in xs \cap DOMAIN teams : \E bt \in BalanceType : d[at(y, bt)].present}
             totals(bt) == [y \in changed(bt) |-> Changed(LogRows(d, {at(y, bt)}, days))]
  <1>1. \A y \in xs, bt \in BalanceType : d[at(y, bt)].balance \in Int /\ d[at(y, bt)].pending \in Int
    <2> SUFFICES ASSUME NEW y \in xs, NEW bt \in BalanceType
                 PROVE  d[at(y, bt)].balance \in Int /\ d[at(y, bt)].pending \in Int
      OBVIOUS
    <2> DEFINE a == at(y, bt)
    <2>1. a \in Account
      BY DEF Account
    <2> HIDE DEF a
    <2>2. d[a] \in AccountRow
      BY <2>1 DEF Ledgers
    <2>3. d[a].balance \in Int /\ d[a].pending \in Int
      BY <2>2 DEF AccountRow
    <2> QED
      BY <2>3 DEF a
  <1>2. \A y \in xs, bt \in BalanceType : Changed(LogRows(d, {at(y, bt)}, days)) \in Int
    <2> SUFFICES ASSUME NEW y \in xs, NEW bt \in BalanceType
                 PROVE  Changed(LogRows(d, {at(y, bt)}, days)) \in Int
      OBVIOUS
    <2> DEFINE A == {at(y, bt)}
    <2>1. A \subseteq Account
      BY DEF Account
    <2>2. IsFiniteSet(A)
      BY FS_Singleton
    <2> HIDE DEF A, days
    <2>3. Changed(LogRows(d, A, days)) \in Int
      BY <2>1, <2>2, LogRowsSum
    <2> QED
      BY <2>3 DEF A
  <1>3. \A y : Amounts(p, AcceptedOn(p, team, y, days)) \in Int
    <2> SUFFICES ASSUME NEW y PROVE Amounts(p, AcceptedOn(p, team, y, days)) \in Int
      OBVIOUS
    <2> DEFINE ids == AcceptedOn(p, team, y, days)
    <2>1. ids \subseteq PaymentId /\ \A id \in ids : p[id] # NoPayment
      BY DEF AcceptedOn, PaymentRows
    <2> HIDE DEF ids
    <2> DEFINE fun == [id \in ids |-> p[id].amount]
    <2>2. \A id \in ids : fun[id] \in Int
      BY <2>1 DEF Payments, InvoicePayment
    <2>3. IsFiniteSet(ids) /\ DOMAIN fun = ids
      BY <2>1, ViewsAssumption, FS_Subset
    <2>4. Amounts(p, ids) = SumFunction(fun)
      BY DEF Amounts
    <2> HIDE DEF fun
    <2>5. Amounts(p, ids) \in Int
      BY <2>2, <2>3, <2>4, SumFunctionLemma, SumType
    <2> QED
      BY <2>5 DEF ids
  <1>4. \A y \in xs \cap DOMAIN teams : teams[y].name \in Int
    BY ViewsAssumption
  <1>5. "PAYABLE" \in BalanceType /\ "RECEIVABLE" \in BalanceType
    BY DEF BalanceType
  <1>6. sort = "COMMON" => column = [y \in named |-> teams[y].name]
    BY DEF SortColumn
  <1>7. sort = "PAYABLE" => column = [y \in withRow("PAYABLE") |-> d[at(y, "PAYABLE")].balance]
    BY DEF SortColumn
  <1>8. sort = "RECEIVABLE" =>
          column = [y \in withRow("RECEIVABLE") |-> d[at(y, "RECEIVABLE")].balance]
    BY DEF SortColumn
  <1>9. sort = "PENDING_PAYMENT" =>
          column = [y \in withRow("PAYABLE") |-> d[at(y, "PAYABLE")].pending]
    BY DEF SortColumn
  <1>10. sort = "INCOMING_PAYMENT" =>
           column = [y \in withRow("RECEIVABLE") |-> d[at(y, "RECEIVABLE")].pending]
    BY DEF SortColumn
  <1>11. sort = "TOTAL_PAYMENT" =>
           column = [y \in {z \in xs : AcceptedOn(p, team, z, days) # {}} |->
                       Amounts(p, AcceptedOn(p, team, y, days))]
    BY DEF SortColumn
  <1>12. sort = "TOTAL_PAYABLE" => column = totals("PAYABLE")
    BY DEF SortColumn
  <1>13. sort = "TOTAL_RECEIVABLE" => column = totals("RECEIVABLE")
    BY DEF SortColumn
  <1>14. x \in DOMAIN column
    OBVIOUS
  <1> HIDE DEF column, at, days
  <1>15. column[x] \in Int
    <2>1. CASE sort = "COMMON"
      BY <1>4, <1>6, <1>14, <2>1
    <2>2. CASE sort \in {"PAYABLE", "RECEIVABLE"}
      BY <1>1, <1>5, <1>7, <1>8, <1>14, <2>2
    <2>3. CASE sort \in {"PENDING_PAYMENT", "INCOMING_PAYMENT"}
      BY <1>1, <1>5, <1>9, <1>10, <1>14, <2>3
    <2>4. CASE sort = "TOTAL_PAYMENT"
      BY <1>3, <1>11, <1>14, <2>4
    <2>5. CASE sort \in {"TOTAL_PAYABLE", "TOTAL_RECEIVABLE"}
      BY <1>2, <1>5, <1>12, <1>13, <1>14, <2>5
    <2> QED
      BY <2>1, <2>2, <2>3, <2>4, <2>5 DEF SortKey
  <1> QED
    BY <1>15 DEF column

(* y comes before x in the sort.                                           *)
Ahead(column, desc, y, x) == IF desc THEN column[y] > column[x] ELSE column[y] < column[x]

(* Wherever the database puts the others: a counterparty that ties with no *)
(* other has the place that the ones before it leave.                      *)
LEMMA SortedPlace ==
  ASSUME NEW column, NEW desc \in BOOLEAN, IsFiniteSet(DOMAIN column),
         \A x \in DOMAIN column : column[x] \in Int,
         NEW n, n = Cardinality(DOMAIN column), NEW s \in Sorted(column, desc)
  PROVE  /\ n \in Nat /\ s \in Listing(n, DOMAIN column)
         /\ \A i, j \in 1 .. n : i # j => s[i] # s[j]
         /\ \A x \in DOMAIN column : (\A y \in DOMAIN column \ {x} : column[x] # column[y]) =>
              LET k == Cardinality({y \in DOMAIN column : Ahead(column, desc, y, x)}) + 1
              IN  k \in 1 .. n /\ \A i \in 1 .. n : s[i] = x <=> i = k
  <1> DEFINE S == DOMAIN column
  <1>1. n \in Nat
    BY FS_CardinalityType
  <1>2. /\ s \in [1 .. n -> S] /\ \A i, j \in 1 .. n : i # j => s[i] # s[j]
        /\ \A i, j \in 1 .. n : i < j => IF desc THEN column[s[i]] >= column[s[j]]
                                         ELSE column[s[i]] <= column[s[j]]
    BY DEF Sorted, SetToSeqs
  <1>3. \A x \in S : \E i \in 1 .. n : s[i] = x
    <2> DEFINE I == 1 .. n
    <2>1. s \in Injection(I, S)
      BY <1>2 DEF Injection, IsInjective
    <2>2. IsFiniteSet(I) /\ Cardinality(I) = Cardinality(S)
      BY <1>1, FS_Interval
    <2> HIDE DEF I, S
    <2>3. s \in Surjection(I, S)
      BY <2>1, <2>2, FS_Injection DEF S
    <2> QED
      BY <2>3 DEF Surjection, I
  <1>4. ASSUME NEW x \in S, \A y \in S \ {x} : column[x] # column[y]
        PROVE  LET k == Cardinality({y \in S : Ahead(column, desc, y, x)}) + 1
               IN  k \in 1 .. n /\ \A i \in 1 .. n : s[i] = x <=> i = k
    <2> DEFINE T == {y \in S : Ahead(column, desc, y, x)}
    <2>1. PICK p \in 1 .. n : s[p] = x
      BY <1>3
    <2> DEFINE I == 1 .. (p - 1)
    <2>2. \A i \in 1 .. n : Ahead(column, desc, s[i], x) <=> i < p
      <3> SUFFICES ASSUME NEW i \in 1 .. n PROVE Ahead(column, desc, s[i], x) <=> i < p
        OBVIOUS
      <3>1. s[i] \in S /\ column[s[i]] \in Int /\ column[x] \in Int
        BY <1>2
      <3>2. CASE i = p
        BY <2>1, <3>1, <3>2 DEF Ahead
      <3>3. CASE i # p
        <4>1. column[s[i]] # column[x]
          BY <1>2, <1>4, <2>1, <3>1, <3>3
        <4>2. i < p \/ p < i
          BY <1>1, <3>3
        <4>3. i < p => IF desc THEN column[s[i]] >= column[x] ELSE column[s[i]] <= column[x]
          BY <1>2, <2>1
        <4>4. p < i => IF desc THEN column[x] >= column[s[i]] ELSE column[x] <= column[s[i]]
          BY <1>2, <2>1
        <4> QED
          BY <1>1, <3>1, <4>1, <4>2, <4>3, <4>4 DEF Ahead
      <3> QED
        BY <3>2, <3>3
    <2>3. \A i : i \in I <=> i \in 1 .. n /\ i < p
      BY <1>1
    <2>4. ASSUME NEW y
          PROVE  y \in T <=> \E i \in I : y = s[i]
      <3> HIDE DEF I
      <3>1. ASSUME y \in T PROVE \E i \in I : y = s[i]
        <4>1. y \in S /\ Ahead(column, desc, y, x)
          BY <3>1
        <4>2. PICK i \in 1 .. n : s[i] = y
          BY <1>3, <4>1
        <4> QED
          BY <2>2, <2>3, <4>1, <4>2
      <3>2. ASSUME NEW i \in I, y = s[i] PROVE y \in T
        BY <1>2, <2>2, <2>3, <3>2
      <3> QED
        BY <3>1, <3>2
    <2>5. \A i, j \in I : i # j => s[i] # s[j]
      <3> HIDE DEF I
      <3> QED
        BY <1>2, <2>3
    <2>6. IsFiniteSet(I) /\ Cardinality(I) = p - 1
      <3> DEFINE q == p - 1
      <3>1. q \in Int /\ ~(q < 0)
        BY <1>1
      <3> HIDE DEF q
      <3>2. IsFiniteSet(1 .. q) /\ Cardinality(1 .. q) = IF 1 > q THEN 0 ELSE q - 1 + 1
        BY <3>1, FS_Interval
      <3>3. Cardinality(1 .. q) = q
        BY <3>1, <3>2
      <3> QED
        BY <3>2, <3>3 DEF q
    <2>7. Cardinality(T) = p - 1
      <3> HIDE DEF T, I
      <3> QED
        BY <2>4, <2>5, <2>6, ListedOnce
    <2> HIDE DEF T
    <2>8. Cardinality(T) + 1 = p
      BY <1>1, <2>7
    <2>9. \A i \in 1 .. n : s[i] = x <=> i = p
      BY <1>2, <2>1
    <2> QED
      BY <2>8, <2>9 DEF T
  <1>5. s \in Listing(n, S)
    BY <1>2 DEF Listing
  <1> QED
    BY <1>1, <1>2, <1>4, <1>5
-----------------------------------------------------------------------------
(* The members of a page, and how many there are.                          *)
FillsPage(T, column, desc, n, limit, i) ==
  /\ T \subseteq DOMAIN column
  /\ Cardinality(T) = PageSize(n, i, limit)
  /\ \E s \in Sorted(column, desc) : \A x :
       x \in T <=> \E k \in 1 .. n : WithinPage(i, limit, k) /\ x = s[k]

LEMMA PageMembers ==
  ASSUME NEW column, NEW desc \in BOOLEAN, IsFiniteSet(DOMAIN column),
         \A x \in DOMAIN column : column[x] \in Int,
         NEW n, n = Cardinality(DOMAIN column), NEW limit \in Nat, limit # 0,
         NEW i \in Nat, i # 0, NEW q \in sortForTeamIDs(column, desc, PageAt(i, limit))
  PROVE  FillsPage(ToSet(q), column, desc, n, limit, i)
  <1> DEFINE page == PageAt(i, limit)
             S == DOMAIN column
             I == Places(n, page)
             T == ToSet(q)
  <1>1. PICK s \in Sorted(column, desc) : q = PageOf(s, page)
    BY DEF sortForTeamIDs
  <1>2. n \in Nat /\ s \in Listing(n, S) /\ \A j, k \in 1 .. n : j # k => s[j] # s[k]
    BY SortedPlace
  <1>3. I = {k \in 1 .. n : OnPage(page, k)}
    BY DEF Places
  <1>4. /\ page \in PageAsked
        /\ \A k \in 1 .. n : OnPage(page, k) <=> WithinPage(i, limit, k)
        /\ IsFiniteSet(I) /\ Cardinality(I) = PageSize(n, i, limit)
    BY <1>2, PagePlaces
  <1> HIDE DEF S, I, page
  <1>5. \A x : x \in ToSet(PageOf(s, page)) <=> \E k \in 1 .. n : OnPage(page, k) /\ x = s[k]
    BY <1>2, <1>4, PageLemma
  <1> HIDE DEF T
  <1>6. \A x : x \in T <=> \E k \in I : x = s[k]
    BY <1>1, <1>3, <1>5 DEF T
  <1>7. \A j, k \in I : j # k => s[j] # s[k]
    BY <1>2, <1>3
  <1>8. Cardinality(T) = Cardinality(I)
    BY <1>4, <1>6, <1>7, ListedOnce
  <1>9. T \subseteq S
    BY <1>2, <1>3, <1>6 DEF Listing
  <1>10. \A x : x \in T <=> \E k \in 1 .. n : WithinPage(i, limit, k) /\ x = s[k]
    BY <1>3, <1>4, <1>6
  <1> QED
    BY <1>1, <1>4, <1>8, <1>9, <1>10 DEF T, S, FillsPage

LEMMA PagesInvariant == ViewInv => PagesCover
  <1> SUFFICES ASSUME ViewInv, NEW r \in Request, r.op = "list", NEW sort \in SortKey
               PROVE  LET xs == Counterparties(r.forTeam, r.type)
                          column == SortColumn(db, payments, sort, r.team, xs, r.start, r.end)
                          n == Cardinality(DOMAIN column)
                          limit == r.page.limit
                          Sets(i) == {ToSet(ids) : ids \in
                                        sortForTeamIDs(column, r.desc, [page |-> i, limit |-> limit])}
                          untied == {x \in DOMAIN column :
                                       \A y \in DOMAIN column \ {x} : column[x] # column[y]}
                      IN  /\ \A i \in 1 .. n + 1 : \A ids \in Sets(i) :
                               /\ ids \subseteq DOMAIN column
                               /\ Cardinality(ids) = Max({0, Min({limit, n - (i - 1) * limit})})
                          /\ \A x \in untied : \E i \in 1 .. n : \A j \in 1 .. n :
                               \A ids \in Sets(j) : x \in ids <=> j = i
    BY DEF PagesCover
  <1> DEFINE xs == Counterparties(r.forTeam, r.type)
             column == SortColumn(db, payments, sort, r.team, xs, r.start, r.end)
             n == Cardinality(DOMAIN column)
             limit == r.page.limit
             desc == r.desc
             Sets(i) == {ToSet(ids) : ids \in sortForTeamIDs(column, desc, PageAt(i, limit))}
             untied == {x \in DOMAIN column :
                          \A y \in DOMAIN column \ {x} : column[x] # column[y]}
  <1>1. /\ r.team \in Team /\ r.desc \in BOOLEAN /\ limit \in Nat /\ limit # 0
    BY FlowAssumption DEF Readers
  <1>2. xs \subseteq Team
    BY DEF Counterparties
  <1>3. IsFiniteSet(DOMAIN column)
    <2>1. DOMAIN column \subseteq xs
      BY ColumnTeams
    <2> HIDE DEF column
    <2> QED
      BY <1>2, <2>1, ViewsAssumption, FS_Subset
  <1>4. \A x \in DOMAIN column : column[x] \in Int
    <2>1. db \in Ledgers /\ payments \in Payments
      BY DEF ViewInv, LedgerInv, Books, PaymentsOK, Payments
    <2> HIDE DEF xs
    <2> QED
      BY <1>1, <1>2, <2>1, ColumnNumbers
  <1>5. n = Cardinality(DOMAIN column)
    OBVIOUS
  <1> HIDE DEF xs, column, n, limit, desc
  <1>6. ASSUME NEW i \in Nat, i # 0, NEW ids \in Sets(i)
        PROVE  FillsPage(ids, column, desc, n, limit, i)
    <2>1. PICK q \in sortForTeamIDs(column, desc, PageAt(i, limit)) : ids = ToSet(q)
      BY <1>6
    <2>2. desc \in BOOLEAN
      BY <1>1 DEF desc
    <2> HIDE DEF Sets
    <2>3. FillsPage(ToSet(q), column, desc, n, limit, i)
      BY <1>1, <1>3, <1>4, <1>5, <1>6, <2>2, PageMembers
    <2> QED
      BY <2>1, <2>3
  <1>7. n \in Nat
    BY <1>3, <1>5, FS_CardinalityType
  <1>8. \A i \in 1 .. n + 1 : \A ids \in Sets(i) :
          /\ ids \subseteq DOMAIN column
          /\ Cardinality(ids) = PageSize(n, i, limit)
    <2>1. \A i \in 1 .. n + 1 : i \in Nat /\ i # 0
      BY <1>7
    <2> HIDE DEF Sets
    <2> QED
      BY <1>6, <2>1 DEF FillsPage
  <1>9. ASSUME NEW x \in untied
        PROVE  \E i \in 1 .. n : \A j \in 1 .. n : \A ids \in Sets(j) : x \in ids <=> j = i
    <2> DEFINE k == Cardinality({y \in DOMAIN column : Ahead(column, desc, y, x)}) + 1
    <2>1. \A s \in Sorted(column, desc) : k \in 1 .. n /\ \A i \in 1 .. n : s[i] = x <=> i = k
      <3>1. x \in DOMAIN column /\ \A y \in DOMAIN column \ {x} : column[x] # column[y]
        OBVIOUS
      <3>2. desc \in BOOLEAN
        BY <1>1 DEF desc
      <3> HIDE DEF untied
      <3> QED
        BY <1>3, <1>4, <1>5, <3>1, <3>2, SortedPlace
    <2> HIDE DEF k, untied
    <2>2. CASE Sorted(column, desc) = {}
      <3>1. n # 0
        BY <1>3, <1>5, FS_EmptySet DEF untied
      <3>2. \A j \in 1 .. n : Sets(j) = {}
        BY <2>2 DEF sortForTeamIDs
      <3>3. 1 \in 1 .. n
        BY <1>7, <3>1
      <3> HIDE DEF Sets
      <3> QED
        BY <3>2, <3>3
    <2>3. CASE Sorted(column, desc) # {}
      <3>1. k \in 1 .. n
        BY <2>1, <2>3
      <3>2. PICK i \in 1 .. n : \A j \in 1 .. n : WithinPage(j, limit, k) <=> j = i
        BY <1>1, <1>7, <3>1, PlacePage
      <3> HIDE DEF Sets
      <3>3. ASSUME NEW j \in 1 .. n, NEW ids \in Sets(j)
            PROVE  x \in ids <=> j = i
        <4>1. j \in Nat /\ j # 0
          BY <1>7
        <4>2. PICK s \in Sorted(column, desc) : \A y :
                y \in ids <=> \E l \in 1 .. n : WithinPage(j, limit, l) /\ y = s[l]
          BY <1>6, <4>1 DEF FillsPage
        <4>3. \A l \in 1 .. n : x = s[l] <=> l = k
          BY <2>1
        <4>4. x \in ids <=> WithinPage(j, limit, k)
          BY <3>1, <4>2, <4>3
        <4> QED
          BY <3>2, <4>4
      <3> QED
        BY <3>3
    <2> QED
      BY <2>2, <2>3
  <1> QED
    BY <1>8, <1>9 DEF xs, column, n, limit, desc, PageSize, PageAt

(* The pages of every list, in any sort, share out what it lists.          *)
THEOREM FlowPagesCover == FlowSpec => []PagesCover
  BY FlowViewInvariant, PagesInvariant, PTL

(* A timeline read while orders are booked misses at most what was booked  *)
(* between its statements, and counts nothing twice, for every request,    *)
(* any events, payments and number of postings in between.                 *)
THEOREM FlowTimeline == FlowSpec => []TimelineMissesOnlyLate
  BY FlowInvariant, TimelineInvariant, PTL
-----------------------------------------------------------------------------
(* The gate of the orders.                                                 *)

(* The greatest of finitely many natural numbers.                          *)
LEMMA MaxLemma ==
  ASSUME NEW S, IsFiniteSet(S), \A x \in S : x \in Nat, S # {}
  PROVE  Max(S) \in S /\ Max(S) \in Nat /\ \A x \in S : x <= Max(S)
  <1>1. PICK m \in S : \A k \in S : k <= m
    BY GreatestOf
  <1>2. \A y \in S : m >= y
    BY <1>1
  <1>3. Max(S) \in S /\ \A y \in S : Max(S) >= y
    BY <1>2 DEF Max
  <1> QED
    BY <1>3

-----------------------------------------------------------------------------
(* The gate: what its state is.                                            *)

(* A rule has one of the thresholds that creditors set.                    *)
GateRule(r) ==
  /\ r = Row(r.id, r.team, r.forTeam, r.isDefault, r.threshold)
  /\ r.threshold \in Thresholds

DefaultFor(rows, c) == \E r \in rows : r.team = c /\ r.isDefault = "true"

LimitsOK(rows) ==
  /\ IsFiniteSet(rows)
  /\ \A r \in rows : GateRule(r)
  /\ \A t \in Team : DefaultFor(rows, t)

(* What the gate has read about a debtor: a default of every creditor.     *)
Asked(rows, debtor, creditors) ==
  /\ IsFiniteSet(rows)
  /\ \A r \in rows : /\ GateRule(r) /\ r.team \in creditors
                     /\ r.forTeam = debtor \/ r.isDefault = "true"
  /\ \A c \in creditors : DefaultFor(rows, c)

Flight(os) ==
  {x \in Order : \/ os[x].gate = "asked"
                 \/ os[x].gate = "admitted" /\ "OrderCreated" \notin os[x].applied}

OrdersOK(os) ==
  /\ os = [o \in Order |-> os[o]]
  /\ \A o \in Order :
       /\ os[o] = [gate |-> os[o].gate, cfgs |-> os[o].cfgs, applied |-> os[o].applied]
       /\ os[o].gate = "asked" => Asked(os[o].cfgs, OrderRow[o].team, Creditors(o))
  /\ Cardinality(Flight(os)) <= MaxFlight

(* What the admitted orders that are not booked will add to a debt.        *)
Waiting(os, debtor) ==
  {o \in Order : /\ OrderRow[o].team = debtor /\ os[o].gate = "admitted"
                 /\ "OrderCreated" \notin os[o].applied}

Debts(creditor) == [o \in Order |-> OrderDebt(o, creditor)]

Expected(os, debtor, creditor) == SumFunctionOnSet(Debts(creditor), Waiting(os, debtor))

(* The credits of overpayments on a PAYABLE, and the debt without them.    *)
Credits == {e \in LogEntry : e.kind = "PAYMENT" /\ e.change < 0}

Net(d, b) == EntrySum(d[b].log, Credits) - d[b].balance

Fees(debtor, creditor) ==
  {OrderDebt(o, creditor) : o \in {x \in Order : OrderRow[x].team = debtor}}

Within(d, os, debtor, creditor) ==
  Fees(debtor, creditor) # {} =>
    Net(d, <<debtor, creditor, "PAYABLE">>) + Expected(os, debtor, creditor)
      < Max(Thresholds) + MaxFlight * Max(Fees(debtor, creditor))

(* The debts of orders stay within the bound.                              *)
GateInv ==
  /\ ViewInv
  /\ Threshold # {} /\ LimitsOK(limits) /\ OrdersOK(orders)
  /\ \A debtor \in Team : \A creditor \in Team \ {debtor} :
       Within(db, orders, debtor, creditor)
-----------------------------------------------------------------------------
(* What an order costs is not negative.                                    *)
LEMMA OrderDebtLemma ==
  ASSUME NEW o \in Order, NEW y
  PROVE  OrderDebt(o, y) \in Nat
  <1> DEFINE row == OrderRow[o]
             items == row.items
             n == Len(items)
             totals == [i \in DOMAIN items |-> Charge(items[i].total)]
             cross == {i \in CrossItems(o) : items[i].productTeam = y}
             fee == IF row.warehouse = y THEN Charge(row.fee) ELSE 0
  <1>1. row.fee \in Int /\ items \in Seq(OrderItem)
    BY RowAssumption DEF Order
  <1>2. n \in Nat /\ DOMAIN items = 1 .. n /\ cross \subseteq 1 .. n
    BY <1>1 DEF CrossItems
  <1>3. \A i \in 1 .. n : items[i].total \in Int
    <2>1. \A i \in 1 .. n : items[i] \in OrderItem
      BY <1>1
    <2> HIDE DEF items
    <2> QED
      BY <2>1 DEF OrderItem
  <1>4. \A i \in cross : totals[i] \in Nat
    BY <1>2, <1>3 DEF Charge
  <1>5. IsFiniteSet(cross)
    <2>1. IsFiniteSet(1 .. n)
      BY <1>2, FS_Interval
    <2> HIDE DEF cross, n
    <2> QED
      BY <1>2, <2>1, FS_Subset
  <1>6. fee \in Nat
    BY <1>1 DEF Charge
  <1> HIDE DEF totals, cross, fee
  <1>7. SumFunctionOnSet(totals, cross) \in Nat
    BY <1>4, <1>5, SumNat
  <1>8. OrderDebt(o, y) = IF y = row.team THEN 0 ELSE SumFunctionOnSet(totals, cross) + fee
    BY DEF OrderDebt, totals, cross, fee
  <1> QED
    BY <1>6, <1>7, <1>8

(* The fees of a debtor's orders have a greatest one.                      *)
LEMMA FeesLemma ==
  ASSUME NEW debtor, NEW creditor, Fees(debtor, creditor) # {}
  PROVE  /\ Max(Fees(debtor, creditor)) \in Nat
         /\ \A o \in Order : OrderRow[o].team = debtor
              => OrderDebt(o, creditor) <= Max(Fees(debtor, creditor))
  <1> DEFINE S == {x \in Order : OrderRow[x].team = debtor}
             f == Debts(creditor)
             F == Fees(debtor, creditor)
  <1>1. IsFiniteSet(S)
    BY FlowAssumption, FS_Subset DEF Order
  <1>2. F = {f[o] : o \in S}
    BY DEF Fees, Debts
  <1>3. \A x \in F : x \in Nat
    BY OrderDebtLemma DEF Fees
  <1>4. IsFiniteSet(F)
    <2> HIDE DEF S, f, F
    <2> QED
      BY <1>1, <1>2, ImageFinite
  <1> HIDE DEF F
  <1>5. Max(F) \in Nat /\ \A x \in F : x <= Max(F)
    BY <1>3, <1>4, MaxLemma DEF F
  <1>6. \A o \in Order : OrderRow[o].team = debtor => OrderDebt(o, creditor) \in F
    BY DEF F, Fees
  <1> QED
    BY <1>5, <1>6 DEF F

(* Every threshold is positive, and there is a highest one.                *)
LEMMA ThresholdsLemma ==
  ASSUME Threshold # {}
  PROVE  /\ Max(Thresholds) \in Nat \ {0}
         /\ \A t \in Thresholds : t \in Nat \ {0} /\ t <= Max(Thresholds)
  <1> DEFINE f == [s \in LimitSet |-> s.threshold]
             S == {s.threshold : s \in LimitSet}
  <1>1. IsFiniteSet(S)
    <2>1. S = {f[s] : s \in LimitSet}
      OBVIOUS
    <2> HIDE DEF S, f
    <2> QED
      BY <2>1, FlowAssumption, ImageFinite
  <1>2. IsFiniteSet(Thresholds)
    <2> HIDE DEF S
    <2>1. IsFiniteSet(Threshold \cup S)
      BY <1>1, FlowAssumption, FS_Union
    <2> QED
      BY <2>1 DEF Thresholds, S
  <1>3. \A t \in Thresholds : t \in Nat /\ t # 0
    BY FlowAssumption DEF Thresholds
  <1>4. Thresholds # {}
    BY DEF Thresholds
  <1> DEFINE T == Thresholds
  <1> HIDE DEF T
  <1>5. Max(T) \in T /\ \A t \in T : t <= Max(T)
    BY <1>2, <1>3, <1>4, MaxLemma DEF T
  <1> QED
    BY <1>3, <1>5 DEF T

-----------------------------------------------------------------------------
(* The evaluation of the limits: a creditor with a default row has a limit.*)

GateLimit == [threshold : Thresholds \cup {0}, hasCustom : BOOLEAN, hasCfg : BOOLEAN]

GateUnset(creditors) ==
  [c \in creditors |-> [threshold |-> 0, hasCustom |-> FALSE, hasCfg |-> FALSE]]

GateLimits(cfgs, debtor, creditors) ==
  FoldLeft(LAMBDA ls, cfg : Resolve(ls, cfg, debtor), GateUnset(creditors), cfgs)

(* The limit that a row sets.                                              *)
RowLimit(r, custom) == [threshold |-> r.threshold, hasCustom |-> custom, hasCfg |-> TRUE]

(* A row that the gate reads about the debtor.                             *)
GateRow(r, debtor, creditors) ==
  GateRule(r) /\ r.team \in creditors /\ (r.forTeam = debtor \/ r.isDefault = "true")

(* The limits are typed, and where there is a row their threshold is one.  *)
Limited(ls, creditors) ==
  /\ ls \in [creditors -> GateLimit]
  /\ \A c \in creditors : /\ ls[c].hasCustom => ls[c].hasCfg
                          /\ ls[c].hasCfg => ls[c].threshold \in Thresholds

(* A row keeps the limits so, takes none away, and gives its creditor one. *)
LEMMA GateResolve ==
  ASSUME NEW debtor, NEW creditors, NEW ls, Limited(ls, creditors), NEW r,
         GateRow(r, debtor, creditors)
  PROVE  /\ Limited(Resolve(ls, r, debtor), creditors)
         /\ \A c \in creditors : ls[c].hasCfg => Resolve(ls, r, debtor)[c].hasCfg
         /\ Resolve(ls, r, debtor)[r.team].hasCfg
  <1> DEFINE new == Resolve(ls, r, debtor)
             t == r.team
  <1>1. t \in creditors /\ r.threshold \in Thresholds /\ (r.forTeam = debtor \/ r.isDefault = "true")
    BY DEF GateRow, GateRule
  <1>2. ls \in [creditors -> GateLimit]
    BY DEF Limited
  <1>3. ASSUME NEW custom \in BOOLEAN, new = [ls EXCEPT ![t] = RowLimit(r, custom)]
        PROVE  /\ Limited(new, creditors) /\ new[t].hasCfg
               /\ \A c \in creditors : ls[c].hasCfg => new[c].hasCfg
    <2>1. RowLimit(r, custom) \in GateLimit
      BY <1>1 DEF RowLimit, GateLimit
    <2>2. /\ RowLimit(r, custom).hasCfg /\ RowLimit(r, custom).threshold \in Thresholds
      BY <1>1 DEF RowLimit
    <2> DEFINE v == RowLimit(r, custom)
    <2> HIDE DEF v, new, t
    <2>3. new \in [creditors -> GateLimit] /\ new[t] = v
      BY <1>1, <1>2, <1>3, <2>1 DEF v
    <2>4. \A c \in creditors : c # t => new[c] = ls[c]
      BY <1>2, <1>3
    <2>5. v.hasCfg /\ v.threshold \in Thresholds
      BY <2>2 DEF v
    <2> QED
      BY <2>3, <2>4, <2>5 DEF Limited
  <1>4. CASE r.isDefault # "true" /\ r.forTeam = debtor
    <2>1. new = [ls EXCEPT ![t] = RowLimit(r, TRUE)]
      BY <1>4 DEF Resolve, RowLimit
    <2> QED
      BY <1>3, <2>1
  <1>5. CASE ~(r.isDefault # "true" /\ r.forTeam = debtor) /\ ls[t].hasCustom
    <2>1. new = ls
      BY <1>1, <1>5 DEF Resolve
    <2> QED
      BY <1>1, <1>5, <2>1 DEF Limited
  <1>6. CASE ~(r.isDefault # "true" /\ r.forTeam = debtor) /\ ~ls[t].hasCustom
    <2>1. new = [ls EXCEPT ![t] = RowLimit(r, FALSE)]
      BY <1>1, <1>6 DEF Resolve, RowLimit
    <2> QED
      BY <1>3, <2>1
  <1> QED
    BY <1>4, <1>5, <1>6

GateFrom(V, cfgs, debtor, n) ==
  [x \in (1 .. n) \X V |-> Resolve(x[2], cfgs[x[1]], debtor)]

(* L has the limits before each row and after the last one.                *)
GateSteps(L, cfgs, debtor, creditors, n) ==
  /\ L[0] = GateUnset(creditors) /\ L[n] = GateLimits(cfgs, debtor, creditors)
  /\ \A i \in 1 .. n : L[i] = Resolve(L[i - 1], cfgs[i], debtor)

LimitedSet(creditors) == {ls \in [creditors -> GateLimit] : Limited(ls, creditors)}

LEMMA GateEvaluation ==
  ASSUME NEW debtor, NEW creditors, NEW n \in Nat, NEW S, NEW cfgs \in [1 .. n -> S],
         \A r \in S : GateRow(r, debtor, creditors)
  PROVE  \E L : GateSteps(L, cfgs, debtor, creditors, n)
  <1> DEFINE V == LimitedSet(creditors)
             base == GateUnset(creditors)
             step == GateFrom(V, cfgs, debtor, n)
  <1>1. base \in V
    BY DEF GateUnset, GateLimit, LimitedSet, Limited
  <1>2. \A i \in 1 .. n, v \in V : /\ step[<<i, v>>] = Resolve(v, cfgs[i], debtor)
                                   /\ step[<<i, v>>] \in V
    <2> TAKE i \in 1 .. n, v \in V
    <2>1. step[<<i, v>>] = Resolve(v, cfgs[i], debtor)
      <3> HIDE DEF V
      <3> QED
        BY DEF GateFrom
    <2>2. GateRow(cfgs[i], debtor, creditors) /\ Limited(v, creditors)
      BY DEF LimitedSet
    <2>3. Limited(Resolve(v, cfgs[i], debtor), creditors)
      BY <2>2, GateResolve
    <2> QED
      BY <2>1, <2>3 DEF LimitedSet, Limited
  <1> HIDE DEF V, base, step
  <1>3. PICK g \in [SUBSET (1 .. n) -> V] : FoldsLeft(g, base, step, n)
    BY <1>1, <1>2, FoldsLeftExists
  <1> DEFINE Body(h) == [s \in SUBSET (1 .. n) |->
               IF s = {} THEN base
               ELSE Resolve(h[s \ {CHOOSE m \in s : \A k \in s : m >= k}],
                            cfgs[CHOOSE m \in s : \A k \in s : m >= k], debtor)]
  <1>4. g = Body(g)
    <2>1. ASSUME NEW s \in SUBSET (1 .. n)
          PROVE  g[s] = Body(g)[s]
      <3> DEFINE m == Greatest(n)[s]
      <3>1. m = CHOOSE i \in s : \A k \in s : i >= k
        BY DEF Greatest
      <3>2. g[s] = IF s = {} THEN base ELSE step[<<m, g[s \ {m}]>>]
        BY <1>3 DEF FoldsLeft, IsFold, FoldBody
      <3>3. s # {} => m \in 1 .. n /\ s \ {m} \in SUBSET (1 .. n)
        BY GreatestLemma
      <3> HIDE DEF m
      <3>4. s # {} => step[<<m, g[s \ {m}]>>] = Resolve(g[s \ {m}], cfgs[m], debtor)
        BY <1>2, <3>3
      <3> QED
        BY <3>1, <3>2, <3>4
    <2>2. g = [s \in SUBSET (1 .. n) |-> g[s]]
      OBVIOUS
    <2>3. Body(g) = [s \in SUBSET (1 .. n) |-> Body(g)[s]]
      OBVIOUS
    <2> HIDE DEF Body
    <2> QED
      BY <2>1, <2>2, <2>3
  <1> DEFINE iter == CHOOSE h : h = Body(h)
  <1>5. iter = Body(iter)
    <2> HIDE DEF Body
    <2> QED
      BY <1>4
  <1>6. GateLimits(cfgs, debtor, creditors) = iter[1 .. n]
    BY DEF GateLimits, FoldLeft, MapThenFoldSet, base, Max
  <1>7. iter[1 .. 0] = base
    <2>1. 1 .. 0 = {} /\ {} \in SUBSET (1 .. n)
      OBVIOUS
    <2>2. Body(iter)[{}] = base
      BY <2>1
    <2> QED
      BY <1>5, <2>1, <2>2
  <1>8. ASSUME NEW i \in 1 .. n
        PROVE  iter[1 .. i] = Resolve(iter[1 .. (i - 1)], cfgs[i], debtor)
    <2> DEFINE s == 1 .. i
               m == CHOOSE x \in s : \A k \in s : x >= k
    <2>1. /\ s \in SUBSET (1 .. n) /\ s # {} /\ m = i /\ s \ {i} = 1 .. (i - 1)
      BY GreatestLemma DEF Greatest
    <2>2. Body(iter)[s] = Resolve(iter[s \ {m}], cfgs[m], debtor)
      <3> HIDE DEF iter
      <3> QED
        BY <2>1
    <2> HIDE DEF Body, iter, m, s
    <2>3. iter[s] = Resolve(iter[1 .. (i - 1)], cfgs[i], debtor)
      BY <1>5, <2>1, <2>2
    <2> QED
      BY <2>3 DEF s
  <1> DEFINE L == [i \in 0 .. n |-> iter[1 .. i]]
  <1> HIDE DEF iter
  <1>9. \A i \in 0 .. n : L[i] = iter[1 .. i]
    OBVIOUS
  <1>10. 0 \in 0 .. n /\ n \in 0 .. n /\ \A i \in 1 .. n : i \in 0 .. n /\ i - 1 \in 0 .. n
    OBVIOUS
  <1> HIDE DEF L
  <1>11. GateSteps(L, cfgs, debtor, creditors, n)
    BY <1>6, <1>7, <1>8, <1>9, <1>10 DEF base, GateSteps
  <1> QED
    BY <1>11

(* The limits in which the creditor c has one.                             *)
Having(c, creditors) == {ls \in LimitedSet(creditors) : ls[c].hasCfg}

(* After all rows, a creditor that has a default among them is limited.    *)
LEMMA GateLimited ==
  ASSUME NEW debtor, NEW creditors, NEW S, Asked(S, debtor, creditors),
         NEW cfgs \in SetToSeqs(S), NEW c \in creditors
  PROVE  /\ GateLimits(cfgs, debtor, creditors)[c].hasCfg
         /\ GateLimits(cfgs, debtor, creditors)[c].threshold \in Thresholds
  <1> DEFINE n == Cardinality(S)
             ls == GateLimits(cfgs, debtor, creditors)
  <1>1. \A r \in S : GateRow(r, debtor, creditors)
    BY DEF Asked, GateRow
  <1>2. n \in Nat /\ cfgs \in [1 .. n -> S] /\ \E i \in 1 .. n : cfgs[i].team = c
    <2>1. IsFiniteSet(S)
      BY DEF Asked
    <2>2. n \in Nat
      BY <2>1, FS_CardinalityType
    <2> DEFINE D == 1 .. n
    <2>3. cfgs \in [D -> S] /\ \A i, j \in D : i # j => cfgs[i] # cfgs[j]
      BY DEF SetToSeqs
    <2>4. IsFiniteSet(D) /\ Cardinality(D) = n
      BY <2>2, FS_Interval
    <2> HIDE DEF D
    <2>5. cfgs \in Injection(D, S)
      BY <2>3 DEF Injection, IsInjective
    <2>6. cfgs \in Surjection(D, S)
      BY <2>1, <2>4, <2>5, FS_Injection
    <2>7. PICK r \in S : r.team = c
      BY DEF Asked, DefaultFor
    <2>8. \E i \in D : cfgs[i] = r
      BY <2>6 DEF Surjection
    <2> QED
      BY <2>2, <2>3, <2>7, <2>8 DEF D
  <1>3. PICK j \in 1 .. n : cfgs[j].team = c
    BY <1>2
  <1> HIDE DEF n, ls
  <1>4. PICK L : GateSteps(L, cfgs, debtor, creditors, n)
    BY <1>1, <1>2, GateEvaluation
  <1>5. /\ L[0] = GateUnset(creditors) /\ L[n] = ls
        /\ \A i \in 1 .. n : L[i] = Resolve(L[i - 1], cfgs[i], debtor)
    BY <1>4 DEF GateSteps, ls
  <1> DEFINE V == LimitedSet(creditors)
             W == Having(c, creditors)
  <1>6. \A v : v \in V <=> Limited(v, creditors)
    BY DEF LimitedSet, Limited
  <1>7. \A v : v \in W <=> v \in V /\ v[c].hasCfg
    BY DEF Having
  <1>8. L[0] \in V
    <2>1. GateUnset(creditors) \in V
      BY DEF GateUnset, GateLimit, LimitedSet, Limited
    <2> QED
      BY <1>5, <2>1
  <1>9. \A i \in 1 .. n : GateRow(cfgs[i], debtor, creditors)
    BY <1>1, <1>2
  <1> HIDE DEF V, W
  <1>10. ASSUME NEW i \in 1 .. n, L[i - 1] \in V
         PROVE  /\ L[i] \in V
                /\ L[i - 1] \in W \/ i = j => L[i] \in W
    <2>1. Limited(L[i - 1], creditors) /\ GateRow(cfgs[i], debtor, creditors)
      BY <1>6, <1>9, <1>10
    <2> DEFINE v == L[i - 1]
               r == cfgs[i]
    <2>2. Limited(v, creditors) /\ GateRow(r, debtor, creditors) /\ L[i] = Resolve(v, r, debtor)
      BY <1>5, <2>1
    <2>3. i = j => r.team = c
      BY <1>3
    <2> HIDE DEF v, r
    <2>4. /\ Limited(L[i], creditors)
          /\ \A x \in creditors : v[x].hasCfg => L[i][x].hasCfg
          /\ L[i][r.team].hasCfg
      BY <2>2, GateResolve
    <2> QED
      BY <1>6, <1>7, <2>3, <2>4 DEF v
  <1>11. \A i \in 0 .. n : L[i] \in V
    <2>1. \A i \in 1 .. n : L[i - 1] \in V => L[i] \in V
      BY <1>10
    <2> QED
      BY <1>2, <1>8, <2>1, StepsStay
  <1> DEFINE M == [i \in 0 .. (n - j) |-> L[j + i]]
             m == n - j
  <1>12. m \in Nat /\ \A i \in 0 .. m : M[i] = L[j + i] /\ j + i \in 1 .. n /\ j + i \in 0 .. n
    BY <1>2
  <1>13. M[0] = L[j] /\ M[m] = L[n]
    BY <1>2, <1>12
  <1>14. j \in 1 .. n /\ j - 1 \in 0 .. n
    BY <1>2
  <1> HIDE DEF M, m
  <1>15. M[0] \in W
    BY <1>10, <1>11, <1>13, <1>14
  <1>16. \A i \in 1 .. m : M[i - 1] \in W => M[i] \in W
    <2> TAKE i \in 1 .. m
    <2>1. /\ M[i - 1] = L[j + (i - 1)] /\ M[i] = L[j + i] /\ j + i \in 1 .. n
          /\ j + (i - 1) = (j + i) - 1 /\ (j + i) - 1 \in 0 .. n
      <3>1. i \in 0 .. m /\ i - 1 \in 0 .. m
        BY <1>12
      <3> QED
        BY <1>2, <1>12, <3>1
    <2>2. L[(j + i) - 1] \in V
      BY <1>11, <2>1
    <2>3. L[(j + i) - 1] \in W => L[j + i] \in W
      BY <1>10, <2>1, <2>2
    <2> QED
      BY <2>1, <2>3
  <1>17. M[m] \in W
    <2>1. \A i \in 0 .. m : M[i] \in W
      BY <1>12, <1>15, <1>16, StepsStay
    <2>2. m \in 0 .. m
      BY <1>12
    <2> QED
      BY <2>1, <2>2
  <1>18. ls \in W /\ Limited(ls, creditors)
    BY <1>5, <1>6, <1>7, <1>13, <1>17
  <1>19. ls[c].hasCfg /\ ls[c].threshold \in Thresholds
    BY <1>7, <1>18 DEF Limited
  <1> QED
    BY <1>19 DEF ls

-----------------------------------------------------------------------------
(* A fee leaves the credits of every account as they are, and the accounts *)
(* of the unset team.                                                      *)

Unset(b) == b[1] = NoTeam \/ b[2] = NoTeam

FeesFrom(d) ==
  {e \in Ledgers : /\ \A b \in Account : EntrySum(e[b].log, Credits) = EntrySum(d[b].log, Credits)
                   /\ \A b \in Account : Unset(b) => e[b].balance = d[b].balance}

LEMMA FeeKeepsCredits ==
  ASSUME NEW d \in Ledgers, NEW e \in FeesFrom(d), NEW p \in FeeEntry, NEW day \in Day
  PROVE  Post(e, p, day) \in FeesFrom(d)
  <1> DEFINE a == p.acct
             kind == p.kind
             amount == p.amount
             ref == p.ref
             minus == -amount
             f == Post(e, p, day)
  <1>1. /\ a \in Account /\ kind \in ChangeType /\ amount \in Int /\ minus \in Int /\ ref \in Ref
        /\ kind # "PAYMENT" /\ a[1] # NoTeam /\ a[2] # NoTeam
    BY EntryLemma DEF FeeEntry
  <1>2. f = postDoubleEntry(e, a, kind, amount, day, ref) /\ e \in Ledgers
    BY DEF Post, FeesFrom
  <1> HIDE DEF a, kind, amount, ref, f
  <1>3. /\ f \in Ledgers
        /\ f[a] = postEntryRow(e[a], kind, amount, day, ref)
        /\ f[Mirror(a)] = postEntryRow(e[Mirror(a)], kind, minus, day, ref)
        /\ \A b \in Account : b # a /\ b # Mirror(a) => f[b] = e[b]
    <2> DEFINE g == postDoubleEntry(e, a, kind, amount, day, ref)
    <2>1. e \in Ledgers /\ a \in Account /\ kind \in ChangeType /\ amount \in Int /\ ref \in Ref
      BY <1>1, <1>2
    <2>2. /\ g \in Ledgers
          /\ g[a] = postEntryRow(e[a], kind, amount, day, ref)
          /\ g[Mirror(a)] = postEntryRow(e[Mirror(a)], kind, minus, day, ref)
          /\ \A b \in Account : b # a /\ b # Mirror(a) => g[b] = e[b]
      BY <2>1, PostDoubleEntryLemma, SMTT(60) DEF minus
    <2> QED
      BY <1>2, <2>2
  <1> HIDE DEF minus
  <1>4. Mirror(a) \in Account /\ ~Unset(a) /\ ~Unset(Mirror(a))
    <2>1. Mirror(a)[1] = a[2] /\ Mirror(a)[2] = a[1]
      BY DEF Mirror
    <2> QED
      BY <1>1, <2>1, MirrorLemma DEF Unset
  <1>5. ASSUME NEW b \in Account, NEW delta \in Int, f[b] = postEntryRow(e[b], kind, delta, day, ref)
        PROVE  EntrySum(f[b].log, Credits) = EntrySum(e[b].log, Credits)
    <2> DEFINE r == e[b]
    <2>1. r \in AccountRow
      BY <1>2 DEF Ledgers
    <2>2. logEntry(r, kind, delta, day, ref) \notin Credits
      BY <1>1 DEF logEntry, Credits
    <2>3. f[b].log = postEntryRow(r, kind, delta, day, ref).log
      BY <1>5
    <2> HIDE DEF r
    <2>4. EntrySum(postEntryRow(r, kind, delta, day, ref).log, Credits) = EntrySum(r.log, Credits)
      BY <1>1, <1>5, <2>1, <2>2, PostEntrySum
    <2> QED
      BY <2>3, <2>4 DEF r
  <1>6. ASSUME NEW b \in Account
        PROVE  EntrySum(f[b].log, Credits) = EntrySum(d[b].log, Credits)
    <2>1. EntrySum(f[b].log, Credits) = EntrySum(e[b].log, Credits)
      <3>1. CASE b = a
        BY <1>1, <1>3, <1>5, <3>1
      <3>2. CASE b = Mirror(a)
        BY <1>1, <1>3, <1>4, <1>5, <3>2
      <3>3. CASE b # a /\ b # Mirror(a)
        BY <1>3, <3>3
      <3> QED
        BY <3>1, <3>2, <3>3
    <2> QED
      BY <2>1 DEF FeesFrom
  <1>7. ASSUME NEW b \in Account, Unset(b)
        PROVE  f[b].balance = d[b].balance
    <2>1. f[b] = e[b]
      BY <1>3, <1>4, <1>7
    <2> QED
      BY <1>7, <2>1 DEF FeesFrom
  <1>8. f \in FeesFrom(d)
    BY <1>3, <1>6, <1>7 DEF FeesFrom
  <1> QED
    BY <1>8 DEF f

(* What an event of order o moves on a debt without the credits.           *)
EventMoves(o, reverse, x, y) ==
  IF OrderRow[o].team = x /\ x # NoTeam /\ y # NoTeam
  THEN Turned(OrderDebt(o, y), reverse) ELSE 0

LEMMA EventNet ==
  ASSUME NEW d \in Ledgers, Mirrored(d), NEW o \in Order, NEW reverse \in BOOLEAN,
         NEW day \in Day, NEW x \in Team, NEW y \in Team, x # y
  PROVE  /\ Net(d, <<x, y, "PAYABLE">>) \in Int
         /\ Net(PostAll(d, postOrderBalances(o, reverse), day), <<x, y, "PAYABLE">>)
              = Net(d, <<x, y, "PAYABLE">>) - EventMoves(o, reverse, x, y)
  <1> DEFINE b == <<x, y, "PAYABLE">>
             ps == postOrderBalances(o, reverse)
             e == PostAll(d, ps, day)
             V == FeesFrom(d)
  <1>1. b \in Account /\ b[1] = x /\ b[2] = y
    BY DEF Account, BalanceType
  <1>2. ps \in Seq(FeeEntry) /\ ps \in Seq(Entry)
    <2>1. ps \in Seq(FeeEntry)
      BY OrderFees DEF Order
    <2>2. \A p \in FeeEntry : p \in Entry
      BY DEF FeeEntry
    <2> HIDE DEF ps, FeeEntry, Entry
    <2> QED
      BY <2>1, <2>2
  <1>3. e \in V
    <2>1. d \in V
      BY DEF FeesFrom
    <2>2. \A f \in V : f \in Ledgers
      BY DEF FeesFrom
    <2>3. \A f \in V, p \in FeeEntry : Post(f, p, day) \in V
      BY FeeKeepsCredits
    <2> HIDE DEF V, ps
    <2> QED
      BY <1>2, <2>1, <2>2, <2>3, PostAllStays
  <1>4. EntrySum(e[b].log, Credits) = EntrySum(d[b].log, Credits)
    BY <1>1, <1>3 DEF FeesFrom
  <1>5. EntrySum(d[b].log, Credits) \in Int /\ d[b].balance \in Int
    <2> DEFINE r == d[b]
    <2>1. r \in AccountRow
      BY <1>1 DEF Ledgers
    <2> HIDE DEF r
    <2>2. EntrySum(r.log, Credits) \in Int /\ r.balance \in Int
      BY <2>1, RowTypeLemma, EntrySumType
    <2> QED
      BY <2>2 DEF r
  <1>6. e[b].balance = d[b].balance + EventMoves(o, reverse, x, y)
        /\ EventMoves(o, reverse, x, y) \in Int
    <2>1. CASE x # NoTeam /\ y # NoTeam
      <3>1. Pair(x, y)
        BY <2>1 DEF Pair
      <3>2. /\ OrderDebt(o, y) \in Int
            /\ Move(ps, x, y, Ref, o \in Ref /\ OrderRow[o].team = x,
                    Turned(OrderDebt(o, y), reverse))
        <4>1. o \in DOMAIN OrderRow
          BY DEF Order
        <4> QED
          BY <3>1, <4>1, OrderLemma
      <3>3. o \in Ref
        BY RowAssumption DEF Order
      <3>4. SeqSum(Moves(b, Ref), ps) = EventMoves(o, reverse, x, y)
        BY <2>1, <3>2, <3>3 DEF Move, EventMoves
      <3>5. d \in MirroredLedgers
        <4>1. \A c \in Account : d[Mirror(c)].balance = -d[c].balance
          <5> TAKE c \in Account
          <5> DEFINE r == d[c]
                     q == d[Mirror(c)]
          <5>1. r \in AccountRow /\ q \in AccountRow
            BY MirrorLemma DEF Ledgers
          <5> HIDE DEF r, q
          <5>2. r.balance \in Int /\ q.balance \in Int
            BY <5>1, RowTypeLemma
          <5>3. r.balance + q.balance = 0
            BY DEF Mirrored, r, q
          <5>4. q.balance = -r.balance
            BY <5>2, <5>3
          <5> QED
            BY <5>4 DEF r, q
        <4> QED
          BY <4>1 DEF MirroredLedgers
      <3> HIDE DEF ps
      <3>6. \A c \in Account : PostAll(d, ps, day)[c].balance = d[c].balance + SeqSum(Moves(c, Ref), ps)
        BY <1>2, <3>5, PostAllLemma
      <3>7. EventMoves(o, reverse, x, y) \in Int
        BY <3>2 DEF EventMoves, Turned
      <3> QED
        BY <1>1, <3>4, <3>6, <3>7
    <2>2. CASE ~(x # NoTeam /\ y # NoTeam)
      <3>1. Unset(b)
        BY <1>1, <2>2 DEF Unset
      <3>2. e[b].balance = d[b].balance
        BY <1>1, <1>3, <3>1 DEF FeesFrom
      <3>3. EventMoves(o, reverse, x, y) = 0
        BY <2>2 DEF EventMoves
      <3> QED
        BY <1>5, <3>2, <3>3
    <2> QED
      BY <2>1, <2>2
  <1> HIDE DEF e, b
  <1> QED
    BY <1>4, <1>5, <1>6 DEF Net, e, b, ps

-----------------------------------------------------------------------------
(* What is still to be booked.                                             *)

LEMMA ExpectedLemma ==
  ASSUME NEW os, NEW x, NEW y
  PROVE  /\ Expected(os, x, y) \in Nat
         /\ IsFiniteSet(Waiting(os, x)) /\ IsFiniteSet(Flight(os)) /\ IsFiniteSet(Order)
         /\ \A o \in Order : Debts(y)[o] \in Nat /\ Debts(y)[o] = OrderDebt(o, y)
  <1>1. IsFiniteSet(Order) /\ Waiting(os, x) \subseteq Order /\ Flight(os) \subseteq Order
    BY FlowAssumption DEF Order, Waiting, Flight
  <1>2. IsFiniteSet(Waiting(os, x)) /\ IsFiniteSet(Flight(os))
    BY <1>1, FS_Subset
  <1>3. \A o \in Order : Debts(y)[o] \in Nat /\ Debts(y)[o] = OrderDebt(o, y)
    BY OrderDebtLemma DEF Debts
  <1>4. Expected(os, x, y) \in Nat
    <2> DEFINE W == Waiting(os, x)
               f == Debts(y)
    <2>1. IsFiniteSet(W) /\ \A o \in W : f[o] \in Nat
      BY <1>1, <1>2, <1>3
    <2> HIDE DEF W, f
    <2>2. SumFunctionOnSet(f, W) \in Nat
      BY <2>1, SumNat
    <2> QED
      BY <2>2 DEF W, f, Expected
  <1> QED
    BY <1>1, <1>2, <1>3, <1>4

(* A step that adds to a debt no more than what is expected of it less     *)
(* keeps it within the bound.                                              *)
LEMMA WithinKept ==
  ASSUME Threshold # {}, NEW d, NEW e, NEW os, NEW ot, NEW x, NEW y, Within(d, os, x, y),
         NEW was, was = Net(d, <<x, y, "PAYABLE">>), was \in Int,
         NEW is, is = Net(e, <<x, y, "PAYABLE">>), is \in Int,
         is + Expected(ot, x, y) <= was + Expected(os, x, y)
  PROVE  Within(e, ot, x, y)
  <1> DEFINE bound == Max(Thresholds) + MaxFlight * Max(Fees(x, y))
             some == Fees(x, y) # {}
             next == Expected(ot, x, y)
             then == Expected(os, x, y)
  <1>1. some => bound \in Nat
    <2>1. Max(Thresholds) \in Nat /\ MaxFlight \in Nat
      BY ThresholdsLemma, FlowAssumption
    <2>2. some => Max(Fees(x, y)) \in Nat
      BY FeesLemma
    <2> QED
      BY <2>1, <2>2
  <1>2. next \in Nat /\ then \in Nat
    BY ExpectedLemma
  <1>3. some => was + then < bound
    BY DEF Within
  <1> HIDE DEF bound, some, next, then
  <1>4. some => is + next < bound
    BY <1>1, <1>2, <1>3 DEF next, then
  <1> QED
    BY <1>4 DEF Within, some, next, bound

LEMMA ExpectedRemove ==
  ASSUME NEW os, NEW ot, NEW x, NEW y, NEW o \in Waiting(os, x),
         Waiting(ot, x) = Waiting(os, x) \ {o}
  PROVE  Expected(os, x, y) = OrderDebt(o, y) + Expected(ot, x, y)
  <1> DEFINE W == Waiting(os, x)
             f == Debts(y)
  <1>1. IsFiniteSet(W) /\ o \in W /\ (\A w \in W : f[w] \in Int) /\ f[o] = OrderDebt(o, y)
    <2>1. o \in W /\ \A w \in W : w \in Order
      BY DEF Waiting
    <2>2. IsFiniteSet(W) /\ \A q \in Order : f[q] \in Nat /\ f[q] = OrderDebt(q, y)
      BY ExpectedLemma
    <2> HIDE DEF W, f
    <2> QED
      BY <2>1, <2>2
  <1> HIDE DEF W, f
  <1>2. SumFunctionOnSet(f, W) = f[o] + SumFunctionOnSet(f, W \ {o})
    BY <1>1, SumRemove
  <1> QED
    BY <1>1, <1>2 DEF W, f, Expected

(* The parts of an order.                                                  *)
OrderOK(os, o) ==
  /\ os[o] = [gate |-> os[o].gate, cfgs |-> os[o].cfgs, applied |-> os[o].applied]
  /\ os[o].gate = "asked" => Asked(os[o].cfgs, OrderRow[o].team, Creditors(o))

(* The orders os but for one, which is now v.                              *)
Changes(ot, os, o, v) ==
  /\ ot = [q \in Order |-> ot[q]] /\ ot[o] = v
  /\ \A q \in Order : q # o => ot[q] = os[q]

LEMMA ChangeLemma ==
  ASSUME NEW os, os = [q \in Order |-> os[q]], NEW o \in Order, NEW v,
         NEW ot, ot = [os EXCEPT ![o] = v]
  PROVE  Changes(ot, os, o, v)
  BY DEF Changes

(* An event takes its order out of flight, or keeps it there.              *)
LEMMA EventOrders ==
  ASSUME GateInv, NEW e \in DOMAIN EventDay, ApplyEvent(e[1], e[2])
  PROVE  /\ OrdersOK(orders')
         /\ \A x : Waiting(orders', x)
                     = IF e[2] = "OrderCreated" THEN Waiting(orders, x) \ {e[1]}
                       ELSE Waiting(orders, x)
         /\ e[2] = "OrderCreated" => e[1] \in Waiting(orders, OrderRow[e[1]].team)
  <1> DEFINE o == e[1]
             type == e[2]
             v == [gate |-> "admitted", cfgs |-> orders[o].cfgs,
                   applied |-> orders[o].applied \cup {type}]
             ot == orders'
  <1>1. /\ o \in Order /\ type \in {"OrderCreated", "OrderCanceled"}
        /\ orders[o].gate = "admitted" /\ type \notin orders[o].applied
        /\ ot = [orders EXCEPT ![o].applied = @ \cup {type}]
    BY EventLemma DEF Order
  <1>2. /\ orders = [q \in Order |-> orders[q]] /\ \A q \in Order : OrderOK(orders, q)
        /\ Cardinality(Flight(orders)) <= MaxFlight
    BY DEF GateInv, OrdersOK, OrderOK
  <1>3. ot = [orders EXCEPT ![o] = v]
    <2>1. orders[o] = [gate |-> "admitted", cfgs |-> orders[o].cfgs, applied |-> orders[o].applied]
      BY <1>1, <1>2 DEF OrderOK
    <2>2. [orders[o] EXCEPT !.applied = @ \cup {type}] = v
      BY <2>1
    <2> QED
      BY <1>1, <2>2
  <1> HIDE DEF o, type, ot, v
  <1>4. Changes(ot, orders, o, v)
    BY <1>1, <1>2, <1>3, ChangeLemma
  <1>5. v = [gate |-> v.gate, cfgs |-> v.cfgs, applied |-> v.applied]
        /\ v.gate = "admitted" /\ v.applied = orders[o].applied \cup {type}
    BY DEF v
  <1>6. \A q \in Order : OrderOK(ot, q)
    <2> TAKE q \in Order
    <2>1. CASE q = o
      BY <1>4, <1>5, <2>1 DEF Changes, OrderOK
    <2>2. CASE q # o
      BY <1>2, <1>4, <2>2 DEF Changes, OrderOK
    <2> QED
      BY <2>1, <2>2
  <1>7. Flight(ot) \subseteq Flight(orders)
    BY <1>1, <1>4, <1>5 DEF Flight, Changes
  <1>8. Cardinality(Flight(ot)) <= MaxFlight
    <2> DEFINE F == Flight(orders)
               G == Flight(ot)
    <2>1. IsFiniteSet(F) /\ G \subseteq F /\ Cardinality(F) <= MaxFlight
      BY <1>2, <1>7, ExpectedLemma
    <2> HIDE DEF F, G
    <2>2. Cardinality(G) <= Cardinality(F) /\ Cardinality(F) \in Nat /\ Cardinality(G) \in Nat
      BY <2>1, FS_Subset, FS_CardinalityType
    <2> QED
      BY <2>1, <2>2, FlowAssumption DEF F, G
  <1>9. OrdersOK(ot)
    BY <1>4, <1>6, <1>8 DEF OrdersOK, OrderOK, Changes
  <1>10. ASSUME NEW x
         PROVE  Waiting(ot, x) = IF type = "OrderCreated" THEN Waiting(orders, x) \ {o}
                                 ELSE Waiting(orders, x)
    <2>1. ASSUME NEW q \in Order, q # o
          PROVE  q \in Waiting(ot, x) <=> q \in Waiting(orders, x)
      BY <1>4, <2>1 DEF Waiting, Changes
    <2>2. o \in Waiting(ot, x) <=> /\ OrderRow[o].team = x
                                   /\ "OrderCreated" \notin orders[o].applied \cup {type}
      BY <1>1, <1>4, <1>5 DEF Waiting, Changes
    <2>3. o \in Waiting(orders, x) <=> /\ OrderRow[o].team = x
                                       /\ "OrderCreated" \notin orders[o].applied
      BY <1>1 DEF Waiting
    <2>4. Waiting(ot, x) \subseteq Order /\ Waiting(orders, x) \subseteq Order
      BY DEF Waiting
    <2>5. CASE type = "OrderCreated"
      <3>1. o \notin Waiting(ot, x)
        BY <2>2, <2>5
      <3>2. \A q : q \in Waiting(ot, x) <=> q \in Waiting(orders, x) /\ q # o
        BY <2>1, <2>4, <3>1
      <3> QED
        BY <2>5, <3>2
    <2>6. CASE type # "OrderCreated"
      <3>1. o \in Waiting(ot, x) <=> o \in Waiting(orders, x)
        BY <1>1, <2>2, <2>3, <2>6
      <3>2. \A q : q \in Waiting(ot, x) <=> q \in Waiting(orders, x)
        BY <2>1, <2>4, <3>1
      <3> QED
        BY <2>6, <3>2
    <2> QED
      BY <2>5, <2>6
  <1>11. type = "OrderCreated" => o \in Waiting(orders, OrderRow[o].team)
    BY <1>1 DEF Waiting
  <1> QED
    BY <1>9, <1>10, <1>11 DEF o, type, ot

(* Booking an order turns what was expected into debt, a cancellation      *)
(* takes it back: no debt comes to more.                                   *)
LEMMA EventGate ==
  ASSUME GateInv, NEW e \in DOMAIN EventDay, ApplyEvent(e[1], e[2])
  PROVE  GateInv'
  <1> DEFINE o == e[1]
             reverse == e[2] = "OrderCanceled"
  <1>1. /\ o \in Order /\ e[2] \in {"OrderCreated", "OrderCanceled"} /\ reverse \in BOOLEAN
        /\ EventDay[e] \in Day
        /\ db' = PostAll(db, postOrderBalances(o, reverse), EventDay[e])
        /\ limits' = limits
    BY EventLemma DEF Order
  <1>2. ViewInv' /\ db \in Ledgers /\ Mirrored(db)
    BY EventViews DEF GateInv, ViewInv, LedgerInv, Books
  <1>3. /\ OrdersOK(orders')
        /\ \A x : Waiting(orders', x) = IF ~reverse THEN Waiting(orders, x) \ {o}
                                        ELSE Waiting(orders, x)
        /\ ~reverse => o \in Waiting(orders, OrderRow[o].team)
    <2>1. ~reverse <=> e[2] = "OrderCreated"
      BY <1>1
    <2> QED
      BY <2>1, EventOrders
  <1> HIDE DEF o, reverse
  <1>4. ASSUME NEW x \in Team, NEW y \in Team \ {x}
        PROVE  Within(db', orders', x, y)
    <2> DEFINE b == <<x, y, "PAYABLE">>
               m == EventMoves(o, reverse, x, y)
               debt == OrderDebt(o, y)
    <2>1. Net(db, b) \in Int /\ Net(db', b) = Net(db, b) - m
      BY <1>1, <1>2, EventNet
    <2>2. debt \in Nat
      BY <1>1, OrderDebtLemma
    <2>3. Expected(orders, x, y) \in Nat /\ Expected(orders', x, y) \in Nat
      BY ExpectedLemma
    <2>4. Net(db', b) + Expected(orders', x, y) <= Net(db, b) + Expected(orders, x, y)
          /\ m \in Int
      <3>1. CASE reverse
        <4>1. Expected(orders', x, y) = Expected(orders, x, y)
          BY <1>3, <3>1 DEF Expected
        <4>2. m \in Nat
          BY <2>2, <3>1 DEF EventMoves, Turned
        <4> HIDE DEF m, b
        <4> QED
          BY <2>1, <2>3, <4>1, <4>2
      <3>2. CASE ~reverse /\ OrderRow[o].team = x
        <4>1. Expected(orders, x, y) = debt + Expected(orders', x, y)
          <5> DEFINE ot == orders'
          <5>1. o \in Waiting(orders, x) /\ Waiting(ot, x) = Waiting(orders, x) \ {o}
            BY <1>3, <3>2
          <5> HIDE DEF ot
          <5>2. Expected(orders, x, y) = debt + Expected(ot, x, y)
            BY <5>1, ExpectedRemove
          <5> QED
            BY <5>2 DEF ot
        <4>2. m \in Int /\ -m <= debt
          BY <2>2, <3>2 DEF EventMoves, Turned
        <4> HIDE DEF m, b, debt
        <4> QED
          BY <2>1, <2>2, <2>3, <4>1, <4>2
      <3>3. CASE ~reverse /\ OrderRow[o].team # x
        <4>1. o \notin Waiting(orders, x)
          BY <3>3 DEF Waiting
        <4>2. Waiting(orders', x) = Waiting(orders, x)
          BY <1>3, <3>3, <4>1
        <4>3. Expected(orders', x, y) = Expected(orders, x, y)
          BY <4>2 DEF Expected
        <4>4. m = 0
          BY <3>3 DEF EventMoves
        <4> HIDE DEF m, b
        <4> QED
          BY <2>1, <2>3, <4>3, <4>4
      <3> QED
        BY <3>1, <3>2, <3>3
    <2> DEFINE d == db'
               os == orders'
               is == Net(d, b)
               was == Net(db, b)
    <2>5. /\ Within(db, orders, x, y) /\ Threshold # {}
          /\ was = Net(db, <<x, y, "PAYABLE">>) /\ is = Net(d, <<x, y, "PAYABLE">>)
      BY DEF GateInv
    <2>6. was \in Int /\ is \in Int
          /\ is + Expected(os, x, y) <= was + Expected(orders, x, y)
      BY <2>1, <2>4
    <2> HIDE DEF m, b, debt, d, os, is, was
    <2>7. Within(d, os, x, y)
      BY <2>5, <2>6, WithinKept
    <2> QED
      BY <2>7 DEF d, os
  <1>5. Threshold # {} /\ LimitsOK(limits')
    BY <1>1 DEF GateInv
  <1> QED
    BY <1>2, <1>3, <1>4, <1>5 DEF GateInv, LimitsOK, OrdersOK, Within

-----------------------------------------------------------------------------
(* Payments.                                                               *)

RowNet(r) == EntrySum(r.log, Credits) - r.balance

(* A credit moves a balance as much as it moves what was overpaid.         *)
LEMMA PayRowNet ==
  ASSUME NEW r \in AccountRow, NEW delta \in Int, NEW day \in Day, NEW ref \in Ref
  PROVE  /\ RowNet(r) \in Int
         /\ RowNet(postEntryRow(r, "PAYMENT", delta, day, ref))
              = RowNet(r) - (IF delta < 0 THEN 0 ELSE delta)
  <1> DEFINE kind == "PAYMENT"
             q == postEntryRow(r, kind, delta, day, ref)
             entry == logEntry(r, kind, delta, day, ref)
  <1>1. kind \in ChangeType /\ r.balance \in Int
    BY RowTypeLemma DEF ChangeType
  <1>2. entry \in Credits <=> delta < 0
    <2>1. entry.kind = "PAYMENT" /\ entry.change = delta
      BY DEF logEntry
    <2>2. entry \in LogEntry
      BY <1>1, LogEntryLemma
    <2> HIDE DEF entry
    <2> QED
      BY <2>1, <2>2 DEF Credits
  <1>3. q.balance = r.balance + delta
    <2> HIDE DEF kind
    <2> QED
      BY <1>1, PostEntryRowLemma
  <1>4. /\ EntrySum(r.log, Credits) \in Int
        /\ EntrySum(q.log, Credits) = IF entry \in Credits THEN EntrySum(r.log, Credits) + delta
                                      ELSE EntrySum(r.log, Credits)
    <2> HIDE DEF kind
    <2> QED
      BY <1>1, PostEntrySum
  <1> HIDE DEF q, entry
  <1>5. RowNet(r) \in Int /\ RowNet(q) = RowNet(r) - (IF delta < 0 THEN 0 ELSE delta)
    BY <1>1, <1>2, <1>3, <1>4 DEF RowNet
  <1> QED
    BY <1>5 DEF q, kind

NotAbove(e, d) ==
  /\ e \in Ledgers
  /\ \A b \in Account : Net(d, b) \in Int /\ Net(e, b) \in Int /\ Net(e, b) <= Net(d, b)

LEMMA NetLemma ==
  ASSUME NEW d \in Ledgers
  PROVE  NotAbove(d, d)
  <1>1. ASSUME NEW b \in Account PROVE Net(d, b) \in Int
    <2> DEFINE r == d[b]
    <2>1. r \in AccountRow
      BY DEF Ledgers
    <2> HIDE DEF r
    <2>2. EntrySum(r.log, Credits) \in Int /\ r.balance \in Int
      BY <2>1, RowTypeLemma, EntrySumType
    <2> QED
      BY <2>2 DEF Net, r
  <1> QED
    BY <1>1 DEF NotAbove

LEMMA NotAboveTwice ==
  ASSUME NEW d, NEW e, NEW f, NotAbove(e, d), NotAbove(f, e)
  PROVE  NotAbove(f, d)
  BY DEF NotAbove

(* A posting of a payment raises no debt but by a credit.                  *)
LEMMA PayNet ==
  ASSUME NEW d \in Ledgers, NEW a \in Account, NEW n \in Int, n > 0,
         NEW day \in Day, NEW ref \in Ref
  PROVE  NotAbove(postDoubleEntry(d, a, "PAYMENT", n, day, ref), d)
  <1> DEFINE kind == "PAYMENT"
             m == -n
             e == postDoubleEntry(d, a, kind, n, day, ref)
  <1>1. kind \in ChangeType /\ m \in Int /\ m < 0
    BY DEF ChangeType
  <1>2. /\ e \in Ledgers
        /\ e[a] = postEntryRow(d[a], kind, n, day, ref)
        /\ e[Mirror(a)] = postEntryRow(d[Mirror(a)], kind, m, day, ref)
        /\ \A b \in Account : b # a /\ b # Mirror(a) => e[b] = d[b]
    <2> HIDE DEF kind
    <2> QED
      BY <1>1, PostDoubleEntryLemma
  <1>3. Mirror(a) \in Account
    BY MirrorLemma
  <1> HIDE DEF e, m
  <1>4. ASSUME NEW b \in Account
        PROVE  Net(d, b) \in Int /\ Net(e, b) \in Int /\ Net(e, b) <= Net(d, b)
    <2> DEFINE r == d[b]
               q == e[b]
    <2>1. r \in AccountRow /\ Net(d, b) = RowNet(r) /\ Net(e, b) = RowNet(q)
      BY DEF Ledgers, RowNet, Net
    <2>2. q = r \/ q = postEntryRow(r, "PAYMENT", n, day, ref)
                \/ q = postEntryRow(r, "PAYMENT", m, day, ref)
      BY <1>2
    <2> HIDE DEF r, q
    <2>3. /\ RowNet(r) \in Int
          /\ RowNet(postEntryRow(r, "PAYMENT", n, day, ref)) = RowNet(r) - n
          /\ RowNet(postEntryRow(r, "PAYMENT", m, day, ref)) = RowNet(r)
      <3>1. /\ RowNet(r) \in Int
            /\ RowNet(postEntryRow(r, "PAYMENT", n, day, ref)) = RowNet(r) - (IF n < 0 THEN 0 ELSE n)
        BY <2>1, PayRowNet
      <3>2. RowNet(postEntryRow(r, "PAYMENT", m, day, ref)) = RowNet(r) - (IF m < 0 THEN 0 ELSE m)
        BY <1>1, <2>1, PayRowNet
      <3> QED
        BY <1>1, <3>1, <3>2
    <2> QED
      BY <2>1, <2>2, <2>3
  <1>5. NotAbove(e, d)
    BY <1>2, <1>4 DEF NotAbove
  <1> QED
    BY <1>5 DEF e, kind

(* So does a settlement, and what is in flight is no debt.                 *)
LEMMA SettleNet ==
  ASSUME NEW d \in Ledgers, NEW id \in Ref, NEW day \in Day, NEW p,
         p.team \in Team, p.forTeam \in Team, p.amount \in Int
  PROVE  NotAbove(settle(d, id, p, day), d)
  <1> DEFINE pay == <<p.team, p.forTeam, "PAYABLE">>
             rec == <<p.team, p.forTeam, "RECEIVABLE">>
             s == settledPart(d[pay].balance, p.amount)
             left == p.amount - s
             paid == IF s > 0
                     THEN postDoubleEntry(d, pay, "PAYMENT", s, day, id) ELSE d
  <1>1. pay \in Account /\ rec \in Account
    BY DEF Account, BalanceType
  <1>2. s \in Int /\ left \in Int
    <2>1. d[pay].balance \in Int
      BY <1>1, RowTypeLemma DEF Ledgers
    <2> HIDE DEF pay
    <2>2. settledPart(d[pay].balance, p.amount) \in Int
      BY <2>1, SettledPartLemma
    <2> QED
      BY <2>2
  <1>3. settle(d, id, p, day) = IF left > 0
                                THEN postDoubleEntry(paid, rec, "PAYMENT", left, day, id)
                                ELSE paid
    BY DEF settle
  <1> HIDE DEF pay, rec, s, left
  <1>4. NotAbove(paid, d)
    BY <1>1, <1>2, PayNet, NetLemma
  <1>5. paid \in Ledgers
    BY <1>4 DEF NotAbove
  <1> HIDE DEF paid
  <1>6. NotAbove(settle(d, id, p, day), paid)
    BY <1>1, <1>2, <1>3, <1>5, PayNet, NetLemma
  <1> QED
    BY <1>4, <1>6, NotAboveTwice

LEMMA PendingNet ==
  ASSUME NEW d \in Ledgers, NEW x \in Team, NEW y \in Team, NEW delta \in Int
  PROVE  NotAbove(adjustPendingPair(d, x, y, delta), d)
  <1> DEFINE e == adjustPendingPair(d, x, y, delta)
             a == <<x, y, "PAYABLE">>
  <1>1. /\ a \in Account /\ e \in Ledgers
        /\ e[a] = adjustPendingRow(d[a], delta)
        /\ e[Mirror(a)] = adjustPendingRow(d[Mirror(a)], delta)
        /\ \A b \in Account : b # a /\ b # Mirror(a) => e[b] = d[b]
    BY AdjustPendingPairLemma
  <1> HIDE DEF e, a
  <1>2. ASSUME NEW b \in Account
        PROVE  Net(d, b) \in Int /\ Net(e, b) \in Int /\ Net(e, b) <= Net(d, b)
    <2>1. e[b].log = d[b].log /\ e[b].balance = d[b].balance
      <3> DEFINE r == d[b]
                 q == e[b]
      <3>1. r \in AccountRow /\ (q = r \/ q = adjustPendingRow(r, delta))
        BY <1>1 DEF Ledgers
      <3> HIDE DEF r, q
      <3>2. q.log = r.log /\ q.balance = r.balance
        BY <3>1, AdjustPendingRowLemma
      <3> QED
        BY <3>2 DEF r, q
    <2>2. Net(e, b) = Net(d, b)
      BY <2>1 DEF Net
    <2>3. Net(d, b) \in Int
      BY NetLemma DEF NotAbove
    <2> QED
      BY <2>2, <2>3
  <1>3. NotAbove(e, d)
    BY <1>1, <1>2 DEF NotAbove
  <1> QED
    BY <1>3 DEF e

(* No step of the payments raises a debt without the credits.              *)
LEMMA PayLemma ==
  ASSUME GateInv, Pay
  PROVE  NotAbove(db', db)
  <1>1. /\ db \in Ledgers /\ PaymentsOK /\ PaymentId \subseteq Ref /\ PayAmount \subseteq Int
        /\ \A pair \in PayPair : pair[1] \in Team /\ pair[2] \in Team
    BY LedgerAssumption, FlowAssumption DEF GateInv, ViewInv, LedgerInv, Books
  <1>2. PICK pair \in PayPair, id \in PaymentId :
          \/ \E amount \in PayAmount : CreatePayment(id, pair[1], pair[2], amount)
          \/ \E day \in Day : AcceptPayment(id, pair[1], pair[2], day)
          \/ RejectPayment(id, pair[1], pair[2])
    BY DEF Pay
  <1> DEFINE x == pair[1]
             y == pair[2]
             p == payments[id]
  <1>3. x \in Team /\ y \in Team /\ id \in Ref
    BY <1>1
  <1>4. ASSUME loadPendingPayment(id, x, y)
        PROVE  /\ p.team = x /\ p.forTeam = y /\ p.amount \in Int /\ -p.amount \in Int
    <2>1. p.team = x /\ p.forTeam = y /\ p \in InvoicePayment
      BY <1>1, <1>4 DEF PaymentsOK, loadPendingPayment
    <2>2. p.amount \in Int
      BY <2>1 DEF InvoicePayment
    <2> QED
      BY <2>1, <2>2
  <1>5. ASSUME NEW amount \in PayAmount, CreatePayment(id, x, y, amount)
        PROVE  NotAbove(db', db)
    <2>1. db' = adjustPendingPair(db, x, y, amount) /\ amount \in Int
      BY <1>1, <1>5 DEF CreatePayment
    <2> HIDE DEF x, y
    <2>2. NotAbove(adjustPendingPair(db, x, y, amount), db)
      BY <1>1, <1>3, <2>1, PendingNet
    <2> QED
      BY <2>1, <2>2
  <1>6. ASSUME RejectPayment(id, x, y)
        PROVE  NotAbove(db', db)
    <2>1. db' = adjustPendingPair(db, x, y, -p.amount) /\ -p.amount \in Int
      BY <1>4, <1>6 DEF RejectPayment
    <2> DEFINE m == -p.amount
    <2> HIDE DEF x, y, m
    <2>2. NotAbove(adjustPendingPair(db, x, y, m), db)
      BY <1>1, <1>3, <2>1, PendingNet DEF m
    <2> QED
      BY <2>1, <2>2 DEF m
  <1>7. ASSUME NEW day \in Day, AcceptPayment(id, x, y, day)
        PROVE  NotAbove(db', db)
    <2> DEFINE e == settle(db, id, p, day)
               m == -p.amount
    <2>1. loadPendingPayment(id, x, y) /\ db' = adjustPendingPair(e, x, y, m)
      BY <1>7 DEF AcceptPayment
    <2>2. p.team = x /\ p.forTeam = y /\ p.amount \in Int /\ m \in Int
      BY <1>4, <2>1
    <2> HIDE DEF x, y, m, p
    <2>3. NotAbove(e, db)
      BY <1>1, <1>3, <2>2, SettleNet
    <2> HIDE DEF e
    <2>4. e \in Ledgers
      BY <2>3 DEF NotAbove
    <2>5. NotAbove(adjustPendingPair(e, x, y, m), e)
      BY <1>3, <2>2, <2>4, PendingNet
    <2>6. NotAbove(adjustPendingPair(e, x, y, m), db)
      BY <2>3, <2>5, NotAboveTwice
    <2> QED
      BY <2>1, <2>6
  <1> QED
    BY <1>2, <1>5, <1>6, <1>7

-----------------------------------------------------------------------------
(* The gate.                                                               *)

(* A rule of the limits in force may be read, whatever the debtor.         *)
LEMMA SelectedLemma ==
  ASSUME NEW rows, LimitsOK(rows), NEW debtor, NEW creditors, creditors \subseteq Team
  PROVE  Asked(Selected(rows, debtor, creditors), debtor, creditors)
  <1> DEFINE S == Selected(rows, debtor, creditors)
  <1>1. IsFiniteSet(S)
    <2>1. S \subseteq rows /\ IsFiniteSet(rows)
      BY DEF Selected, LimitsOK
    <2> HIDE DEF S
    <2> QED
      BY <2>1, FS_Subset
  <1>2. \A r \in S : /\ GateRule(r) /\ r.team \in creditors
                     /\ r.forTeam = debtor \/ r.isDefault = "true"
    BY DEF Selected, LimitsOK
  <1>3. ASSUME NEW c \in creditors PROVE DefaultFor(S, c)
    BY DEF Selected, LimitsOK, DefaultFor
  <1> QED
    BY <1>1, <1>2, <1>3 DEF Asked

(* A change of one order's gate leaves all orders as they should be.       *)
Gated(ot, o, gate, cfgs) ==
  ot = [orders EXCEPT ![o] = [@ EXCEPT !.gate = gate, !.cfgs = cfgs]]

LEMMA GateOrders ==
  ASSUME OrdersOK(orders), NEW o \in Order, NEW gate, NEW cfgs, NEW ot,
         Gated(ot, o, gate, cfgs),
         gate = "asked" => Asked(cfgs, OrderRow[o].team, Creditors(o)),
         Cardinality(Flight(ot)) <= MaxFlight
  PROVE  /\ OrdersOK(ot)
         /\ ot[o].gate = gate /\ ot[o].cfgs = cfgs /\ ot[o].applied = orders[o].applied
         /\ \A q \in Order : q # o => ot[q] = orders[q]
  <1> DEFINE v == [gate |-> gate, cfgs |-> cfgs, applied |-> orders[o].applied]
  <1>1. /\ orders = [q \in Order |-> orders[q]] /\ \A q \in Order : OrderOK(orders, q)
    BY DEF OrdersOK, OrderOK
  <1>2. ot = [orders EXCEPT ![o] = v]
    <2> DEFINE w == orders[o]
    <2>1. w = [gate |-> w.gate, cfgs |-> w.cfgs, applied |-> w.applied]
      BY <1>1 DEF OrderOK
    <2>2. [w EXCEPT !.gate = gate, !.cfgs = cfgs]
            = [gate |-> gate, cfgs |-> cfgs, applied |-> w.applied]
      <3> DEFINE u == [w EXCEPT !.gate = gate]
      <3>1. [w EXCEPT !.gate = gate, !.cfgs = cfgs] = [u EXCEPT !.cfgs = cfgs]
        OBVIOUS
      <3> HIDE DEF w
      <3>2. u = [gate |-> gate, cfgs |-> w.cfgs, applied |-> w.applied]
        BY <2>1
      <3> HIDE DEF u
      <3>3. [u EXCEPT !.cfgs = cfgs] = [gate |-> gate, cfgs |-> cfgs, applied |-> w.applied]
        BY <3>2
      <3> QED
        BY <3>1, <3>3 DEF w
    <2> QED
      BY <1>1, <2>2 DEF Gated
  <1>3. v.gate = gate /\ v.cfgs = cfgs /\ v.applied = orders[o].applied
        /\ v = [gate |-> v.gate, cfgs |-> v.cfgs, applied |-> v.applied]
    OBVIOUS
  <1> HIDE DEF v
  <1>4. Changes(ot, orders, o, v)
    BY <1>1, <1>2, ChangeLemma
  <1>5. \A q \in Order : OrderOK(ot, q)
    <2> TAKE q \in Order
    <2>1. CASE q = o
      BY <1>3, <1>4, <2>1 DEF Changes, OrderOK
    <2>2. CASE q # o
      BY <1>1, <1>4, <2>2 DEF Changes, OrderOK
    <2> QED
      BY <2>1, <2>2
  <1>6. OrdersOK(ot)
    BY <1>4, <1>5 DEF OrdersOK, OrderOK, Changes
  <1> QED
    BY <1>3, <1>4, <1>6 DEF Changes

(* Reading the limits puts an order in flight, and adds to no debt.        *)
LEMMA ReadLimitsGate ==
  ASSUME GateInv, NEW o \in Order, ReadLimits(o)
  PROVE  GateInv'
  <1> DEFINE cfgs == Selected(limits, OrderRow[o].team, Creditors(o))
             gate == "asked"
             ot == orders'
  <1>1. /\ orders[o].gate = "new" /\ Cardinality({x \in Order : InFlight(x)}) < MaxFlight
        /\ Gated(ot, o, gate, cfgs)
        /\ db' = db /\ payments' = payments /\ limits' = limits
    BY DEF ReadLimits, Gated
  <1>2. OrdersOK(orders) /\ orders = [q \in Order |-> orders[q]] /\ LimitsOK(limits)
        /\ Threshold # {} /\ ViewInv
    BY DEF GateInv, OrdersOK
  <1>3. Asked(cfgs, OrderRow[o].team, Creditors(o))
    <2>1. Creditors(o) \subseteq Team
      BY DEF Creditors
    <2> QED
      BY <1>2, <2>1, SelectedLemma
  <1>4. Cardinality(Flight(ot)) <= MaxFlight
    <2> DEFINE F == Flight(orders)
    <2>1. F = {x \in Order : InFlight(x)} /\ IsFiniteSet(F)
      BY ExpectedLemma DEF Flight, InFlight
    <2>2. Flight(ot) \subseteq F \cup {o}
      <3>1. \A q \in Order : q # o => ot[q] = orders[q]
        BY <1>1, <1>2 DEF Gated
      <3> HIDE DEF ot
      <3> QED
        BY <3>1 DEF Flight
    <2> DEFINE G == Flight(ot)
    <2>3. Cardinality(F) < MaxFlight
      BY <1>1, <2>1
    <2> HIDE DEF F, G
    <2>4. /\ IsFiniteSet(F \cup {o}) /\ Cardinality(F) \in Nat /\ MaxFlight \in Nat
          /\ Cardinality(F \cup {o}) = IF o \in F THEN Cardinality(F) ELSE Cardinality(F) + 1
      BY <2>1, FS_AddElement, FS_CardinalityType, FlowAssumption
    <2>5. Cardinality(G) <= Cardinality(F \cup {o}) /\ Cardinality(G) \in Nat
      <3>1. G \subseteq F \cup {o}
        BY <2>2 DEF G
      <3> QED
        BY <2>4, <3>1, FS_Subset, FS_CardinalityType
    <2> QED
      BY <2>3, <2>4, <2>5 DEF G
  <1> HIDE DEF cfgs, ot
  <1>5. /\ OrdersOK(ot) /\ ot[o].gate = "asked"
        /\ \A q \in Order : q # o => ot[q] = orders[q]
    BY <1>1, <1>2, <1>3, <1>4, GateOrders
  <1>6. ASSUME NEW x \in Team, NEW y \in Team \ {x}
        PROVE  Within(db, ot, x, y)
    <2>1. Waiting(ot, x) = Waiting(orders, x)
      BY <1>1, <1>5 DEF Waiting
    <2>2. Within(db, orders, x, y)
      BY DEF GateInv
    <2> QED
      BY <2>1, <2>2 DEF Within, Expected
  <1> QED
    BY <1>1, <1>2, <1>5, <1>6 DEF GateInv, ot, ViewInv, LedgerInv, PaymentsOK

-----------------------------------------------------------------------------
(* Credits only lower the debt without them.                               *)
LEMMA CreditsLemma ==
  ASSUME NEW r \in AccountRow
  PROVE  EntrySum(r.log, Credits) \in Int /\ EntrySum(r.log, Credits) <= 0
  <1> DEFINE f == [i \in DOMAIN r.log |-> r.log[i].change]
             g == [i \in DOMAIN r.log |-> -r.log[i].change]
             I == {i \in DOMAIN r.log : r.log[i] \in Credits}
  <1>1. IsFiniteSet(I)
    <2>1. Len(r.log) \in Nat /\ DOMAIN r.log = 1 .. Len(r.log)
      BY RowTypeLemma
    <2>2. IsFiniteSet(1 .. Len(r.log))
      BY <2>1, FS_Interval
    <2>3. I \subseteq 1 .. Len(r.log)
      BY <2>1
    <2> HIDE DEF I
    <2> QED
      BY <2>2, <2>3, FS_Subset
  <1>2. \A i \in I : f[i] \in Int /\ g[i] = -f[i] /\ g[i] \in Nat
    <2> TAKE i \in I
    <2>1. r.log[i].change \in Int /\ r.log[i].change < 0
      BY RowTypeLemma DEF Credits
    <2>2. f[i] = r.log[i].change /\ g[i] = -r.log[i].change
      OBVIOUS
    <2> QED
      BY <2>1, <2>2
  <1> HIDE DEF f, g, I
  <1>3. SumFunctionOnSet(g, I) \in Nat
    BY <1>1, <1>2, SumNat
  <1>4. SumFunctionOnSet(g, I) = -SumFunctionOnSet(f, I)
    BY <1>1, <1>2, SumNegate
  <1>5. SumFunctionOnSet(f, I) \in Int
    BY <1>1, <1>2, SumType
  <1> QED
    BY <1>3, <1>4, <1>5 DEF EntrySum, f, I

(* The orders in flight add one highest fee each.                          *)
LEMMA ExpectedBounded ==
  ASSUME NEW os, OrdersOK(os), NEW x, NEW y, Fees(x, y) # {}
  PROVE  /\ Expected(os, x, y) <= MaxFlight * Max(Fees(x, y))
         /\ MaxFlight * Max(Fees(x, y)) \in Nat
  <1> DEFINE W == Waiting(os, x)
             F == Flight(os)
             f == Debts(y)
             m == Max(Fees(x, y))
  <1>1. m \in Nat /\ \A o \in W : f[o] \in Nat /\ f[o] <= m
    <2>1. \A o \in W : o \in Order /\ OrderRow[o].team = x
      BY DEF Waiting
    <2>2. m \in Nat /\ \A o \in Order : OrderRow[o].team = x => OrderDebt(o, y) <= m
      BY FeesLemma
    <2>3. \A o \in Order : f[o] \in Nat /\ f[o] = OrderDebt(o, y)
      BY ExpectedLemma
    <2> HIDE DEF W, f, m
    <2> QED
      BY <2>1, <2>2, <2>3
  <1>2. IsFiniteSet(W) /\ IsFiniteSet(F) /\ W \subseteq F /\ Cardinality(F) <= MaxFlight
    <2>1. IsFiniteSet(W) /\ IsFiniteSet(F)
      BY ExpectedLemma
    <2>2. W \subseteq F
      BY DEF Waiting, Flight
    <2>3. Cardinality(F) <= MaxFlight
      BY DEF OrdersOK
    <2> QED
      BY <2>1, <2>2, <2>3
  <1> HIDE DEF W, F, f, m
  <1> DEFINE c == Cardinality(W)
             k == MaxFlight
             s == SumFunctionOnSet(f, W)
  <1>3. s \in Nat /\ c * m \in Nat /\ s <= c * m
    BY <1>1, <1>2, SumBounded
  <1>4. c \in Nat /\ k \in Nat /\ c <= k
    <2>1. c <= Cardinality(F) /\ c \in Nat /\ Cardinality(F) \in Nat
      BY <1>2, FS_Subset, FS_CardinalityType
    <2> QED
      BY <1>2, <2>1, FlowAssumption
  <1>5. Expected(os, x, y) = s
    BY DEF Expected, s, f, W
  <1> HIDE DEF c, k, s
  <1>6. PICK j \in Nat : k = c + j
    <2>1. k - c \in Nat /\ k = c + (k - c)
      BY <1>4
    <2> QED
      BY <2>1
  <1>7. k * m = c * m + j * m /\ j * m \in Nat
    BY <1>1, <1>4, <1>6
  <1>8. s <= k * m /\ k * m \in Nat
    BY <1>3, <1>7
  <1> QED
    BY <1>5, <1>8 DEF k, m

(* A creditor allows more only below a threshold of its.                   *)
LEMMA AllowLemma ==
  ASSUME Threshold # {}, NEW debtor, NEW creditors, NEW S, Asked(S, debtor, creditors),
         NEW cfgs \in SetToSeqs(S), NEW c \in creditors, NEW debts, debts[c] \in Int,
         EvaluateOweLimits(cfgs, debtor, creditors, debts)[c].allow
  PROVE  debts[c] < Max(Thresholds)
  <1> DEFINE ls == GateLimits(cfgs, debtor, creditors)
             t == ls[c].threshold
  <1>1. ls[c].hasCfg /\ t \in Thresholds
    BY GateLimited
  <1>2. ~ls[c].hasCfg \/ t = 0 \/ debts[c] < t
    BY DEF EvaluateOweLimits, GateLimits, GateUnset
  <1>3. t \in Nat \ {0} /\ t <= Max(Thresholds) /\ Max(Thresholds) \in Nat
    BY <1>1, ThresholdsLemma
  <1> HIDE DEF ls, t
  <1>4. debts[c] < t
    BY <1>1, <1>2, <1>3
  <1> QED
    BY <1>3, <1>4

-----------------------------------------------------------------------------
(* Reading the debts admits an order when they are below the limits: what  *)
(* is then expected comes on top of a debt below the highest threshold.    *)
LEMMA ReadDebtsGate ==
  ASSUME GateInv, NEW o \in Order, ReadDebts(o)
  PROVE  GateInv'
  <1> DEFINE team == OrderRow[o].team
             creditors == Creditors(o)
             debts == debtOf(team, creditors)
             S == orders[o].cfgs
             ot == orders'
             none == {}
  <1>1. PICK cfgs \in SetToSeqs(S) :
          ot = [orders EXCEPT ![o] = [@ EXCEPT
                 !.gate = IF \A c \in creditors : EvaluateOweLimits(cfgs, team, creditors, debts)[c].allow
                          THEN "admitted" ELSE "refused",
                 !.cfgs = none]]
    BY DEF ReadDebts
  <1> DEFINE allowed == \A c \in creditors : EvaluateOweLimits(cfgs, team, creditors, debts)[c].allow
             gate == IF allowed THEN "admitted" ELSE "refused"
  <1>2. /\ orders[o].gate = "asked"
        /\ Gated(ot, o, gate, none)
        /\ db' = db /\ payments' = payments /\ limits' = limits
    BY <1>1 DEF ReadDebts, Gated
  <1>3. OrdersOK(orders) /\ orders = [q \in Order |-> orders[q]] /\ LimitsOK(limits)
        /\ Threshold # {} /\ ViewInv
    BY DEF GateInv, OrdersOK
  <1>4. Asked(S, team, creditors) /\ gate # "asked"
    BY <1>2, <1>3 DEF OrdersOK
  <1>5. Cardinality(Flight(ot)) <= MaxFlight
    <2> DEFINE F == Flight(orders)
               G == Flight(ot)
    <2>1. G \subseteq F
      <3>1. \A q \in Order : q # o => ot[q] = orders[q]
        BY <1>2, <1>3 DEF Gated
      <3>2. o \in F
        BY <1>2 DEF Flight
      <3> HIDE DEF ot
      <3> QED
        BY <3>1, <3>2 DEF Flight
    <2>2. IsFiniteSet(F)
      BY ExpectedLemma
    <2>3. Cardinality(F) <= MaxFlight
      BY <1>3 DEF OrdersOK
    <2> HIDE DEF F, G
    <2>4. Cardinality(G) <= Cardinality(F) /\ Cardinality(G) \in Nat /\ Cardinality(F) \in Nat
      BY <2>1, <2>2, FS_Subset, FS_CardinalityType
    <2> QED
      BY <2>3, <2>4, FlowAssumption DEF G
  <1> HIDE DEF ot, gate, none
  <1>6. /\ OrdersOK(ot) /\ ot[o].gate = gate /\ ot[o].applied = orders[o].applied
        /\ \A q \in Order : q # o => ot[q] = orders[q]
    <2>1. /\ OrdersOK(orders) /\ Cardinality(Flight(ot)) <= MaxFlight
          /\ Gated(ot, o, gate, none)
          /\ gate = "asked" => Asked(none, OrderRow[o].team, Creditors(o))
      BY <1>2, <1>3, <1>4, <1>5
    <2> QED
      BY <2>1, GateOrders
  <1>7. ASSUME NEW x \in Team, NEW y \in Team \ {x}
        PROVE  Within(db, ot, x, y)
    <2> DEFINE b == <<x, y, "PAYABLE">>
    <2>1. Within(db, orders, x, y)
      BY DEF GateInv
    <2>2. o \notin Waiting(orders, x)
      BY <1>2 DEF Waiting
    <2>3. ASSUME Expected(ot, x, y) = Expected(orders, x, y)
          PROVE  Within(db, ot, x, y)
      BY <2>1, <2>3 DEF Within
    <2>4. CASE o \notin Waiting(ot, x)
      <3>1. Waiting(ot, x) = Waiting(orders, x)
        BY <1>6, <2>2, <2>4 DEF Waiting
      <3> QED
        BY <2>3, <3>1 DEF Expected
    <2>5. CASE o \in Waiting(ot, x)
      <3>1. Waiting(orders, x) = Waiting(ot, x) \ {o}
        BY <1>6, <2>2, <2>5 DEF Waiting
      <3>2. Expected(ot, x, y) = OrderDebt(o, y) + Expected(orders, x, y)
        <4> HIDE DEF b
        <4> QED
          BY <2>5, <3>1, ExpectedRemove
      <3>3. OrderDebt(o, y) \in Nat /\ Expected(orders, x, y) \in Nat
        BY OrderDebtLemma, ExpectedLemma
      <3>4. CASE OrderDebt(o, y) = 0
        <4>1. Expected(ot, x, y) = Expected(orders, x, y)
          BY <3>2, <3>3, <3>4
        <4> QED
          BY <2>3, <4>1
      <3>5. CASE OrderDebt(o, y) # 0
        <4>1. team = x /\ gate = "admitted"
          BY <1>6, <2>5 DEF Waiting
        <4>2. y \in creditors
          BY <3>3, <3>5, <4>1 DEF Creditors
        <4>3. EvaluateOweLimits(cfgs, team, creditors, debts)[y].allow
          BY <4>1, <4>2 DEF gate
        <4>4. debts[y] = -db[b].balance
          BY <4>1, <4>2 DEF debtOf
        <4>5. /\ db[b].balance \in Int /\ EntrySum(db[b].log, Credits) \in Int
              /\ EntrySum(db[b].log, Credits) <= 0
          <5> DEFINE r == db[b]
          <5>1. r \in AccountRow
            <6>1. db \in Ledgers /\ b \in Account
              BY <1>3 DEF ViewInv, LedgerInv, Books, Account, BalanceType
            <6> QED
              BY <6>1 DEF Ledgers
          <5> HIDE DEF r
          <5>2. r.balance \in Int /\ EntrySum(r.log, Credits) \in Int /\ EntrySum(r.log, Credits) <= 0
            BY <5>1, RowTypeLemma, CreditsLemma
          <5> QED
            BY <5>2 DEF r
        <4>6. debts[y] \in Int
          BY <4>4, <4>5
        <4>7. debts[y] < Max(Thresholds)
          <5> HIDE DEF debts, creditors, team, S
          <5> QED
            BY <1>1, <1>3, <1>4, <4>2, <4>3, <4>6, AllowLemma
        <4> DEFINE p == db[b].balance
                   e == EntrySum(db[b].log, Credits)
                   t == Max(Thresholds)
                   m == MaxFlight * Max(Fees(x, y))
                   some == Fees(x, y) # {}
        <4>8. t \in Nat /\ -p < t /\ e <= 0 /\ e \in Int /\ p \in Int
          BY <1>3, <4>4, <4>5, <4>7, ThresholdsLemma
        <4>9. some => m \in Nat /\ Expected(ot, x, y) <= m
          BY <1>6, ExpectedBounded
        <4>10. Expected(ot, x, y) \in Nat
          BY ExpectedLemma
        <4> HIDE DEF p, e, t, m, some
        <4>11. some => (e - p) + Expected(ot, x, y) < t + m
          BY <4>8, <4>9, <4>10
        <4> QED
          BY <4>11 DEF Within, Net, p, e, t, m, some
      <3> QED
        BY <3>4, <3>5
    <2> QED
      BY <2>4, <2>5
  <1>8. ViewInv'
    BY <1>2, <1>3 DEF ViewInv, LedgerInv, PaymentsOK
  <1>9. \A x \in Team : \A y \in Team \ {x} : Within(db', ot, x, y)
    BY <1>2, <1>7
  <1>10. LimitsOK(limits')
    BY <1>2, <1>3
  <1> QED
    BY <1>3, <1>6, <1>8, <1>9, <1>10, ZenonT(60) DEF GateInv, ot

-----------------------------------------------------------------------------
(* A change of a limit keeps a default rule of every creditor.             *)
WithThreshold(r, t) == Row(r.id, r.team, r.forTeam, r.isDefault, t)

LEMMA SetLimitRows ==
  ASSUME LimitsOK(limits), NEW s \in LimitSet, SetLimit(s.team, s.forTeam, s.threshold)
  PROVE  LimitsOK(limits')
  <1> DEFINE team == s.team
             forTeam == s.forTeam
             t == s.threshold
             default == forTeam = NoTeam
             old == {r \in limits : r.team = team /\ (r.isDefault = "true" <=> default)
                                     /\ (default \/ r.forTeam = forTeam)}
             one == Row(<<team, forTeam>>, team, forTeam, "false", t)
             f == [r \in old |-> WithThreshold(r, t)]
             new == IF old # {} THEN {f[r] : r \in old} ELSE {one}
             rows == limits'
  <1>1. t \in Thresholds
    BY DEF Thresholds
  <1>2. \A r \in old : [r EXCEPT !.threshold = t] = f[r] /\ f[r] = WithThreshold(r, t)
    <2> TAKE r \in old
    <2>1. r = Row(r.id, r.team, r.forTeam, r.isDefault, r.threshold)
      BY DEF LimitsOK, GateRule
    <2>2. [r EXCEPT !.threshold = t] = WithThreshold(r, t)
      <3> HIDE DEF t
      <3> QED
        BY <2>1 DEF Row, WithThreshold
    <2> QED
      BY <2>2
  <1>3. rows = (limits \ old) \cup new
    <2>1. rows = (limits \ old)
                   \cup (IF old # {} THEN {[r EXCEPT !.threshold = t] : r \in old} ELSE {one})
      BY DEF SetLimit
    <2>2. {[r EXCEPT !.threshold = t] : r \in old} = {f[r] : r \in old}
      <3> HIDE DEF old, f
      <3> QED
        BY <1>2
    <2> QED
      BY <2>1, <2>2
  <1>4. old \subseteq limits /\ IsFiniteSet(limits)
    BY DEF LimitsOK
  <1>5. ASSUME NEW r \in limits
        PROVE  /\ GateRule(WithThreshold(r, t))
               /\ WithThreshold(r, t).team = r.team /\ WithThreshold(r, t).isDefault = r.isDefault
    BY <1>1 DEF GateRule, WithThreshold, Row
  <1>6. GateRule(one)
    BY <1>1 DEF GateRule, Row
  <1> HIDE DEF t, team, forTeam, default, old, f, one, new, rows
  <1>7. IsFiniteSet(rows)
    <2>1. IsFiniteSet(limits \ old) /\ IsFiniteSet(old)
      BY <1>4, FS_Subset
    <2>2. IsFiniteSet(new)
      <3>1. CASE old # {}
        <4>1. IsFiniteSet({f[r] : r \in old})
          BY <2>1, ImageFinite
        <4> QED
          BY <3>1, <4>1 DEF new
      <3>2. CASE old = {}
        <4>1. IsFiniteSet({one})
          BY FS_Singleton
        <4> QED
          BY <3>2, <4>1 DEF new
      <3> QED
        BY <3>1, <3>2
    <2>3. IsFiniteSet((limits \ old) \cup new)
      BY <2>1, <2>2, FS_Union
    <2> QED
      BY <1>3, <2>3
  <1>8. \A q \in new : q = one \/ \E r \in old : q = WithThreshold(r, t)
    BY <1>2 DEF new
  <1>9. \A r \in old : WithThreshold(r, t) \in new
    BY <1>2 DEF new
  <1>10. ASSUME NEW q \in rows PROVE GateRule(q)
    <2>1. CASE q \in limits
      BY <2>1 DEF LimitsOK
    <2>2. CASE q \in new
      BY <1>4, <1>5, <1>6, <1>8, <2>2
    <2> QED
      BY <1>3, <2>1, <2>2
  <1>11. ASSUME NEW c \in Team PROVE DefaultFor(rows, c)
    <2>1. PICK r \in limits : r.team = c /\ r.isDefault = "true"
      BY DEF LimitsOK, DefaultFor
    <2>2. CASE r \in old
      BY <1>3, <1>5, <1>9, <2>1, <2>2 DEF DefaultFor
    <2>3. CASE r \notin old
      BY <1>3, <2>1, <2>3 DEF DefaultFor
    <2> QED
      BY <2>2, <2>3
  <1> QED
    BY <1>7, <1>10, <1>11 DEF LimitsOK, rows

(* A step that leaves the orders and the limits as they should be, and     *)
(* raises no debt.                                                         *)
LEMMA CalmGate ==
  ASSUME GateInv, ViewInv', orders' = orders, LimitsOK(limits'), NotAbove(db', db)
  PROVE  GateInv'
  <1>1. Threshold # {} /\ OrdersOK(orders)
    BY DEF GateInv
  <1>2. ASSUME NEW x \in Team, NEW y \in Team \ {x}
        PROVE  Within(db', orders, x, y)
    <2> DEFINE b == <<x, y, "PAYABLE">>
               e == db'
               is == Net(e, b)
               was == Net(db, b)
    <2>1. b \in Account
      BY DEF Account, BalanceType
    <2>2. is \in Int /\ was \in Int /\ is <= was
      BY <2>1 DEF NotAbove
    <2>3. Within(db, orders, x, y)
      BY DEF GateInv
    <2>4. Expected(orders, x, y) \in Nat
      BY ExpectedLemma
    <2>5. was = Net(db, <<x, y, "PAYABLE">>) /\ is = Net(e, <<x, y, "PAYABLE">>)
      OBVIOUS
    <2> HIDE DEF b, e, is, was
    <2>6. is + Expected(orders, x, y) <= was + Expected(orders, x, y)
      BY <2>2, <2>4
    <2>7. Within(e, orders, x, y)
      BY <1>1, <2>2, <2>3, <2>5, <2>6, WithinKept
    <2> QED
      BY <2>7 DEF e
  <1> QED
    BY <1>1, <1>2 DEF GateInv, ViewInv, LedgerInv, PaymentsOK, LimitsOK, OrdersOK, Within

(* Every step of the flow keeps the gate's invariant.                      *)
LEMMA GateStep ==
  ASSUME GateInv, [FlowNext]_flowVars
  PROVE  GateInv'
  <1>1. ViewInv' /\ LimitsOK(limits) /\ NotAbove(db, db)
    <2>1. ViewInv /\ LimitsOK(limits)
      BY DEF GateInv
    <2>2. db \in Ledgers
      BY <2>1 DEF ViewInv, LedgerInv, Books
    <2> QED
      BY <2>1, <2>2, FlowViewInvStep, NetLemma
  <1>2. ASSUME NEW o \in Order, ReadLimits(o) PROVE GateInv'
    BY <1>2, ReadLimitsGate
  <1>3. ASSUME NEW o \in Order, ReadDebts(o) PROVE GateInv'
    BY <1>3, ReadDebtsGate
  <1>4. ASSUME NEW e \in DOMAIN EventDay, ApplyEvent(e[1], e[2]) PROVE GateInv'
    BY <1>4, EventGate
  <1>5. ASSUME NEW s \in LimitSet, SetLimit(s.team, s.forTeam, s.threshold) PROVE GateInv'
    <2>1. orders' = orders /\ db' = db
      BY <1>5 DEF SetLimit
    <2>2. LimitsOK(limits')
      BY <1>1, <1>5, SetLimitRows
    <2>3. NotAbove(db', db)
      BY <1>1, <2>1
    <2> QED
      BY <1>1, <2>1, <2>2, <2>3, CalmGate
  <1>6. CASE Pay
    <2>1. orders' = orders /\ limits' = limits
      BY <1>6 DEF Pay
    <2>2. NotAbove(db', db)
      BY <1>6, PayLemma
    <2>3. LimitsOK(limits')
      BY <1>1, <2>1
    <2> QED
      BY <1>1, <2>1, <2>2, <2>3, CalmGate
  <1>7. CASE UNCHANGED <<db, limits, orders>>
    <2>1. orders' = orders /\ LimitsOK(limits') /\ NotAbove(db', db)
      BY <1>1, <1>7
    <2> QED
      BY <1>1, <2>1, CalmGate
  <1>8. CASE Read
    BY <1>7, <1>8 DEF Read, ReadOpening, ReadChanges, ReadPayments, ReadPage, ReadTotals,
                      ReadBreakdown
  <1>9. CASE UNCHANGED flowVars
    BY <1>7, <1>9 DEF flowVars
  <1> QED
    BY <1>2, <1>3, <1>4, <1>5, <1>6, <1>8, <1>9 DEF FlowNext

-----------------------------------------------------------------------------
(* At first there is a default rule of every creditor, and no debt.        *)
LEMMA GateInit == FlowInit => GateInv
  <1> SUFFICES ASSUME FlowInit PROVE GateInv
    OBVIOUS
  <1>1. PICK t \in Threshold : limits = {Row(<<c>>, c, NoTeam, "true", t) : c \in Team}
    BY DEF FlowInit
  <1>2. ViewInv /\ db = EmptyLedger /\ orders = [o \in Order |-> NewOrder] /\ Threshold # {}
    BY InitViewInv DEF FlowInit, Init
  <1>3. LimitsOK(limits)
    <2> DEFINE f == [c \in Team |-> Row(<<c>>, c, NoTeam, "true", t)]
    <2>1. limits = {f[c] : c \in Team}
      BY <1>1
    <2>2. \A c \in Team : f[c] = Row(<<c>>, c, NoTeam, "true", t)
      OBVIOUS
    <2> HIDE DEF f
    <2>3. IsFiniteSet(limits)
      <3>1. IsFiniteSet(Team)
        BY ViewsAssumption
      <3> DEFINE F == {f[c] : c \in Team}
      <3>2. IsFiniteSet(F)
        BY <3>1, ImageFinite
      <3> QED
        BY <2>1, <3>2
    <2>4. \A c \in Team : GateRule(f[c]) /\ f[c].team = c /\ f[c].isDefault = "true"
      <3> TAKE c \in Team
      <3> DEFINE r == Row(<<c>>, c, NoTeam, "true", t)
      <3>1. t \in Thresholds
        BY DEF Thresholds
      <3>2. /\ r.id = <<c>> /\ r.team = c /\ r.forTeam = NoTeam /\ r.isDefault = "true"
            /\ r.threshold = t /\ r = Row(r.id, r.team, r.forTeam, r.isDefault, r.threshold)
        BY DEF Row
      <3> HIDE DEF r
      <3>3. f[c] = r
        BY <2>2 DEF r
      <3> QED
        BY <3>1, <3>2, <3>3 DEF GateRule
    <2>5. \A r \in limits : GateRule(r)
      BY <2>1, <2>4
    <2>6. \A c \in Team : DefaultFor(limits, c)
      BY <2>1, <2>4 DEF DefaultFor
    <2> QED
      BY <2>3, <2>5, <2>6 DEF LimitsOK
  <1>4. OrdersOK(orders)
    <2>1. \A o \in Order : orders[o] = NewOrder
      BY <1>2
    <2>2. Flight(orders) = {}
      BY <2>1 DEF Flight, NewOrder
    <2>3. Cardinality(Flight(orders)) <= MaxFlight
      BY <2>2, FS_EmptySet, FlowAssumption
    <2> QED
      BY <1>2, <2>1, <2>3 DEF OrdersOK, NewOrder
  <1>5. ASSUME NEW x \in Team, NEW y \in Team \ {x}
        PROVE  Within(db, orders, x, y)
    <2> DEFINE b == <<x, y, "PAYABLE">>
    <2>1. db[b] = NoAccount
      BY <1>2 DEF EmptyLedger, Account, BalanceType
    <2>2. Net(db, b) = 0
      <3>1. NoAccount.log \in Seq(LogEntry) /\ DOMAIN NoAccount.log = {} /\ NoAccount.balance = 0
        BY DEF NoAccount
      <3>2. EntrySum(NoAccount.log, Credits) = 0
        BY <3>1, EntrySumType
      <3> QED
        BY <2>1, <3>1, <3>2 DEF Net
    <2>3. Expected(orders, x, y) = 0
      <3>1. Waiting(orders, x) = {}
        BY <1>2 DEF Waiting, NewOrder
      <3> QED
        BY <3>1, SumEmpty DEF Expected
    <2> DEFINE bound == Max(Thresholds) + MaxFlight * Max(Fees(x, y))
               some == Fees(x, y) # {}
    <2>4. some => bound \in Nat \ {0}
      <3>1. some => MaxFlight * Max(Fees(x, y)) \in Nat
        <4>1. some => Max(Fees(x, y)) \in Nat
          BY FeesLemma
        <4> QED
          BY <4>1, FlowAssumption
      <3>2. Max(Thresholds) \in Nat \ {0}
        BY <1>2, ThresholdsLemma
      <3> QED
        BY <3>1, <3>2
    <2> HIDE DEF bound, some, b
    <2>5. some => Net(db, b) + Expected(orders, x, y) < bound
      BY <2>2, <2>3, <2>4
    <2> QED
      BY <2>5 DEF Within, some, bound, b
  <1> QED
    BY <1>2, <1>3, <1>4, <1>5 DEF GateInv

(* What the bound counts as expected and as overpaid.                      *)
LEMMA UnbookedLemma ==
  ASSUME NEW x, NEW y
  PROVE  Unbooked(x, y) = Expected(orders, x, y)
  <1> DEFINE W == Waiting(orders, x)
             f == Debts(y)
             g == [o \in W |-> OrderDebt(o, y)]
  <1>1. Unbooked(x, y) = SumFunction(g)
    BY DEF Unbooked, Waiting
  <1>2. IsFiniteSet(W)
    BY ExpectedLemma
  <1>3. \A o \in W : g[o] = f[o]
    BY DEF Waiting, Debts
  <1>4. DOMAIN g = W
    OBVIOUS
  <1> HIDE DEF W, f, g
  <1>5. SumFunction(g) = SumFunctionOnSet(g, W)
    BY <1>4, SumFunctionLemma
  <1>6. SumFunctionOnSet(g, W) = SumFunctionOnSet(f, W)
    BY <1>2, <1>3, SumSame
  <1> QED
    BY <1>1, <1>5, <1>6 DEF Expected, W, f

LEMMA OverpaidLemma ==
  ASSUME db \in Ledgers, NEW x \in Team, NEW y \in Team
  PROVE  /\ Overpaid(x, y) = -EntrySum(db[<<x, y, "PAYABLE">>].log, Credits)
         /\ EntrySum(db[<<x, y, "PAYABLE">>].log, Credits) \in Int
         /\ db[<<x, y, "PAYABLE">>].balance \in Int
  <1> DEFINE r == db[<<x, y, "PAYABLE">>]
             I == {i \in DOMAIN r.log : r.log[i].kind = "PAYMENT" /\ r.log[i].change < 0}
             f == [i \in DOMAIN r.log |-> r.log[i].change]
             g == [i \in I |-> -r.log[i].change]
  <1>1. r \in AccountRow
    <2>1. <<x, y, "PAYABLE">> \in Account
      BY DEF Account, BalanceType
    <2> QED
      BY <2>1 DEF Ledgers
  <1>2. Overpaid(x, y) = SumFunction(g)
    BY DEF Overpaid
  <1> HIDE DEF r
  <1>3. DOMAIN r.log = 1 .. Len(r.log) /\ \A i \in DOMAIN r.log : r.log[i] \in LogEntry
        /\ r.log[i].change \in Int
    BY <1>1, RowTypeLemma
  <1>4. I = {i \in DOMAIN r.log : r.log[i] \in Credits}
    BY <1>3 DEF Credits
  <1>5. IsFiniteSet(I)
    <2>1. IsFiniteSet(1 .. Len(r.log)) /\ I \subseteq 1 .. Len(r.log)
      <3>1. Len(r.log) \in Nat
        BY <1>1, RowTypeLemma
      <3> QED
        BY <1>3, <3>1, FS_Interval
    <2> HIDE DEF I
    <2> QED
      BY <2>1, FS_Subset
  <1>6. \A i \in I : f[i] \in Int /\ g[i] = -f[i]
    BY <1>3
  <1>7. DOMAIN g = I
    OBVIOUS
  <1>8. EntrySum(r.log, Credits) = SumFunctionOnSet(f, I)
    BY <1>4 DEF EntrySum
  <1> HIDE DEF I, f, g
  <1>9. SumFunction(g) = SumFunctionOnSet(g, I)
    BY <1>7, SumFunctionLemma
  <1>10. SumFunctionOnSet(g, I) = -SumFunctionOnSet(f, I)
    BY <1>5, <1>6, SumNegate
  <1>11. r.balance \in Int /\ EntrySum(r.log, Credits) \in Int
    BY <1>1, RowTypeLemma, CreditsLemma
  <1> QED
    BY <1>2, <1>8, <1>9, <1>10, <1>11 DEF r

LEMMA GateBounded == GateInv => DebtBounded
  <1> SUFFICES ASSUME GateInv, NEW x \in Team, NEW y \in Team \ {x}, Fees(x, y) # {}
               PROVE  -db[<<x, y, "PAYABLE">>].balance + Unbooked(x, y) - Overpaid(x, y)
                        < Max(Thresholds) + MaxFlight * Max(Fees(x, y))
    BY DEF DebtBounded, Fees
  <1> DEFINE b == <<x, y, "PAYABLE">>
             p == db[b].balance
             e == EntrySum(db[b].log, Credits)
             bound == Max(Thresholds) + MaxFlight * Max(Fees(x, y))
  <1>1. (e - p) + Expected(orders, x, y) < bound
    BY DEF GateInv, Within, Net
  <1>2. p \in Int /\ e \in Int /\ Overpaid(x, y) = -e
    <2>1. db \in Ledgers
      BY DEF GateInv, ViewInv, LedgerInv, Books
    <2> QED
      BY <2>1, OverpaidLemma
  <1>3. Unbooked(x, y) = Expected(orders, x, y) /\ Expected(orders, x, y) \in Nat
    BY UnbookedLemma, ExpectedLemma
  <1> HIDE DEF p, e, bound
  <1>4. -p + Unbooked(x, y) - Overpaid(x, y) < bound
    <2>1. -p + Unbooked(x, y) - Overpaid(x, y) = (e - p) + Expected(orders, x, y)
      BY <1>2, <1>3
    <2> QED
      BY <1>1, <2>1
  <1> QED
    BY <1>4 DEF p, b, bound

(* However payments, cancellations, late bookings and changes of limits    *)
(* interleave with the two statements of the gate, its orders wait with a  *)
(* default rule of each creditor read, and keep every debt within bounds.  *)
THEOREM FlowGateInvariant == FlowSpec => []GateInv
  BY GateInit, GateStep, PTL DEF FlowSpec

(* The advisory gate of EvaluateOweLimits passes a limit by no more than   *)
(* one highest fee for each order between it and the ledger: a debt, with  *)
(* the admitted orders that are still to be booked and without the credits *)
(* of overpayments, stays below that bound.                                *)
THEOREM FlowDebtBounded == FlowSpec => []DebtBounded
  BY FlowGateInvariant, GateBounded, PTL
=============================================================================
