-------------------------- MODULE LedgerOpsProofs --------------------------
(***************************************************************************)
(* Lemmas about the double-entry operators of LedgerOps and about the      *)
(* postings of PushPostings, for every set of teams, days and references,  *)
(* every row an event is about and every amount.  The proofs about the     *)
(* modules that post to the ledger rest on them.                           *)
(***************************************************************************)
EXTENDS PushPostings, SumProofs
-----------------------------------------------------------------------------
(* One account row.                                                        *)

(* Swapping the legs of an account twice gives it back, and an account is  *)
(* never its own mirror: their balance types differ.                       *)
LEMMA MirrorLemma ==
  ASSUME NEW a \in Account
  PROVE  /\ Mirror(a) \in Account
         /\ Mirror(a) # a
         /\ Mirror(Mirror(a)) = a
  BY DEF Account, Mirror, oppositeBalance, BalanceType

(* Appending to a log keeps its rows and adds the new one last.            *)
LEMMA AppendLemma ==
  ASSUME NEW S, NEW s \in Seq(S), NEW e \in S
  PROVE  /\ Append(s, e) \in Seq(S)
         /\ Append(s, e) # <<>>
         /\ Len(s) \in Nat
         /\ Len(Append(s, e)) = Len(s) + 1
         /\ DOMAIN s = 1 .. Len(s)
         /\ DOMAIN Append(s, e) = 1 .. Len(s) + 1
         /\ Append(s, e)[Len(s) + 1] = e
         /\ \A i \in 1 .. Len(s) : Append(s, e)[i] = s[i]
         /\ s = <<>> <=> Len(s) = 0
  OBVIOUS

(* A daily row keeps its type under upsertDailyLog and is present after it.*)
LEMMA UpsertDailyLemma ==
  ASSUME NEW c \in DailyRow, NEW prev \in Int, NEW new \in Int, NEW delta \in Int
  PROVE  LET q == upsertDailyLog(c, prev, new, delta)
         IN  /\ q \in DailyRow
             /\ q.present
             /\ q.start = IF c.present THEN c.start ELSE prev
             /\ q.end = new
             /\ q.change = (IF c.present THEN c.change ELSE 0) + delta
  <1>1. CASE c.present
    <2>1. upsertDailyLog(c, prev, new, delta) =
            [present |-> c.present, start |-> c.start, end |-> new,
             change |-> c.change + delta]
      BY <1>1 DEF upsertDailyLog, DailyRow
    <2> QED
      BY <1>1, <2>1 DEF DailyRow
  <1>2. CASE ~c.present
    BY <1>2 DEF upsertDailyLog, DailyRow
  <1> QED
    BY <1>1, <1>2

(* A log row records the change and the balance it results in.             *)
LEMMA LogEntryLemma ==
  ASSUME NEW r, r.balance \in Int, NEW kind \in ChangeType, NEW delta \in Int,
         NEW day \in Day, NEW ref \in Ref
  PROVE  LET e == logEntry(r, kind, delta, day, ref)
         IN  /\ e \in LogEntry
             /\ e.change = delta
             /\ e.balance = r.balance + delta
             /\ e.day = day
             /\ e.ref = ref
  BY DEF logEntry, LogEntry

(* The balance moves by delta, and one log row records the new balance.    *)
LEMMA MoveBalanceLemma ==
  ASSUME NEW r \in AccountRow, NEW kind \in ChangeType, NEW delta \in Int,
         NEW day \in Day, NEW ref \in Ref
  PROVE  LET m == moveBalance(r, kind, delta, day, ref)
         IN  /\ m \in AccountRow
             /\ m.present
             /\ m.balance = r.balance + delta
             /\ m.pending = r.pending
             /\ m.log = Append(r.log, logEntry(r, kind, delta, day, ref))
             /\ m.daily = r.daily
  <1> DEFINE e == logEntry(r, kind, delta, day, ref)
             l == lockOrCreateBalance(r)
             m == moveBalance(r, kind, delta, day, ref)
  <1>1. r.balance \in Int /\ r.log \in Seq(LogEntry)
    BY DEF AccountRow
  <1>2. e \in LogEntry
    BY <1>1, LogEntryLemma
  <1>3. Append(r.log, e) \in Seq(LogEntry)
    BY <1>1, <1>2, AppendLemma
  <1>4. /\ l \in AccountRow /\ l.present
        /\ l.pending = r.pending /\ l.daily = r.daily
    BY DEF lockOrCreateBalance, AccountRow
  <1>5. m = [l EXCEPT !.balance = r.balance + delta, !.log = Append(r.log, e)]
    BY DEF moveBalance
  <1> HIDE DEF l, m, e
  <1>6. /\ m.present = l.present
        /\ m.pending = l.pending
        /\ m.daily = l.daily
        /\ m.balance = r.balance + delta
        /\ m.log = Append(r.log, e)
    BY <1>4, <1>5 DEF AccountRow
  <1>7. m \in AccountRow
    <2>1. r.balance + delta \in Int
      BY <1>1
    <2> QED
      BY <1>3, <1>4, <1>5, <2>1 DEF AccountRow
  <1> QED
    BY <1>4, <1>6, <1>7 DEF m, e

(* What postEntry does to an account row: the balance moves by delta, the  *)
(* in-flight amount stays, and one log row records the new balance.        *)
LEMMA PostEntryRowLemma ==
  ASSUME NEW r \in AccountRow, NEW kind \in ChangeType, NEW delta \in Int,
         NEW day \in Day, NEW ref \in Ref
  PROVE  LET q == postEntryRow(r, kind, delta, day, ref)
         IN  /\ q \in AccountRow
             /\ q.present
             /\ q.balance = r.balance + delta
             /\ q.pending = r.pending
             /\ q.log = Append(r.log, logEntry(r, kind, delta, day, ref))
             /\ q.daily[day] =
                  upsertDailyLog(r.daily[day], r.balance, r.balance + delta, delta)
             /\ \A other \in Day : other # day => q.daily[other] = r.daily[other]
  <1> DEFINE c == upsertDailyLog(r.daily[day], r.balance, r.balance + delta, delta)
             m == moveBalance(r, kind, delta, day, ref)
  <1>1. r.balance \in Int /\ r.daily \in [Day -> DailyRow]
    BY DEF AccountRow
  <1>2. c \in DailyRow
    <2>1. r.daily[day] \in DailyRow /\ r.balance + delta \in Int
      BY <1>1
    <2> QED
      BY <1>1, <2>1, UpsertDailyLemma
  <1>3. [r.daily EXCEPT ![day] = c] \in [Day -> DailyRow]
    BY <1>1, <1>2
  <1>4. /\ m \in AccountRow
        /\ m.present
        /\ m.balance = r.balance + delta
        /\ m.pending = r.pending
        /\ m.log = Append(r.log, logEntry(r, kind, delta, day, ref))
        /\ m.daily = r.daily
    BY MoveBalanceLemma
  <1>5. postEntryRow(r, kind, delta, day, ref) =
          [m EXCEPT !.daily = [r.daily EXCEPT ![day] = c]]
    BY DEF postEntryRow
  <1> HIDE DEF m
  <1> QED
    BY <1>1, <1>3, <1>4, <1>5 DEF AccountRow

(* adjustPending moves the in-flight amount and nothing else of a row.     *)
LEMMA AdjustPendingRowLemma ==
  ASSUME NEW r \in AccountRow, NEW delta \in Int
  PROVE  LET q == adjustPendingRow(r, delta)
         IN  /\ q \in AccountRow
             /\ q.present
             /\ q.pending = r.pending + delta
             /\ q.balance = r.balance
             /\ q.log = r.log
             /\ q.daily = r.daily
  <1> DEFINE l == lockOrCreateBalance(r)
             q == adjustPendingRow(r, delta)
  <1>1. /\ l \in AccountRow /\ l.present
        /\ l.balance = r.balance /\ l.log = r.log /\ l.daily = r.daily
    BY DEF lockOrCreateBalance, AccountRow
  <1>2. r.pending + delta \in Int
    BY DEF AccountRow
  <1>3. q = [l EXCEPT !.pending = r.pending + delta]
    BY DEF adjustPendingRow
  <1> HIDE DEF l, q
  <1>4. q \in AccountRow /\ q.pending = r.pending + delta
    BY <1>1, <1>2, <1>3 DEF AccountRow
  <1>5. /\ q.present = l.present /\ q.balance = l.balance
        /\ q.log = l.log /\ q.daily = l.daily
    BY <1>1, <1>3 DEF AccountRow
  <1> QED
    BY <1>1, <1>4, <1>5 DEF q

(* The types of a row's columns and of the rows of its log.                *)
LEMMA RowTypeLemma ==
  ASSUME NEW r \in AccountRow
  PROVE  /\ r.balance \in Int /\ r.pending \in Int
         /\ r.log \in Seq(LogEntry) /\ Len(r.log) \in Nat
         /\ \A i \in 1 .. Len(r.log) : /\ r.log[i] \in LogEntry
                                       /\ r.log[i].balance \in Int
                                       /\ r.log[i].change \in Int
                                       /\ r.log[i].day \in Day
         /\ r.daily \in [Day -> DailyRow]
  <1>1. /\ r.balance \in Int /\ r.pending \in Int
        /\ r.log \in Seq(LogEntry) /\ r.daily \in [Day -> DailyRow]
    BY DEF AccountRow
  <1>2. Len(r.log) \in Nat /\ \A i \in 1 .. Len(r.log) : r.log[i] \in LogEntry
    BY <1>1
  <1>3. \A e \in LogEntry : e.balance \in Int /\ e.change \in Int /\ e.day \in Day
    BY DEF LogEntry
  <1> QED
    BY <1>1, <1>2, <1>3

(* A row without history is a row, and the empty tables are ledger tables. *)
LEMMA EmptyLedgerLemma ==
  NoAccount \in AccountRow /\ EmptyLedger \in Ledgers
  <1>1. NoAccount.daily \in [Day -> DailyRow] /\ NoAccount.log \in Seq(LogEntry)
    BY DEF NoAccount, NoDaily, DailyRow
  <1>2. NoAccount \in AccountRow
    BY <1>1 DEF NoAccount, AccountRow
  <1> QED
    BY <1>2 DEF EmptyLedger, Ledgers

-----------------------------------------------------------------------------
(* The two legs of a posting.                                              *)

(* postDoubleEntry posts +amount on a and -amount on its mirror.           *)
LEMMA PostDoubleEntryLemma ==
  ASSUME NEW d \in Ledgers, NEW a \in Account, NEW kind \in ChangeType,
         NEW amount \in Int, NEW day \in Day, NEW ref \in Ref
  PROVE  LET e == postDoubleEntry(d, a, kind, amount, day, ref)
         IN  /\ e \in Ledgers
             /\ e[a] = postEntryRow(d[a], kind, amount, day, ref)
             /\ e[Mirror(a)] = postEntryRow(d[Mirror(a)], kind, -amount, day, ref)
             /\ \A b \in Account : b # a /\ b # Mirror(a) => e[b] = d[b]
  <1> DEFINE q == postEntryRow(d[a], kind, amount, day, ref)
             m == postEntryRow(d[Mirror(a)], kind, -amount, day, ref)
  <1>1. Mirror(a) \in Account /\ Mirror(a) # a
    BY MirrorLemma
  <1>2. d[a] \in AccountRow /\ d[Mirror(a)] \in AccountRow /\ -amount \in Int
    BY <1>1 DEF Ledgers
  <1>3. q \in AccountRow /\ m \in AccountRow
    BY <1>2, PostEntryRowLemma
  <1>4. postDoubleEntry(d, a, kind, amount, day, ref) =
          [[d EXCEPT ![a] = q] EXCEPT ![Mirror(a)] = m]
    BY <1>1 DEF postDoubleEntry, postEntry, Ledgers
  <1> HIDE DEF q, m
  <1> QED
    BY <1>1, <1>3, <1>4 DEF Ledgers, q, m

(* adjustPendingPair moves the in-flight amount of the payer's PAYABLE and *)
(* of the receiver's RECEIVABLE, each other's mirror, by the same delta.   *)
LEMMA AdjustPendingPairLemma ==
  ASSUME NEW d \in Ledgers, NEW team \in Team, NEW forTeam \in Team, NEW delta \in Int
  PROVE  LET e == adjustPendingPair(d, team, forTeam, delta)
             a == <<team, forTeam, "PAYABLE">>
         IN  /\ a \in Account
             /\ e \in Ledgers
             /\ e[a] = adjustPendingRow(d[a], delta)
             /\ e[Mirror(a)] = adjustPendingRow(d[Mirror(a)], delta)
             /\ \A b \in Account : b # a /\ b # Mirror(a) => e[b] = d[b]
  <1> DEFINE a == <<team, forTeam, "PAYABLE">>
             q == adjustPendingRow(d[a], delta)
             m == adjustPendingRow(d[Mirror(a)], delta)
  <1>1. a \in Account /\ Mirror(a) = <<forTeam, team, "RECEIVABLE">>
    BY DEF Account, BalanceType, Mirror, oppositeBalance
  <1> HIDE DEF a
  <1>2. Mirror(a) \in Account /\ Mirror(a) # a
    BY <1>1, MirrorLemma
  <1>3. d[a] \in AccountRow /\ d[Mirror(a)] \in AccountRow
    BY <1>1, <1>2 DEF Ledgers
  <1>4. q \in AccountRow /\ m \in AccountRow
    BY <1>3, AdjustPendingRowLemma
  <1>5. adjustPendingPair(d, team, forTeam, delta) =
          [[d EXCEPT ![a] = q] EXCEPT ![Mirror(a)] = m]
    <2>1. adjustPendingPair(d, team, forTeam, delta) =
            adjustPending(adjustPending(d, a, delta), Mirror(a), delta)
      BY <1>1 DEF adjustPendingPair, a
    <2> QED
      BY <1>1, <1>2, <2>1 DEF adjustPending, Ledgers
  <1> HIDE DEF q, m
  <1>6. LET e == adjustPendingPair(d, team, forTeam, delta)
        IN  /\ e \in Ledgers /\ e[a] = q /\ e[Mirror(a)] = m
            /\ \A b \in Account : b # a /\ b # Mirror(a) => e[b] = d[b]
    BY <1>1, <1>2, <1>4, <1>5 DEF Ledgers
  <1> QED
    BY <1>1, <1>6 DEF q, m, a
-----------------------------------------------------------------------------
(* What the log attributes to a reference.                                 *)

Unnamed(log, ref) == \A i \in DOMAIN log : log[i].ref # ref

(* The sum of the rows that name ref is an integer, and zero without such  *)
(* rows.                                                                   *)
LEMMA BookedLemma ==
  ASSUME NEW log \in Seq(LogEntry), NEW ref
  PROVE  /\ Booked(log, ref) \in Int
         /\ Unnamed(log, ref) => Booked(log, ref) = 0
  <1> DEFINE f == [i \in DOMAIN log |-> log[i].change]
             S == {i \in DOMAIN log : log[i].ref = ref}
  <1>1. DOMAIN log = 1 .. Len(log) /\ Len(log) \in Nat
    OBVIOUS
  <1>2. IsFiniteSet(S)
    <2>1. IsFiniteSet(DOMAIN log)
      BY <1>1, FS_Interval
    <2> QED
      BY <2>1, FS_Subset
  <1>3. \A i \in S : f[i] \in Int
    <2>1. \A i \in DOMAIN log : log[i] \in LogEntry
      OBVIOUS
    <2> QED
      BY <2>1 DEF LogEntry
  <1>4. Unnamed(log, ref) => S = {}
    BY DEF Unnamed
  <1>5. Booked(log, ref) = SumFunctionOnSet(f, S)
    BY DEF Booked
  <1> HIDE DEF f, S
  <1> QED
    BY <1>2, <1>3, <1>4, <1>5, SumType, SumEmpty

(* A new row adds its change to what its reference has booked.             *)
LEMMA BookedAppend ==
  ASSUME NEW log \in Seq(LogEntry), NEW e \in LogEntry, NEW ref
  PROVE  /\ Booked(Append(log, e), ref) =
              IF e.ref = ref THEN e.change + Booked(log, ref) ELSE Booked(log, ref)
         /\ Unnamed(Append(log, e), ref) <=> Unnamed(log, ref) /\ e.ref # ref
  <1> DEFINE n == Len(log)
             new == Append(log, e)
             f == [i \in DOMAIN log |-> log[i].change]
             g == [i \in DOMAIN new |-> new[i].change]
             S == {i \in DOMAIN log : log[i].ref = ref}
             T == {i \in DOMAIN new : new[i].ref = ref}
  <1>1. /\ n \in Nat /\ DOMAIN log = 1 .. n /\ DOMAIN new = 1 .. n + 1
        /\ new[n + 1] = e /\ \A i \in 1 .. n : new[i] = log[i]
    BY AppendLemma
  <1> HIDE DEF new
  <1>2. Unnamed(new, ref) <=> Unnamed(log, ref) /\ e.ref # ref
    BY <1>1 DEF Unnamed
  <1>3. /\ IsFiniteSet(S) /\ n + 1 \notin S
        /\ T = IF e.ref = ref THEN S \cup {n + 1} ELSE S
        /\ \A i \in S : g[i] = f[i] /\ g[i] \in Int
        /\ g[n + 1] = e.change /\ e.change \in Int
    <2>1. IsFiniteSet(S)
      <3>1. IsFiniteSet(1 .. n)
        BY <1>1, FS_Interval
      <3> QED
        BY <1>1, <3>1, FS_Subset
    <2>2. \A i \in 1 .. n : log[i] \in LogEntry
      BY <1>1
    <2>3. \A x \in LogEntry : x.change \in Int
      BY DEF LogEntry
    <2>4. \A i \in S : g[i] = f[i] /\ g[i] \in Int
      BY <1>1, <2>2, <2>3
    <2> QED
      BY <1>1, <2>1, <2>3, <2>4
  <1>4. Booked(log, ref) = SumFunctionOnSet(f, S) /\ Booked(new, ref) = SumFunctionOnSet(g, T)
    BY DEF Booked
  <1> HIDE DEF n, f, g, S, T
  <1>5. SumFunctionOnSet(g, S) = SumFunctionOnSet(f, S)
    BY <1>3, SumSame
  <1>6. CASE e.ref = ref
    BY <1>2, <1>3, <1>4, <1>5, <1>6, SumAdd DEF new
  <1>7. CASE e.ref # ref
    BY <1>2, <1>3, <1>4, <1>5, <1>7 DEF new
  <1> QED
    BY <1>2, <1>6, <1>7 DEF new

(* The same for a posting on an account.                                   *)
LEMMA PostEntryBooked ==
  ASSUME NEW r \in AccountRow, NEW kind \in ChangeType, NEW delta \in Int,
         NEW day \in Day, NEW ref \in Ref, NEW other
  PROVE  LET q == postEntryRow(r, kind, delta, day, ref)
         IN  /\ Booked(q.log, other) =
                  IF other = ref THEN delta + Booked(r.log, other) ELSE Booked(r.log, other)
             /\ Unnamed(q.log, other) <=> Unnamed(r.log, other) /\ other # ref
  <1>1. r.log \in Seq(LogEntry) /\ r.balance \in Int
    BY RowTypeLemma
  <1> DEFINE e == logEntry(r, kind, delta, day, ref)
  <1>2. e \in LogEntry /\ e.change = delta /\ e.ref = ref
    BY <1>1, LogEntryLemma
  <1>3. postEntryRow(r, kind, delta, day, ref).log = Append(r.log, e)
    BY PostEntryRowLemma
  <1> HIDE DEF e
  <1> QED
    BY <1>1, <1>2, <1>3, BookedAppend

(* A double entry books on its two accounts, under its reference only.     *)
LEMMA PostDoubleEntryBooked ==
  ASSUME NEW d \in Ledgers, NEW a \in Account, NEW kind \in ChangeType,
         NEW amount \in Int, NEW day \in Day, NEW ref \in Ref, NEW other, NEW b \in Account
  PROVE  LET e == postDoubleEntry(d, a, kind, amount, day, ref)
         IN  /\ Booked(e[b].log, other) =
                  IF other = ref /\ b = a THEN amount + Booked(d[b].log, other)
                  ELSE IF other = ref /\ b = Mirror(a) THEN -amount + Booked(d[b].log, other)
                  ELSE Booked(d[b].log, other)
             /\ other # ref => (Unnamed(e[b].log, other) <=> Unnamed(d[b].log, other))
  <1> DEFINE e == postDoubleEntry(d, a, kind, amount, day, ref)
  <1>1. Mirror(a) \in Account /\ Mirror(a) # a /\ -amount \in Int /\ d[b] \in AccountRow
    BY MirrorLemma DEF Ledgers
  <1>2. /\ e[a] = postEntryRow(d[a], kind, amount, day, ref)
        /\ e[Mirror(a)] = postEntryRow(d[Mirror(a)], kind, -amount, day, ref)
        /\ b # a /\ b # Mirror(a) => e[b] = d[b]
    BY PostDoubleEntryLemma
  <1> HIDE DEF e
  <1>3. ASSUME NEW delta \in Int, e[b] = postEntryRow(d[b], kind, delta, day, ref)
        PROVE  /\ Booked(e[b].log, other) =
                    IF other = ref THEN delta + Booked(d[b].log, other)
                                   ELSE Booked(d[b].log, other)
               /\ other # ref => (Unnamed(e[b].log, other) <=> Unnamed(d[b].log, other))
    <2> DEFINE q == postEntryRow(d[b], kind, delta, day, ref)
    <2>1. /\ Booked(q.log, other) = IF other = ref THEN delta + Booked(d[b].log, other)
                                                   ELSE Booked(d[b].log, other)
          /\ Unnamed(q.log, other) <=> Unnamed(d[b].log, other) /\ other # ref
      BY <1>1, PostEntryBooked
    <2>2. e[b] = q
      BY <1>3
    <2> HIDE DEF q
    <2> QED
      BY <2>1, <2>2
  <1>4. CASE b = a
    BY <1>1, <1>2, <1>3, <1>4 DEF e
  <1>5. CASE b = Mirror(a)
    BY <1>1, <1>2, <1>3, <1>5 DEF e
  <1>6. CASE b # a /\ b # Mirror(a)
    BY <1>2, <1>6 DEF e
  <1> QED
    BY <1>4, <1>5, <1>6

(* Moving an in-flight amount books nothing.                               *)
LEMMA AdjustPendingPairLogs ==
  ASSUME NEW d \in Ledgers, NEW team \in Team, NEW forTeam \in Team, NEW delta \in Int,
         NEW b \in Account
  PROVE  adjustPendingPair(d, team, forTeam, delta)[b].log = d[b].log
  <1> DEFINE e == adjustPendingPair(d, team, forTeam, delta)
             a == <<team, forTeam, "PAYABLE">>
  <1>1. /\ a \in Account
        /\ e[a] = adjustPendingRow(d[a], delta)
        /\ e[Mirror(a)] = adjustPendingRow(d[Mirror(a)], delta)
        /\ b # a /\ b # Mirror(a) => e[b] = d[b]
    BY AdjustPendingPairLemma
  <1>2. d[b] \in AccountRow
    BY DEF Ledgers
  <1> HIDE DEF e, a
  <1>3. b \in {a, Mirror(a)} => e[b] = adjustPendingRow(d[b], delta)
    BY <1>1
  <1>4. adjustPendingRow(d[b], delta).log = d[b].log
    BY <1>2, AdjustPendingRowLemma
  <1> QED
    BY <1>1, <1>3, <1>4 DEF e
-----------------------------------------------------------------------------
(* What some of the entries of a log add up to.                            *)

EntrySum(log, E) ==
  SumFunctionOnSet([i \in DOMAIN log |-> log[i].change], {i \in DOMAIN log : log[i] \in E})

(* The sum is an integer, and zero without such entries.                   *)
LEMMA EntrySumType ==
  ASSUME NEW log \in Seq(LogEntry), NEW E
  PROVE  /\ EntrySum(log, E) \in Int
         /\ (\A i \in DOMAIN log : log[i] \notin E) => EntrySum(log, E) = 0
  <1> DEFINE f == [i \in DOMAIN log |-> log[i].change]
             S == {i \in DOMAIN log : log[i] \in E}
  <1>1. DOMAIN log = 1 .. Len(log) /\ Len(log) \in Nat
    OBVIOUS
  <1>2. IsFiniteSet(S)
    <2>1. IsFiniteSet(DOMAIN log)
      BY <1>1, FS_Interval
    <2> QED
      BY <2>1, FS_Subset
  <1>3. \A i \in S : f[i] \in Int
    <2>1. \A i \in DOMAIN log : log[i] \in LogEntry
      OBVIOUS
    <2> QED
      BY <2>1 DEF LogEntry
  <1>4. (\A i \in DOMAIN log : log[i] \notin E) => S = {}
    OBVIOUS
  <1>5. EntrySum(log, E) = SumFunctionOnSet(f, S)
    BY DEF EntrySum
  <1> HIDE DEF f, S
  <1> QED
    BY <1>2, <1>3, <1>4, <1>5, SumType, SumEmpty

(* A new entry adds its change when it is one of those.                    *)
LEMMA EntrySumAppend ==
  ASSUME NEW log \in Seq(LogEntry), NEW e \in LogEntry, NEW E
  PROVE  EntrySum(Append(log, e), E) =
           IF e \in E THEN EntrySum(log, E) + e.change ELSE EntrySum(log, E)
  <1> DEFINE n == Len(log)
             new == Append(log, e)
             f == [i \in DOMAIN log |-> log[i].change]
             g == [i \in DOMAIN new |-> new[i].change]
             S == {i \in DOMAIN log : log[i] \in E}
             T == {i \in DOMAIN new : new[i] \in E}
  <1>1. /\ n \in Nat /\ DOMAIN log = 1 .. n /\ DOMAIN new = 1 .. n + 1
        /\ new[n + 1] = e /\ \A i \in 1 .. n : new[i] = log[i]
    BY AppendLemma
  <1> HIDE DEF new
  <1>2. IsFiniteSet(S) /\ n + 1 \notin S /\ T = IF e \in E THEN S \cup {n + 1} ELSE S
    <2>1. IsFiniteSet(1 .. n)
      BY <1>1, FS_Interval
    <2>2. IsFiniteSet(S)
      BY <1>1, <2>1, FS_Subset
    <2> QED
      BY <1>1, <2>2
  <1>3. /\ \A i \in S : g[i] = f[i] /\ g[i] \in Int
        /\ g[n + 1] = e.change /\ e.change \in Int
    <2>1. \A i \in 1 .. n : log[i] \in LogEntry
      BY <1>1
    <2>2. \A x \in LogEntry : x.change \in Int
      BY DEF LogEntry
    <2> QED
      BY <1>1, <2>1, <2>2
  <1>4. EntrySum(log, E) = SumFunctionOnSet(f, S) /\ EntrySum(new, E) = SumFunctionOnSet(g, T)
    BY DEF EntrySum
  <1>5. EntrySum(log, E) \in Int
    BY EntrySumType
  <1> HIDE DEF n, f, g, S, T
  <1>6. SumFunctionOnSet(g, S) = SumFunctionOnSet(f, S)
    BY <1>2, <1>3, SumSame
  <1>7. CASE e \in E
    <2>1. SumFunctionOnSet(g, S \cup {n + 1}) = g[n + 1] + SumFunctionOnSet(g, S)
      BY <1>2, <1>3, SumAdd
    <2> QED
      BY <1>2, <1>3, <1>4, <1>5, <1>6, <1>7, <2>1 DEF new
  <1>8. CASE e \notin E
    BY <1>2, <1>4, <1>6, <1>8 DEF new
  <1> QED
    BY <1>7, <1>8

(* The same for a posting on an account.                                   *)
LEMMA PostEntrySum ==
  ASSUME NEW r \in AccountRow, NEW kind \in ChangeType, NEW delta \in Int,
         NEW day \in Day, NEW ref \in Ref, NEW E
  PROVE  /\ EntrySum(r.log, E) \in Int
         /\ EntrySum(postEntryRow(r, kind, delta, day, ref).log, E) =
              IF logEntry(r, kind, delta, day, ref) \in E
              THEN EntrySum(r.log, E) + delta ELSE EntrySum(r.log, E)
  <1>1. r.log \in Seq(LogEntry) /\ r.balance \in Int
    BY RowTypeLemma
  <1> DEFINE e == logEntry(r, kind, delta, day, ref)
  <1>2. e \in LogEntry /\ e.change = delta
    BY <1>1, LogEntryLemma
  <1>3. postEntryRow(r, kind, delta, day, ref).log = Append(r.log, e)
    BY PostEntryRowLemma
  <1> HIDE DEF e
  <1>4. EntrySum(r.log, E) \in Int
    BY <1>1, EntrySumType
  <1>5. EntrySum(Append(r.log, e), E) =
           IF e \in E THEN EntrySum(r.log, E) + e.change ELSE EntrySum(r.log, E)
    BY <1>1, <1>2, EntrySumAppend
  <1> QED
    BY <1>2, <1>3, <1>4, <1>5 DEF e
-----------------------------------------------------------------------------
(* Sums over sequences of postings.                                        *)

SeqSum(w, s) == SumFunctionOnSet([i \in DOMAIN s |-> w[s[i]]], DOMAIN s)

LEMMA SeqSumType ==
  ASSUME NEW P, NEW w \in [P -> Int], NEW s \in Seq(P)
  PROVE  /\ DOMAIN s = 1 .. Len(s) /\ Len(s) \in Nat /\ IsFiniteSet(DOMAIN s)
         /\ SeqSum(w, s) \in Int
  <1>1. DOMAIN s = 1 .. Len(s) /\ Len(s) \in Nat
    OBVIOUS
  <1>2. IsFiniteSet(DOMAIN s)
    BY <1>1, FS_Interval
  <1> DEFINE f == [i \in DOMAIN s |-> w[s[i]]]
             S == DOMAIN s
  <1>3. \A i \in S : f[i] \in Int
    OBVIOUS
  <1> HIDE DEF f, S
  <1>4. SumFunctionOnSet(f, S) \in Int
    BY <1>2, <1>3, SumType DEF S
  <1> QED
    BY <1>1, <1>2, <1>4 DEF SeqSum, f, S

LEMMA SeqSumShort ==
  ASSUME NEW P, NEW w \in [P -> Int]
  PROVE  SeqSum(w, <<>>) = 0 /\ \A p \in P : SeqSum(w, <<p>>) = w[p]
  <1>1. SeqSum(w, <<>>) = 0
    <2>1. DOMAIN <<>> = {}
      OBVIOUS
    <2> QED
      BY <2>1, SumEmpty DEF SeqSum
  <1>2. ASSUME NEW p \in P PROVE SeqSum(w, <<p>>) = w[p]
    <2> DEFINE f == [i \in DOMAIN <<p>> |-> w[<<p>>[i]]]
    <2>1. DOMAIN <<p>> = {} \cup {1} /\ f[1] = w[p] /\ w[p] \in Int
      OBVIOUS
    <2> HIDE DEF f
    <2>2. SumFunctionOnSet(f, {} \cup {1}) = f[1] + SumFunctionOnSet(f, {})
      BY <2>1, FS_EmptySet, SumAdd
    <2>3. SumFunctionOnSet(f, {}) = 0
      BY SumEmpty
    <2>4. SeqSum(w, <<p>>) = SumFunctionOnSet(f, DOMAIN <<p>>)
      BY DEF SeqSum, f
    <2> QED
      BY <2>1, <2>2, <2>3, <2>4
  <1> QED
    BY <1>1, <1>2

LEMMA SeqSumConcat ==
  ASSUME NEW P, NEW w \in [P -> Int], NEW s \in Seq(P), NEW t \in Seq(P)
  PROVE  s \o t \in Seq(P) /\ SeqSum(w, s \o t) = SeqSum(w, s) + SeqSum(w, t)
  <1> DEFINE n == Len(s)
             k == Len(t)
             u == s \o t
             f == [i \in DOMAIN s |-> w[s[i]]]
             g == [i \in DOMAIN t |-> w[t[i]]]
             h == [i \in DOMAIN u |-> w[u[i]]]
             S == 1 .. n
             T == 1 .. k
             move == [i \in T |-> i + n]
             M == {move[i] : i \in T}
  <1>1. /\ n \in Nat /\ k \in Nat /\ DOMAIN s = S /\ DOMAIN t = T
        /\ u \in Seq(P) /\ DOMAIN u = 1 .. n + k
        /\ \A i \in S : u[i] = s[i]
        /\ \A i \in T : u[i + n] = t[i]
    OBVIOUS
  <1> HIDE DEF u
  <1>2. 1 .. n + k = S \cup M /\ S \cap M = {}
    <2>1. \A j \in 1 .. n + k : j \in S \/ (j - n \in T /\ move[j - n] = j)
      BY <1>1
    <2>2. \A i \in T : move[i] \in 1 .. n + k /\ move[i] \notin S
      BY <1>1
    <2>3. S \subseteq 1 .. n + k
      BY <1>1
    <2> HIDE DEF S, T, move
    <2> QED
      BY <2>1, <2>2, <2>3
  <1>3. IsFiniteSet(S) /\ IsFiniteSet(T) /\ IsFiniteSet(M)
    <2>1. IsFiniteSet(S) /\ IsFiniteSet(T) /\ IsFiniteSet(1 .. n + k)
      BY <1>1, FS_Interval
    <2> HIDE DEF S, M
    <2> QED
      BY <1>2, <2>1, FS_Subset
  <1>4. \A i \in S \cup M : h[i] \in Int
    <2>1. \A i \in 1 .. n + k : u[i] \in P
      BY <1>1
    <2> HIDE DEF S, M, n, k
    <2> QED
      BY <1>1, <1>2, <2>1
  <1>5. \A i \in S : f[i] = h[i]
    BY <1>1
  <1>6. \A i \in T : /\ g[i] \in Int /\ h[move[i]] = g[i]
                     /\ \A j \in T : move[i] = move[j] => i = j
    <2>1. \A i \in T : i + n \in 1 .. n + k /\ t[i] \in P
      BY <1>1
    <2> QED
      BY <1>1, <2>1
  <1>7. /\ SeqSum(w, s) = SumFunctionOnSet(f, S)
        /\ SeqSum(w, t) = SumFunctionOnSet(g, T)
        /\ SeqSum(w, u) = SumFunctionOnSet(h, S \cup M)
    BY <1>1, <1>2 DEF SeqSum
  <1> HIDE DEF f, g, h, S, T, move
  <1>8. SumFunctionOnSet(h, M) = SumFunctionOnSet(g, T)
    <2>1. /\ \A i \in T : g[i] \in Int
          /\ \A i \in T : h[move[i]] = g[i]
          /\ \A i, j \in T : move[i] = move[j] => i = j
      BY <1>6
    <2>2. SumFunctionOnSet(h, {move[x] : x \in T}) = SumFunctionOnSet(g, T)
      <3> HIDE DEF M
      <3>1. IsFiniteSet(T)
        BY <1>3
      <3> QED
        BY <2>1, <3>1, SumMap, SMTT(20)
    <2> QED
      BY <2>2
  <1> HIDE DEF M
  <1>9. SumFunctionOnSet(h, S \cup M) = SumFunctionOnSet(h, S) + SumFunctionOnSet(h, M)
    BY <1>2, <1>3, <1>4, SumUnion
  <1>10. SumFunctionOnSet(f, S) = SumFunctionOnSet(h, S)
    BY <1>3, <1>5, SumSame
  <1> QED
    BY <1>1, <1>7, <1>8, <1>9, <1>10 DEF u

(* A value that each element of a sequence moves by its weight ends where  *)
(* it started, moved by the sum.                                           *)
LEMMA SeqSumSteps ==
  ASSUME NEW P, NEW w \in [P -> Int], NEW s \in Seq(P), NEW v,
         v[0] \in Int, \A i \in 1 .. Len(s) : v[i] = w[s[i]] + v[i - 1]
  PROVE  v[Len(s)] = v[0] + SeqSum(w, s)
  <1> DEFINE n == Len(s)
             f == [i \in DOMAIN s |-> w[s[i]]]
             Bad == {i \in 0 .. n : v[i] # v[0] + SumFunctionOnSet(f, 1 .. i)}
  <1>1. n \in Nat /\ DOMAIN s = 1 .. n
    OBVIOUS
  <1>2. \A i \in 1 .. n : s[i] \in P
    OBVIOUS
  <1>3. \A i \in 1 .. n : f[i] \in Int /\ v[i] = f[i] + v[i - 1]
    BY <1>1, <1>2
  <1>4. SeqSum(w, s) = SumFunctionOnSet(f, 1 .. n)
    BY <1>1 DEF SeqSum
  <1> HIDE DEF n, f
  <1>5. Bad = {}
    <2> SUFFICES ASSUME Bad # {} PROVE FALSE
      OBVIOUS
    <2>1. PICK i \in Bad : \A k \in Bad : i <= k
      <3>1. Bad \in SUBSET Nat
        BY <1>1
      <3> HIDE DEF Bad
      <3> QED
        BY <3>1, LeastNatural
    <2>2. i # 0
      <3>1. 1 .. 0 = {}
        OBVIOUS
      <3>2. v[0] = v[0] + SumFunctionOnSet(f, 1 .. 0)
        BY <3>1, SumEmpty
      <3> QED
        BY <2>1, <3>2
    <2>3. i \in 1 .. n /\ i - 1 \in 0 .. n /\ i - 1 \notin Bad
      <3>1. i \in 0 .. n
        OBVIOUS
      <3> HIDE DEF Bad
      <3> QED
        BY <1>1, <2>1, <2>2, <3>1
    <2>4. v[i - 1] = v[0] + SumFunctionOnSet(f, 1 .. (i - 1))
      BY <2>3
    <2> DEFINE S == 1 .. (i - 1)
               X == SumFunctionOnSet(f, S)
    <2>5. IsFiniteSet(S) /\ i \notin S /\ 1 .. i = S \cup {i} /\ S \cup {i} \subseteq 1 .. n
      <3>1. i - 1 \in Nat
        BY <1>1, <2>3
      <3>2. IsFiniteSet(S)
        BY <3>1, FS_Interval
      <3> QED
        BY <1>1, <2>3, <3>2
    <2>10. v[i - 1] = v[0] + X
      BY <2>4
    <2> HIDE DEF S
    <2>6. \A x \in S \cup {i} : f[x] \in Int
      BY <1>3, <2>5
    <2>7. SumFunctionOnSet(f, S \cup {i}) = f[i] + X /\ X \in Int
      BY <2>5, <2>6, SumAdd, SumType
    <2>8. v[i] = f[i] + v[i - 1] /\ f[i] \in Int
      BY <1>3, <2>3
    <2>9. v[i] = v[0] + SumFunctionOnSet(f, 1 .. i)
      <3> HIDE DEF X
      <3>1. v[i] = v[0] + (f[i] + X)
        BY <2>7, <2>8, <2>10
      <3> QED
        BY <2>5, <2>7, <3>1
    <2> QED
      BY <2>1, <2>9
  <1>6. v[n] = v[0] + SumFunctionOnSet(f, 1 .. n)
    <2>1. n \in 0 .. n
      BY <1>1
    <2> QED
      BY <1>5, <2>1
  <1> QED
    BY <1>4, <1>6 DEF n

(* What every step keeps is kept from the first value to the last.         *)
LEMMA StepsStay ==
  ASSUME NEW V, NEW n \in Nat, NEW v, v[0] \in V,
         \A i \in 1 .. n : v[i - 1] \in V => v[i] \in V
  PROVE  \A i \in 0 .. n : v[i] \in V
  <1> DEFINE Bad == {i \in 0 .. n : v[i] \notin V}
  <1> SUFFICES ASSUME Bad # {} PROVE FALSE
    OBVIOUS
  <1>1. PICK i \in Bad : \A k \in Bad : i <= k
    <2>1. Bad \in SUBSET Nat
      OBVIOUS
    <2> HIDE DEF Bad
    <2> QED
      BY <2>1, LeastNatural
  <1>2. i \in 1 .. n /\ i - 1 \in 0 .. n /\ i - 1 \notin Bad
    <2>1. i \in 0 .. n /\ i # 0
      OBVIOUS
    <2> HIDE DEF Bad
    <2> QED
      BY <1>1, <2>1
  <1> QED
    BY <1>2
Concat(V, ss, n) ==
  [x \in (1 .. n) \X V |-> IF x[1] = 1 THEN ss[1] ELSE x[2] \o ss[x[1]]]

(* Concatenating goes through the sequences one by one.                    *)
Flattening(F, ss, n) ==
  /\ F[1] = ss[1] /\ FlattenSeq(ss) = F[n]
  /\ \A i \in 2 .. n : F[i] = F[i - 1] \o ss[i]

LEMMA FlattenSteps ==
  ASSUME NEW P, NEW n \in Nat \ {0}, NEW ss \in [1 .. n -> Seq(P)]
  PROVE  \E F : Flattening(F, ss, n)
  <1> DEFINE V == Seq(P)
             base == <<>>
             step == Concat(V, ss, n)
             Body(h) == [i \in 1 .. n |-> IF i = 1 THEN ss[i] ELSE h[i - 1] \o ss[i]]
             flatten == CHOOSE h : h = Body(h)
  <1>1. base \in V
    OBVIOUS
  <1>2. \A i \in 1 .. n, v \in V :
          /\ step[<<i, v>>] = IF i = 1 THEN ss[1] ELSE v \o ss[i]
          /\ step[<<i, v>>] \in V
    <2> TAKE i \in 1 .. n, v \in V
    <2>1. step[<<i, v>>] = IF i = 1 THEN ss[1] ELSE v \o ss[i]
      <3> HIDE DEF V
      <3> QED
        BY DEF Concat
    <2>2. 1 \in 1 .. n /\ ss[1] \in V /\ ss[i] \in V
      OBVIOUS
    <2>3. v \o ss[i] \in V
      BY <2>2
    <2> HIDE DEF V, step
    <2> QED
      BY <2>1, <2>2, <2>3
  <1> HIDE DEF V, base, step
  <1>3. PICK g \in [SUBSET (1 .. n) -> V] : FoldsLeft(g, base, step, n)
    BY <1>1, <1>2, FoldsLeftExists
  <1>10. \A i \in 1 .. n : g[1 .. i] = step[<<i, g[1 .. (i - 1)]>>]
    <2> TAKE i \in 1 .. n
    <2> DEFINE s == 1 .. i
    <2>1. /\ s \in SUBSET (1 .. n) /\ s # {}
          /\ Greatest(n)[s] = i /\ s \ {i} = 1 .. (i - 1)
      BY GreatestLemma
    <2>2. g[s] = FoldBody(base, Greatest(n), step, g, s)
      BY <1>3, <2>1 DEF FoldsLeft, IsFold
    <2> HIDE DEF s
    <2> QED
      BY <2>1, <2>2 DEF FoldBody, s
  <1> DEFINE F == [i \in 1 .. n |-> g[1 .. i]]
  <1>4. \A i \in 1 .. n : F[i] = IF i = 1 THEN ss[i] ELSE F[i - 1] \o ss[i]
    <2> TAKE i \in 1 .. n
    <2>1. g[1 .. i] = step[<<i, g[1 .. (i - 1)]>>]
      BY <1>10
    <2>2. 1 .. (i - 1) \in SUBSET (1 .. n)
      OBVIOUS
    <2>3. g[1 .. (i - 1)] \in V
      BY <2>2
    <2>4. g[1 .. i] = IF i = 1 THEN ss[1] ELSE g[1 .. (i - 1)] \o ss[i]
      BY <1>2, <2>1, <2>3
    <2>5. i # 1 => F[i - 1] = g[1 .. (i - 1)]
      OBVIOUS
    <2> QED
      BY <2>4, <2>5
  <1>5. F = Body(F)
    <2>1. F = [i \in 1 .. n |-> F[i]]
      OBVIOUS
    <2> HIDE DEF F
    <2> QED
      BY <1>4, <2>1
  <1>6. flatten = Body(flatten)
    <2> HIDE DEF Body, F
    <2> QED
      BY <1>5
  <1>7. FlattenSeq(ss) = flatten[n]
    <2>1. Len(ss) = n /\ n # 0
      OBVIOUS
    <2> QED
      BY <2>1 DEF FlattenSeq
  <1> HIDE DEF flatten
  <1>8. \A i \in 1 .. n : flatten[i] = IF i = 1 THEN ss[i] ELSE flatten[i - 1] \o ss[i]
    BY <1>6
  <1>9. Flattening(flatten, ss, n)
    <2>1. 1 \in 1 .. n /\ \A i \in 2 .. n : i \in 1 .. n /\ i # 1
      OBVIOUS
    <2> QED
      BY <1>7, <1>8, <2>1 DEF Flattening
  <1> QED
    BY <1>9

(* The sum over concatenated sequences is the sum of their sums.           *)
SumsOf(sums, w, P, n, ss) ==
  /\ w \in [P -> Int] /\ n \in Nat /\ ss \in [1 .. n -> Seq(P)]
  /\ \A i \in 1 .. n : sums[i] = SeqSum(w, ss[i])

LEMMA FlattenSum ==
  ASSUME NEW P, NEW w, NEW n, NEW ss, NEW sums, SumsOf(sums, w, P, n, ss)
  PROVE  /\ FlattenSeq(ss) \in Seq(P)
         /\ SeqSum(w, FlattenSeq(ss)) = SumFunctionOnSet(sums, 1 .. n)
  <1> USE DEF SumsOf
  <1>1. CASE n = 0
    <2>1. ss = <<>> /\ 1 .. n = {}
      BY <1>1
    <2>2. FlattenSeq(ss) = <<>>
      BY <2>1 DEF FlattenSeq
    <2>3. <<>> \in Seq(P)
      OBVIOUS
    <2>4. SumFunctionOnSet(sums, 1 .. n) = 0
      BY <2>1, SumEmpty
    <2>5. SeqSum(w, <<>>) = 0
      BY SeqSumShort
    <2> QED
      BY <2>2, <2>3, <2>4, <2>5
  <1>2. CASE n # 0
    <2>1. PICK F : Flattening(F, ss, n)
      BY <1>2, FlattenSteps, SMTT(20)
    <2> DEFINE Upto(i) == 1 .. i
               Right(i) == F[i] \in Seq(P) /\ SeqSum(w, F[i]) = SumFunctionOnSet(sums, Upto(i))
               Bad == {i \in 1 .. n : ~Right(i)}
    <2>2. \A i \in 1 .. n : sums[i] \in Int /\ ss[i] \in Seq(P) /\ sums[i] = SeqSum(w, ss[i])
      BY SeqSumType
    <2>3. Right(1)
      <3>1. Upto(1) = {} \cup {1} /\ 1 \in 1 .. n
        BY <1>2
      <3>2. SumFunctionOnSet(sums, {} \cup {1}) = sums[1] + SumFunctionOnSet(sums, {})
        BY <2>2, <3>1, FS_EmptySet, SumAdd
      <3>3. SumFunctionOnSet(sums, {}) = 0
        BY SumEmpty
      <3>4. F[1] = ss[1]
        BY <2>1 DEF Flattening
      <3>5. sums[1] \in Int /\ ss[1] \in Seq(P) /\ sums[1] = SeqSum(w, ss[1])
        BY <2>2, <3>1
      <3>6. SumFunctionOnSet(sums, Upto(1)) = sums[1] + 0
        BY <3>1, <3>2, <3>3
      <3> HIDE DEF Upto
      <3> QED
        BY <3>4, <3>5, <3>6
    <2>4. ASSUME NEW i \in 2 .. n, Right(i - 1) PROVE Right(i)
      <3> DEFINE S == Upto(i - 1)
                 X == SumFunctionOnSet(sums, S)
      <3>1. IsFiniteSet(S) /\ i \notin S /\ Upto(i) = S \cup {i} /\ S \cup {i} \subseteq 1 .. n
        <4>1. IsFiniteSet(S)
          BY FS_Interval
        <4> QED
          BY <4>1
      <3>2. i \in 1 .. n
        OBVIOUS
      <3>3. F[i] = F[i - 1] \o ss[i] /\ F[i - 1] \in Seq(P)
        BY <2>1, <2>4 DEF Flattening
      <3>4. SeqSum(w, F[i - 1]) = X
        BY <2>4
      <3> HIDE DEF Upto, S, Right
      <3>5. SumFunctionOnSet(sums, S \cup {i}) = sums[i] + X /\ X \in Int
        BY <2>2, <3>1, SumAdd, SumType
      <3>6. F[i] \in Seq(P) /\ SeqSum(w, F[i]) = SeqSum(w, F[i - 1]) + SeqSum(w, ss[i])
        <4> DEFINE a == F[i - 1]
                   b == ss[i]
        <4>1. a \in Seq(P) /\ b \in Seq(P) /\ F[i] = a \o b
          BY <2>2, <3>2, <3>3
        <4> HIDE DEF a, b
        <4>2. a \o b \in Seq(P) /\ SeqSum(w, a \o b) = SeqSum(w, a) + SeqSum(w, b)
          BY <4>1, SeqSumConcat
        <4>3. F[i] \in Seq(P)
          BY <4>1, <4>2
        <4>4. SeqSum(w, F[i]) = SeqSum(w, a) + SeqSum(w, b)
          BY <4>1, <4>2
        <4> QED
          BY <4>3, <4>4 DEF a, b
      <3> HIDE DEF X
      <3>7. SeqSum(w, F[i]) = sums[i] + X
        BY <2>2, <3>2, <3>4, <3>5, <3>6
      <3> QED
        BY <3>1, <3>5, <3>6, <3>7 DEF Right
    <2> HIDE DEF Right
    <2>5. Bad = {}
      <3> SUFFICES ASSUME Bad # {} PROVE FALSE
        OBVIOUS
      <3>1. PICK i \in Bad : \A k \in Bad : i <= k
        <4>1. Bad \in SUBSET Nat
          OBVIOUS
        <4> HIDE DEF Bad
        <4> QED
          BY <4>1, LeastNatural
      <3>2. i \in 1 .. n /\ i # 1
        BY <2>3
      <3>3. i \in 2 .. n /\ i - 1 \in 1 .. n /\ i - 1 \notin Bad
        <4> HIDE DEF Bad
        <4> QED
          BY <3>1, <3>2
      <3>4. Right(i - 1)
        BY <3>3
      <3> QED
        BY <2>4, <3>3, <3>4
    <2>6. Right(n)
      <3>1. n \in 1 .. n
        BY <1>2
      <3> QED
        BY <2>5, <3>1
    <2> QED
      BY <2>1, <2>6 DEF Right, Flattening
  <1> QED
    BY <1>1, <1>2
-----------------------------------------------------------------------------
(* The postings of a message, one after the other.                         *)

Entry == [acct : Account, kind : ChangeType, amount : Int, ref : Ref]

Post(e, p, day) == postDoubleEntry(e, p.acct, p.kind, p.amount, day, p.ref)

PostFrom(V, ps, day, n) == [x \in (1 .. n) \X V |-> Post(x[2], ps[x[1]], day)]

(* L has the tables before each posting and after the last one.            *)
Bookkeeping(L, d, ps, day) ==
  /\ L[0] = d /\ L[Len(ps)] = PostAll(d, ps, day)
  /\ \A i \in 1 .. Len(ps) : L[i] = Post(L[i - 1], ps[i], day)

LEMMA EntryLemma ==
  ASSUME NEW p \in Entry
  PROVE  p.acct \in Account /\ p.kind \in ChangeType /\ p.amount \in Int /\ p.ref \in Ref
  BY DEF Entry

LEMMA PostAllSteps ==
  ASSUME NEW d \in Ledgers, NEW ps \in Seq(Entry), NEW day \in Day
  PROVE  \E L : Bookkeeping(L, d, ps, day)
  <1> DEFINE V == Ledgers
             n == Len(ps)
             step == PostFrom(V, ps, day, n)
  <1>1. n \in Nat /\ DOMAIN ps = 1 .. n /\ \A i \in 1 .. n : ps[i] \in Entry
    OBVIOUS
  <1> HIDE DEF n
  <1>2. \A i \in 1 .. n, v \in V : /\ step[<<i, v>>] = Post(v, ps[i], day)
                                   /\ step[<<i, v>>] \in V
    <2> TAKE i \in 1 .. n, v \in V
    <2>1. step[<<i, v>>] = Post(v, ps[i], day)
      <3> HIDE DEF V
      <3> QED
        BY DEF PostFrom
    <2>2. ps[i] \in Entry
      BY <1>1
    <2> DEFINE p == ps[i]
    <2>3. p.acct \in Account /\ p.kind \in ChangeType /\ p.amount \in Int /\ p.ref \in Ref
      BY <2>2, EntryLemma
    <2> HIDE DEF p
    <2>4. postDoubleEntry(v, p.acct, p.kind, p.amount, day, p.ref) \in V
      BY <2>3, PostDoubleEntryLemma
    <2>5. Post(v, p, day) \in V
      BY <2>4 DEF Post
    <2> HIDE DEF step
    <2> QED
      BY <2>1, <2>5 DEF p
  <1> DEFINE base == d
  <1>3. base \in V
    OBVIOUS
  <1> HIDE DEF V, base, step
  <1>4. PICK g \in [SUBSET (1 .. n) -> V] : FoldsLeft(g, base, step, n)
    BY <1>1, <1>2, <1>3, FoldsLeftExists
  <1> DEFINE Body(h) == [s \in SUBSET (1 .. n) |->
               IF s = {} THEN base
               ELSE Post(h[s \ {CHOOSE m \in s : \A k \in s : m >= k}],
                         ps[CHOOSE m \in s : \A k \in s : m >= k], day)]
  <1>5. g = Body(g)
    <2>1. ASSUME NEW s \in SUBSET (1 .. n)
          PROVE  g[s] = Body(g)[s]
      <3> DEFINE m == Greatest(n)[s]
      <3>1. m = CHOOSE i \in s : \A k \in s : i >= k
        BY DEF Greatest
      <3>2. g[s] = IF s = {} THEN base ELSE step[<<m, g[s \ {m}]>>]
        BY <1>4 DEF FoldsLeft, IsFold, FoldBody
      <3>3. s # {} => m \in 1 .. n /\ s \ {m} \in SUBSET (1 .. n)
        BY <1>1, GreatestLemma
      <3> HIDE DEF m
      <3>4. s # {} => step[<<m, g[s \ {m}]>>] = Post(g[s \ {m}], ps[m], day)
        BY <1>2, <3>3
      <3> QED
        BY <3>1, <3>2, <3>4
    <2>2. g = [s \in SUBSET (1 .. n) |-> g[s]]
      OBVIOUS
    <2>3. Body(g) = [s \in SUBSET (1 .. n) |-> Body(g)[s]]
      OBVIOUS
    <2> HIDE DEF Body
    <2> QED
      BY <2>1, <2>2, <2>3
  <1> DEFINE iter == CHOOSE h : h = Body(h)
  <1>6. iter = Body(iter)
    <2> HIDE DEF Body
    <2> QED
      BY <1>5
  <1>7. PostAll(d, ps, day) = iter[1 .. n]
    BY <1>1 DEF PostAll, FoldLeft, MapThenFoldSet, base, Max, Post
  <1>8. iter[1 .. 0] = base
    <2>1. 1 .. 0 = {} /\ {} \in SUBSET (1 .. n)
      OBVIOUS
    <2>2. Body(iter)[{}] = base
      BY <2>1
    <2> QED
      BY <1>6, <2>1, <2>2
  <1>9. ASSUME NEW i \in 1 .. n
        PROVE  iter[1 .. i] = Post(iter[1 .. (i - 1)], ps[i], day)
    <2> DEFINE s == 1 .. i
               m == CHOOSE x \in s : \A k \in s : x >= k
    <2>1. /\ s \in SUBSET (1 .. n) /\ s # {} /\ m = i /\ s \ {i} = 1 .. (i - 1)
      BY <1>1, GreatestLemma DEF Greatest
    <2>2. Body(iter)[s] = Post(iter[s \ {m}], ps[m], day)
      <3> HIDE DEF iter
      <3> QED
        BY <2>1
    <2> HIDE DEF Body, iter, m, s
    <2>3. iter[s] = Post(iter[1 .. (i - 1)], ps[i], day)
      BY <1>6, <2>1, <2>2
    <2> QED
      BY <2>3 DEF s
  <1> DEFINE L == [i \in 0 .. n |-> iter[1 .. i]]
  <1> HIDE DEF iter
  <1>10. \A i \in 0 .. n : L[i] = iter[1 .. i]
    OBVIOUS
  <1>11. 0 \in 0 .. n /\ n \in 0 .. n /\ \A i \in 1 .. n : i \in 0 .. n /\ i - 1 \in 0 .. n
    BY <1>1
  <1> HIDE DEF L
  <1>12. Bookkeeping(L, d, ps, day)
    BY <1>7, <1>8, <1>9, <1>10, <1>11 DEF base, n, Bookkeeping
  <1> QED
    BY <1>12

(* By how much a posting moves account b, if its reference is in refs.     *)
Moves(b, refs) ==
  [p \in Entry |-> IF p.ref \notin refs THEN 0
                   ELSE IF p.acct = b THEN p.amount
                   ELSE IF Mirror(p.acct) = b THEN -p.amount
                   ELSE 0]

LEMMA MovesType ==
  ASSUME NEW b, NEW refs
  PROVE  Moves(b, refs) \in [Entry -> Int]
  <1>1. \A p \in Entry : p.amount \in Int /\ -p.amount \in Int
    BY EntryLemma
  <1> QED
    BY <1>1 DEF Moves

MirroredLedgers == {d \in Ledgers : \A b \in Account : d[Mirror(b)].balance = -d[b].balance}

(* One posting.                                                            *)
LEMMA PostLemma ==
  ASSUME NEW d \in MirroredLedgers, NEW p \in Entry, NEW day \in Day
  PROVE  LET e == Post(d, p, day)
         IN  /\ e \in MirroredLedgers
             /\ \A b \in Account : e[b].balance = Moves(b, Ref)[p] + d[b].balance
             /\ \A b \in Account, o \in Ref :
                  Booked(e[b].log, o) = Moves(b, {o})[p] + Booked(d[b].log, o)
  <1> DEFINE e == Post(d, p, day)
             a == p.acct
             kind == p.kind
             amount == p.amount
             ref == p.ref
  <1>1. a \in Account /\ kind \in ChangeType /\ amount \in Int /\ ref \in Ref
    BY EntryLemma
  <1>2. d \in Ledgers /\ \A b \in Account : d[Mirror(b)].balance = -d[b].balance
    BY DEF MirroredLedgers
  <1>3. \A b \in Account : d[b] \in AccountRow /\ d[b].balance \in Int
    BY <1>2 DEF Ledgers, AccountRow
  <1>4. \A b, refs : Moves(b, refs)[p] =
          IF ref \notin refs THEN 0 ELSE IF a = b THEN amount
          ELSE IF Mirror(a) = b THEN -amount ELSE 0
    BY DEF Moves
  <1>5. e = postDoubleEntry(d, a, kind, amount, day, ref)
    BY DEF Post
  <1> HIDE DEF e, a, kind, amount, ref
  <1>6. /\ e \in Ledgers
        /\ e[a] = postEntryRow(d[a], kind, amount, day, ref)
        /\ e[Mirror(a)] = postEntryRow(d[Mirror(a)], kind, -amount, day, ref)
        /\ \A b \in Account : b # a /\ b # Mirror(a) => e[b] = d[b]
    BY <1>1, <1>2, <1>5, PostDoubleEntryLemma
  <1>7. Mirror(a) \in Account /\ Mirror(a) # a /\ -amount \in Int
    BY <1>1, MirrorLemma
  <1>8. /\ e[a].balance = d[a].balance + amount
        /\ e[Mirror(a)].balance = d[Mirror(a)].balance + (-amount)
    BY <1>1, <1>3, <1>6, <1>7, PostEntryRowLemma, SMTT(20)
  <1>9. \A b \in Account : e[b].balance = Moves(b, Ref)[p] + d[b].balance
    BY <1>1, <1>3, <1>4, <1>6, <1>7, <1>8
  <1>10. ASSUME NEW b \in Account, NEW o \in Ref
         PROVE  Booked(e[b].log, o) = Moves(b, {o})[p] + Booked(d[b].log, o)
    <2>1. Booked(e[b].log, o) =
            IF o = ref /\ b = a THEN amount + Booked(d[b].log, o)
            ELSE IF o = ref /\ b = Mirror(a) THEN -amount + Booked(d[b].log, o)
            ELSE Booked(d[b].log, o)
      <3>1. Booked(postDoubleEntry(d, a, kind, amount, day, ref)[b].log, o) =
              IF o = ref /\ b = a THEN amount + Booked(d[b].log, o)
              ELSE IF o = ref /\ b = Mirror(a) THEN -amount + Booked(d[b].log, o)
              ELSE Booked(d[b].log, o)
        BY <1>1, <1>2, PostDoubleEntryBooked
      <3> QED
        BY <1>5, <3>1
    <2>2. Booked(d[b].log, o) \in Int
      BY <1>3, RowTypeLemma, BookedLemma
    <2> QED
      BY <1>1, <1>4, <1>7, <2>1, <2>2
  <1>11. ASSUME NEW b \in Account
         PROVE  e[Mirror(b)].balance = -e[b].balance
    <2>1. Mirror(b) \in Account /\ Mirror(Mirror(b)) = b
      BY MirrorLemma
    <2>2. Mirror(Mirror(a)) = a
      BY <1>1, MirrorLemma
    <2>3. (a = Mirror(b) <=> Mirror(a) = b) /\ (Mirror(a) = Mirror(b) <=> a = b)
      BY <2>1, <2>2
    <2>4. Moves(Mirror(b), Ref)[p] = -Moves(b, Ref)[p] /\ Moves(b, Ref)[p] \in Int
      BY <1>1, <1>4, <1>7, <2>3
    <2>5. /\ e[Mirror(b)].balance = Moves(Mirror(b), Ref)[p] + d[Mirror(b)].balance
          /\ e[b].balance = Moves(b, Ref)[p] + d[b].balance
          /\ d[Mirror(b)].balance = -d[b].balance /\ d[b].balance \in Int
      BY <1>2, <1>3, <1>9, <2>1
    <2> QED
      BY <2>4, <2>5
  <1>12. e \in MirroredLedgers
    BY <1>6, <1>11 DEF MirroredLedgers
  <1> QED
    BY <1>9, <1>10, <1>12 DEF e

(* All postings of a message: each account moves by what the postings sum  *)
(* up to, and so does what is booked for a reference.                      *)
LEMMA PostAllLemma ==
  ASSUME NEW d \in MirroredLedgers, NEW ps \in Seq(Entry), NEW day \in Day
  PROVE  LET e == PostAll(d, ps, day)
         IN  /\ e \in MirroredLedgers
             /\ \A b \in Account : e[b].balance = d[b].balance + SeqSum(Moves(b, Ref), ps)
             /\ \A b \in Account, o \in Ref :
                  Booked(e[b].log, o) = Booked(d[b].log, o) + SeqSum(Moves(b, {o}), ps)
  <1> DEFINE n == Len(ps)
             e == PostAll(d, ps, day)
  <1>1. n \in Nat /\ \A i \in 1 .. n : ps[i] \in Entry
    OBVIOUS
  <1>2. PICK L : Bookkeeping(L, d, ps, day)
    BY PostAllSteps DEF MirroredLedgers
  <1>3. /\ L[0] = d /\ L[n] = e
        /\ \A i \in 1 .. n : L[i] = Post(L[i - 1], ps[i], day)
    BY <1>2 DEF Bookkeeping
  <1> HIDE DEF n, e
  <1>4. \A i \in 0 .. n : L[i] \in MirroredLedgers
    <2>1. ASSUME NEW i \in 1 .. n, L[i - 1] \in MirroredLedgers
          PROVE  L[i] \in MirroredLedgers
      <3>1. Post(L[i - 1], ps[i], day) \in MirroredLedgers
        BY <1>1, <2>1, PostLemma
      <3> QED
        BY <1>3, <3>1
    <2> QED
      BY <1>1, <1>3, <2>1, StepsStay
  <1>5. 0 \in 0 .. n /\ n \in 0 .. n /\ \A i \in 1 .. n : i \in 0 .. n /\ i - 1 \in 0 .. n
    BY <1>1
  <1>6. \A x \in MirroredLedgers, b \in Account : x[b] \in AccountRow
    BY DEF MirroredLedgers, Ledgers
  <1>7. ASSUME NEW b \in Account
        PROVE  e[b].balance = d[b].balance + SeqSum(Moves(b, Ref), ps)
    <2> DEFINE w == Moves(b, Ref)
               v == [i \in 0 .. n |-> L[i][b].balance]
    <2>1. \A i \in 0 .. n : v[i] = L[i][b].balance
      OBVIOUS
    <2>2. v[0] \in Int
      BY <1>4, <1>5, <1>6, <2>1, RowTypeLemma
    <2>3. \A i \in 1 .. n : v[i] = w[ps[i]] + v[i - 1]
      <3> TAKE i \in 1 .. n
      <3>1. ps[i] \in Entry /\ L[i - 1] \in MirroredLedgers /\ L[i] = Post(L[i - 1], ps[i], day)
        BY <1>1, <1>3, <1>4, <1>5
      <3>2. L[i][b].balance = Moves(b, Ref)[ps[i]] + L[i - 1][b].balance
        BY <3>1, PostLemma
      <3> QED
        BY <1>5, <2>1, <3>2
    <2>4. w \in [Entry -> Int]
      BY MovesType
    <2> HIDE DEF w, v
    <2>5. v[n] = v[0] + SeqSum(w, ps)
      BY <2>2, <2>3, <2>4, SeqSumSteps DEF n
    <2> QED
      BY <1>3, <1>5, <2>1, <2>5 DEF w
  <1>8. ASSUME NEW b \in Account, NEW o \in Ref
        PROVE  Booked(e[b].log, o) = Booked(d[b].log, o) + SeqSum(Moves(b, {o}), ps)
    <2> DEFINE w == Moves(b, {o})
               v == [i \in 0 .. n |-> Booked(L[i][b].log, o)]
    <2>1. \A i \in 0 .. n : v[i] = Booked(L[i][b].log, o)
      OBVIOUS
    <2>2. v[0] \in Int
      BY <1>4, <1>5, <1>6, <2>1, RowTypeLemma, BookedLemma
    <2>3. \A i \in 1 .. n : v[i] = w[ps[i]] + v[i - 1]
      <3> TAKE i \in 1 .. n
      <3>1. ps[i] \in Entry /\ L[i - 1] \in MirroredLedgers /\ L[i] = Post(L[i - 1], ps[i], day)
        BY <1>1, <1>3, <1>4, <1>5
      <3>2. Booked(L[i][b].log, o) = Moves(b, {o})[ps[i]] + Booked(L[i - 1][b].log, o)
        BY <3>1, PostLemma
      <3> QED
        BY <1>5, <2>1, <3>2
    <2>4. w \in [Entry -> Int]
      BY MovesType
    <2> HIDE DEF w, v
    <2>5. v[n] = v[0] + SeqSum(w, ps)
      BY <2>2, <2>3, <2>4, SeqSumSteps DEF n
    <2>6. v[0] = Booked(L[0][b].log, o) /\ v[n] = Booked(L[n][b].log, o)
      BY <1>5, <2>1
    <2>7. L[0] = d /\ L[n] = e
      BY <1>3
    <2>8. v[0] = Booked(d[b].log, o) /\ v[n] = Booked(e[b].log, o)
      BY <2>6, <2>7
    <2> QED
      BY <2>5, <2>8 DEF w
  <1> QED
    BY <1>3, <1>4, <1>5, <1>7, <1>8 DEF e
-----------------------------------------------------------------------------
(* What an order moves.                                                    *)

(* Two different teams.                                                    *)
Pair(x, y) == x # y /\ x # NoTeam /\ y # NoTeam

Turned(amount, reverse) == IF reverse THEN amount ELSE -amount

(* ps is made of entries that move x's PAYABLE towards y by amount, or,    *)
(* unless hit, not at all.                                                 *)
Move(ps, x, y, refs, hit, amount) ==
  /\ ps \in Seq(Entry)
  /\ SeqSum(Moves(<<x, y, "PAYABLE">>, refs), ps) = IF hit THEN amount ELSE 0

(* The posting of a debt moves the debtor's PAYABLE towards the creditor.  *)
OwesMoves(debtor, creditor, kind, amount, reverse, ref, x, y, refs) ==
  Move(Owes(debtor, creditor, kind, amount, reverse, ref), x, y, refs,
       ref \in refs /\ debtor = x /\ creditor = y, Turned(Charge(amount), reverse))

(* A debt is one posting on the debtor's PAYABLE or on its mirror; a row   *)
(* that is skipped charges nothing to anybody.                             *)
LEMMA OwesLemma ==
  ASSUME NEW debtor \in TeamId, NEW creditor \in TeamId, NEW kind \in ChangeType,
         NEW amount \in Int, NEW reverse \in BOOLEAN, NEW ref \in Ref,
         NEW x, NEW y, Pair(x, y), NEW refs
  PROVE  OwesMoves(debtor, creditor, kind, amount, reverse, ref, x, y, refs)
  <1> DEFINE a == <<x, y, "PAYABLE">>
             w == Moves(a, refs)
             s == Owes(debtor, creditor, kind, amount, reverse, ref)
             p == IF reverse THEN Posting(debtor, creditor, "PAYABLE", kind, amount, ref)
                  ELSE Posting(creditor, debtor, "RECEIVABLE", kind, amount, ref)
  <1>1. w \in [Entry -> Int]
    BY MovesType
  <1>2. CASE Degenerate(debtor, creditor, amount)
    <2>1. s = <<>>
      BY <1>2 DEF Owes
    <2>2. s \in Seq(Entry) /\ SeqSum(w, s) = 0
      <3> HIDE DEF w, s
      <3>1. SeqSum(w, <<>>) = 0
        BY <1>1, SeqSumShort
      <3> QED
        BY <2>1, <3>1
    <2>3. debtor = x /\ creditor = y => Turned(Charge(amount), reverse) = 0
      <3> HIDE DEF a, w, s, p
      <3>1. SUFFICES ASSUME debtor = x, creditor = y
                     PROVE  Turned(Charge(amount), reverse) = 0
        OBVIOUS
      <3>2. ~(amount > 0)
        BY <1>2, <3>1 DEF Degenerate, Pair
      <3>3. Charge(amount) = 0
        BY <3>2 DEF Charge
      <3>4. CASE reverse
        BY <3>3, <3>4 DEF Turned
      <3>5. CASE ~reverse
        <4>1. Turned(Charge(amount), reverse) = -Charge(amount)
          BY <3>5 DEF Turned
        <4> QED
          BY <3>3, <4>1
      <3> QED
        BY <3>4, <3>5
    <2> QED
      BY <2>2, <2>3 DEF OwesMoves, Move
  <1>3. CASE ~Degenerate(debtor, creditor, amount)
    <2>1. s = <<p>>
      BY <1>3 DEF Owes
    <2>2. debtor \in Team /\ creditor \in Team /\ amount > 0
      BY <1>3 DEF Degenerate, TeamId
    <2>3. p \in Entry
      BY <2>2 DEF Posting, Entry, Account, BalanceType
    <2>4. /\ p.ref = ref /\ p.amount = amount
          /\ p.acct = IF reverse THEN <<debtor, creditor, "PAYABLE">>
                      ELSE <<creditor, debtor, "RECEIVABLE">>
          /\ Mirror(p.acct) = IF reverse THEN <<creditor, debtor, "RECEIVABLE">>
                              ELSE <<debtor, creditor, "PAYABLE">>
      BY DEF Posting, Mirror, oppositeBalance
    <2> HIDE DEF p
    <2>5. w[p] = IF ref \notin refs THEN 0 ELSE IF p.acct = a THEN amount
                 ELSE IF Mirror(p.acct) = a THEN -amount ELSE 0
      BY <2>3, <2>4 DEF Moves
    <2>6. w[p] = IF ref \in refs /\ debtor = x /\ creditor = y
                 THEN Turned(Charge(amount), reverse) ELSE 0
      <3>1. Charge(amount) = amount
        BY <2>2 DEF Charge
      <3> HIDE DEF w
      <3> QED
        BY <2>4, <2>5, <3>1 DEF Turned
    <2> HIDE DEF w, s
    <2>7. s \in Seq(Entry) /\ SeqSum(w, s) = w[p]
      <3>1. SeqSum(w, <<p>>) = w[p]
        BY <1>1, <2>3, SeqSumShort
      <3> QED
        BY <2>1, <2>3, <3>1
    <2> QED
      BY <2>6, <2>7 DEF w, s, OwesMoves, Move
  <1> QED
    BY <1>2, <1>3

(* The postings ss of n rows move what the rows in T say.                  *)
RowsMove(w, n, ss, T, moved) ==
  /\ n \in Nat /\ ss \in [1 .. n -> Seq(Entry)]
  /\ T \subseteq 1 .. n
  /\ \A i \in T : moved[i] \in Int /\ SeqSum(w, ss[i]) = moved[i]
  /\ \A i \in (1 .. n) \ T : SeqSum(w, ss[i]) = 0

LEMMA RowsLemma ==
  ASSUME NEW w \in [Entry -> Int], NEW n, NEW ss, NEW T, NEW moved,
         RowsMove(w, n, ss, T, moved)
  PROVE  /\ FlattenSeq(ss) \in Seq(Entry)
         /\ SeqSum(w, FlattenSeq(ss)) = SumFunctionOnSet(moved, T)
  <1> DEFINE sums == [i \in 1 .. n |-> SeqSum(w, ss[i])]
             S == 1 .. n
  <1>1. /\ \A i \in S : sums[i] = SeqSum(w, ss[i])
        /\ \A i \in T : moved[i] \in Int /\ sums[i] = moved[i]
        /\ \A i \in S \ T : sums[i] = 0
        /\ n \in Nat /\ ss \in [S -> Seq(Entry)] /\ T \subseteq S
    BY DEF RowsMove
  <1>2. IsFiniteSet(S)
    BY <1>1, FS_Interval
  <1> HIDE DEF sums
  <1>3. FlattenSeq(ss) \in Seq(Entry) /\ SeqSum(w, FlattenSeq(ss)) = SumFunctionOnSet(sums, S)
    <2>1. SumsOf(sums, w, Entry, n, ss)
      BY <1>1 DEF SumsOf
    <2> QED
      BY <2>1, FlattenSum
  <1> HIDE DEF S
  <1>4. SumFunctionOnSet(sums, S) = SumFunctionOnSet(moved, T)
    BY <1>1, <1>2, SumPart
  <1> QED
    BY <1>3, <1>4

LEMMA TurnedSum ==
  ASSUME NEW fun, NEW T, IsFiniteSet(T), \A i \in T : fun[i] \in Int,
         NEW reverse \in BOOLEAN
  PROVE  /\ SumFunctionOnSet(fun, T) \in Int
         /\ SumFunctionOnSet([i \in T |-> Turned(fun[i], reverse)], T)
              = Turned(SumFunctionOnSet(fun, T), reverse)
  <1> DEFINE turned == [i \in T |-> Turned(fun[i], reverse)]
  <1>1. SumFunctionOnSet(fun, T) \in Int
    BY SumType
  <1>2. CASE reverse
    <2>1. \A i \in T : turned[i] = fun[i]
      BY <1>2 DEF Turned
    <2> HIDE DEF turned
    <2>2. SumFunctionOnSet(turned, T) = SumFunctionOnSet(fun, T)
      BY <2>1, SumSame
    <2>3. Turned(SumFunctionOnSet(fun, T), reverse) = SumFunctionOnSet(fun, T)
      BY <1>2 DEF Turned
    <2> QED
      BY <1>1, <2>2, <2>3 DEF turned
  <1>3. CASE ~reverse
    <2>1. \A i \in T : turned[i] = -fun[i]
      BY <1>3 DEF Turned
    <2> HIDE DEF turned
    <2>2. SumFunctionOnSet(turned, T) = -SumFunctionOnSet(fun, T)
      BY <2>1, SumNegate
    <2>3. Turned(SumFunctionOnSet(fun, T), reverse) = -SumFunctionOnSet(fun, T)
      BY <1>3 DEF Turned
    <2> QED
      BY <1>1, <2>2, <2>3 DEF turned
  <1> QED
    BY <1>2, <1>3

LEMMA TurnedLemma ==
  ASSUME NEW a \in Int, NEW b \in Int, NEW reverse \in BOOLEAN
  PROVE  /\ Turned(a, reverse) \in Int
         /\ Turned(0, reverse) = 0
         /\ Turned(a, reverse) + Turned(b, reverse) = Turned(a + b, reverse)
  <1>1. CASE reverse
    <2>1. \A c \in Int : Turned(c, reverse) = c
      BY <1>1 DEF Turned
    <2>2. Turned(a, reverse) = a /\ Turned(0, reverse) = 0 /\ Turned(a + b, reverse) = a + b
      BY <2>1
    <2>3. Turned(b, reverse) = b
      BY <2>1
    <2> QED
      BY <2>2, <2>3
  <1>2. CASE ~reverse
    <2>1. \A c \in Int : Turned(c, reverse) = -c
      BY <1>2 DEF Turned
    <2>2. Turned(a, reverse) = -a /\ Turned(a + b, reverse) = -(a + b)
      BY <2>1
    <2>3. Turned(b, reverse) = -b /\ Turned(0, reverse) = 0
      BY <2>1
    <2> QED
      BY <2>2, <2>3
  <1> QED
    BY <1>1, <1>2

LEMMA ChargeLemma == ASSUME NEW n \in Int PROVE Charge(n) \in Int
  BY DEF Charge

(* ss has, for each of the n items of a row, the posting of its amount if  *)
(* it is one of S; totals has what the amounts charge.                     *)
ItemPostings(n, ss, S, teams, amounts, totals, debtor, kind, reverse, ref) ==
  /\ n \in Nat /\ S \subseteq 1 .. n /\ ss = [i \in 1 .. n |-> ss[i]]
  /\ \A i \in 1 .. n : /\ teams[i] \in TeamId /\ amounts[i] \in Int
                       /\ totals[i] = Charge(amounts[i])
  /\ \A i \in S : ss[i] = Owes(debtor, teams[i], kind, amounts[i], reverse, ref)
  /\ \A i \in (1 .. n) \ S : ss[i] = <<>>

(* What the items of a row move together.                                  *)
LEMMA ItemsLemma ==
  ASSUME NEW n, NEW ss, NEW S, NEW teams, NEW amounts, NEW totals,
         NEW debtor \in TeamId, NEW kind \in ChangeType, NEW reverse \in BOOLEAN,
         NEW ref \in Ref,
         ItemPostings(n, ss, S, teams, amounts, totals, debtor, kind, reverse, ref),
         NEW x, NEW y, Pair(x, y), NEW refs
  PROVE  LET sum == SumFunctionOnSet(totals, {i \in S : teams[i] = y})
         IN  /\ sum \in Int
             /\ Move(FlattenSeq(ss), x, y, refs, ref \in refs /\ debtor = x,
                     Turned(sum, reverse))
  <1> DEFINE w == Moves(<<x, y, "PAYABLE">>, refs)
             hit == ref \in refs /\ debtor = x
             C == {i \in S : teams[i] = y}
             T == IF hit THEN C ELSE {}
             moved == [i \in T |-> Turned(totals[i], reverse)]
             sum == SumFunctionOnSet(totals, C)
  <1>1. /\ n \in Nat /\ S \subseteq 1 .. n /\ ss = [i \in 1 .. n |-> ss[i]]
        /\ \A i \in 1 .. n : /\ teams[i] \in TeamId /\ amounts[i] \in Int
                             /\ totals[i] = Charge(amounts[i])
        /\ \A i \in S : ss[i] = Owes(debtor, teams[i], kind, amounts[i], reverse, ref)
        /\ \A i \in (1 .. n) \ S : ss[i] = <<>>
    BY DEF ItemPostings
  <1>2. w \in [Entry -> Int]
    BY MovesType
  <1>3. \A i \in 1 .. n : totals[i] \in Int
    BY <1>1, ChargeLemma
  <1>4. /\ C \subseteq 1 .. n /\ T \subseteq C /\ IsFiniteSet(C) /\ IsFiniteSet(T)
        /\ \A i \in C : totals[i] \in Int
    <2>1. IsFiniteSet(1 .. n)
      BY <1>1, FS_Interval
    <2>2. C \subseteq 1 .. n /\ T \subseteq C
      BY <1>1
    <2> HIDE DEF C, T
    <2> QED
      BY <1>3, <2>1, <2>2, FS_Subset
  <1>5. sum \in Int
    <2> HIDE DEF C
    <2> QED
      BY <1>4, SumType
  <1>6. \A i \in T : moved[i] = Turned(totals[i], reverse) /\ moved[i] \in Int
    <2>1. \A i \in T : moved[i] = Turned(totals[i], reverse) /\ totals[i] \in Int
      BY <1>4
    <2> HIDE DEF T, moved
    <2> QED
      BY <2>1, TurnedLemma
  <1>7. ASSUME NEW i \in 1 .. n
        PROVE  /\ ss[i] \in Seq(Entry)
               /\ i \in T => SeqSum(w, ss[i]) = moved[i]
               /\ i \notin T => SeqSum(w, ss[i]) = 0
    <2>1. CASE i \in S
      <3> DEFINE c == teams[i]
                 k == amounts[i]
                 s == Owes(debtor, c, kind, k, reverse, ref)
      <3>1. c \in TeamId /\ k \in Int /\ totals[i] = Charge(k) /\ ss[i] = s
        BY <1>1, <2>1
      <3>2. i \in T <=> hit /\ c = y
        BY <2>1
      <3> HIDE DEF c, k
      <3>3. OwesMoves(debtor, c, kind, k, reverse, ref, x, y, refs)
        BY <3>1, OwesLemma, Zenon
      <3>4. /\ s \in Seq(Entry)
            /\ SeqSum(w, s) = IF hit /\ c = y THEN Turned(Charge(k), reverse) ELSE 0
        BY <3>3 DEF OwesMoves, Move
      <3>5. i \in T => moved[i] = Turned(Charge(k), reverse)
        BY <1>6, <3>1
      <3> HIDE DEF s, T, moved, w, hit
      <3> QED
        BY <3>1, <3>2, <3>4, <3>5
    <2>2. CASE i \notin S
      <3>1. ss[i] = <<>> /\ i \notin T
        BY <1>1, <2>2
      <3>2. <<>> \in Seq(Entry) /\ SeqSum(w, <<>>) = 0
        BY <1>2, SeqSumShort
      <3> HIDE DEF T, w
      <3> QED
        BY <3>1, <3>2
    <2> QED
      BY <2>1, <2>2
  <1>8. RowsMove(w, n, ss, T, moved)
    <2>1. ss \in [1 .. n -> Seq(Entry)]
      BY <1>1, <1>7
    <2> HIDE DEF T, moved, w
    <2> QED
      BY <1>1, <1>4, <1>6, <1>7, <2>1 DEF RowsMove
  <1>9. /\ FlattenSeq(ss) \in Seq(Entry)
        /\ SeqSum(w, FlattenSeq(ss)) = SumFunctionOnSet(moved, T)
    <2> HIDE DEF T, moved, w
    <2> QED
      BY <1>2, <1>8, RowsLemma
  <1>10. SumFunctionOnSet(moved, T) = IF hit THEN Turned(sum, reverse) ELSE 0
    <2>1. CASE hit
      <3>1. T = C
        BY <2>1
      <3>2. moved = [i \in C |-> Turned(totals[i], reverse)]
        BY <3>1
      <3> HIDE DEF moved, C, T, hit
      <3> QED
        BY <1>4, <2>1, <3>1, <3>2, TurnedSum
    <2>2. CASE ~hit
      <3>1. T = {}
        BY <2>2
      <3> HIDE DEF moved, T
      <3>2. SumFunctionOnSet(moved, T) = 0
        BY <3>1, SumEmpty
      <3> HIDE DEF hit
      <3> QED
        BY <2>2, <3>2
    <2> QED
      BY <2>1, <2>2
  <1> HIDE DEF moved, T, C
  <1> QED
    BY <1>5, <1>9, <1>10 DEF Move, C

(* An order's postings move its team's PAYABLE by the order's debt.        *)
LEMMA OrderLemma ==
  ASSUME NEW o \in DOMAIN OrderRow, NEW reverse \in BOOLEAN, NEW x, NEW y, Pair(x, y), NEW refs
  PROVE  /\ OrderDebt(o, y) \in Int
         /\ Move(postOrderBalances(o, reverse), x, y, refs,
                 o \in refs /\ OrderRow[o].team = x, Turned(OrderDebt(o, y), reverse))
  <1> DEFINE row == OrderRow[o]
             items == row.items
             n == Len(items)
             w == Moves(<<x, y, "PAYABLE">>, refs)
             S == CrossItems(o)
             teams == [i \in DOMAIN items |-> items[i].productTeam]
             amounts == [i \in DOMAIN items |-> items[i].total]
             totals == [i \in DOMAIN items |-> Charge(items[i].total)]
             cross == {i \in CrossItems(o) : items[i].productTeam = y}
             ss == [i \in DOMAIN items |->
                      IF i \in CrossItems(o)
                      THEN Owes(row.team, items[i].productTeam, "PRODUCT_FEE",
                                items[i].total, reverse, o)
                      ELSE <<>>]
             fee == IF row.warehouse = y THEN Charge(row.fee) ELSE 0
             wh == Owes(row.team, row.warehouse, "WAREHOUSE_FEE", row.fee, reverse, o)
             C == SumFunctionOnSet(totals, cross)
             hit == o \in refs /\ row.team = x
             cs == FlattenSeq(ss)
  <1>1. /\ row.team \in TeamId /\ row.warehouse \in TeamId /\ row.fee \in Int
        /\ items \in Seq(OrderItem) /\ o \in Ref
        /\ "PRODUCT_FEE" \in ChangeType /\ "WAREHOUSE_FEE" \in ChangeType
    BY RowAssumption DEF ChangeType
  <1>2. n \in Nat /\ DOMAIN items = 1 .. n /\ S \subseteq 1 .. n
    BY <1>1 DEF CrossItems
  <1>3. \A i \in 1 .. n : items[i].productTeam \in TeamId /\ items[i].total \in Int
    <2>1. \A i \in 1 .. n : items[i] \in OrderItem
      BY <1>1
    <2> HIDE DEF items
    <2> QED
      BY <2>1 DEF OrderItem
  <1>4. ItemPostings(n, ss, S, teams, amounts, totals, row.team, "PRODUCT_FEE", reverse, o)
    <2>1. \A i \in 1 .. n : /\ teams[i] = items[i].productTeam /\ amounts[i] = items[i].total
                            /\ totals[i] = Charge(items[i].total)
      BY <1>2
    <2>2. /\ \A i \in S : ss[i] = Owes(row.team, items[i].productTeam, "PRODUCT_FEE",
                                       items[i].total, reverse, o)
          /\ \A i \in (1 .. n) \ S : ss[i] = <<>>
          /\ ss = [i \in 1 .. n |-> ss[i]]
      BY <1>2
    <2> HIDE DEF ss, S, teams, amounts, totals, n, items, row
    <2> QED
      BY <1>2, <1>3, <2>1, <2>2 DEF ItemPostings
  <1>5. cross = {i \in S : teams[i] = y}
    BY <1>2
  <1>6. C \in Int /\ Move(cs, x, y, refs, hit, Turned(C, reverse))
    <2> DEFINE t == row.team
    <2>1. t \in TeamId
      BY <1>1
    <2>2. hit <=> o \in refs /\ t = x
      OBVIOUS
    <2>3. ItemPostings(n, ss, S, teams, amounts, totals, t, "PRODUCT_FEE", reverse, o)
      BY <1>4
    <2> HIDE DEF n, ss, S, teams, amounts, totals, t, cross
    <2>4. LET sum == SumFunctionOnSet(totals, {i \in S : teams[i] = y})
          IN  sum \in Int /\ Move(cs, x, y, refs, o \in refs /\ t = x, Turned(sum, reverse))
      BY <1>1, <2>1, <2>3, ItemsLemma
    <2> QED
      BY <1>5, <2>4 DEF t
  <1>7. cs \in Seq(Entry) /\ SeqSum(w, cs) = IF hit THEN Turned(C, reverse) ELSE 0
    <2> HIDE DEF cs, hit, C
    <2> QED
      BY <1>6 DEF Move
  <1>8. /\ wh \in Seq(Entry)
        /\ SeqSum(w, wh) = IF hit THEN Turned(fee, reverse) ELSE 0
    <2> DEFINE t == row.team
               c == row.warehouse
               k == row.fee
    <2>1. t \in TeamId /\ c \in TeamId /\ k \in Int
      BY <1>1
    <2>2. o \in Ref /\ "WAREHOUSE_FEE" \in ChangeType
      BY <1>1
    <2> HIDE DEF row, t, c, k
    <2>3. OwesMoves(t, c, "WAREHOUSE_FEE", k, reverse, o, x, y, refs)
      BY <2>1, <2>2, OwesLemma, Zenon
    <2>4. /\ wh \in Seq(Entry)
          /\ SeqSum(w, wh) = IF o \in refs /\ row.team = x /\ row.warehouse = y
                             THEN Turned(Charge(row.fee), reverse) ELSE 0
      BY <2>3 DEF t, c, k, OwesMoves, Move
    <2>5. Turned(0, reverse) = 0
      BY TurnedLemma
    <2> HIDE DEF w, wh
    <2> QED
      BY <2>4, <2>5
  <1>9. postOrderBalances(o, reverse) = cs \o wh
    BY DEF postOrderBalances, postCrossOrderBalance, postWarehouseFeeBalance
  <1>10. row.team = x => OrderDebt(o, y) = C + fee
    BY DEF OrderDebt, Pair
  <1>11. fee \in Int /\ OrderDebt(o, y) \in Int
    <2>1. fee \in Int
      BY <1>1, ChargeLemma
    <2>2. OrderDebt(o, y) = IF y = row.team THEN 0 ELSE C + fee
      BY DEF OrderDebt
    <2> HIDE DEF C, fee, row
    <2> QED
      BY <1>6, <2>1, <2>2
  <1>12. cs \o wh \in Seq(Entry) /\ SeqSum(w, cs \o wh) = SeqSum(w, cs) + SeqSum(w, wh)
    <2> DEFINE P == Entry
    <2>1. w \in [P -> Int] /\ cs \in Seq(P) /\ wh \in Seq(P)
      BY <1>7, <1>8, MovesType
    <2> HIDE DEF P, w, cs, wh
    <2>2. cs \o wh \in Seq(P) /\ SeqSum(w, cs \o wh) = SeqSum(w, cs) + SeqSum(w, wh)
      BY <2>1, SeqSumConcat
    <2> QED
      BY <2>2 DEF P
  <1> HIDE DEF w, cs, wh, C, fee
  <1>13. Turned(C, reverse) + Turned(fee, reverse) = Turned(C + fee, reverse)
    BY <1>6, <1>11, TurnedLemma
  <1>14. SeqSum(w, cs \o wh) = IF hit THEN Turned(OrderDebt(o, y), reverse) ELSE 0
    <2>1. hit => row.team = x
      OBVIOUS
    <2> HIDE DEF hit, row
    <2>2. CASE hit
      BY <1>7, <1>8, <1>10, <1>12, <1>13, <2>1, <2>2
    <2>3. CASE ~hit
      BY <1>7, <1>8, <1>12, <2>3
    <2> QED
      BY <2>2, <2>3
  <1>15. Move(cs \o wh, x, y, refs, hit, Turned(OrderDebt(o, y), reverse))
    <2> HIDE DEF hit
    <2> QED
      BY <1>12, <1>14 DEF Move, w
  <1> QED
    BY <1>9, <1>11, <1>15
=============================================================================
