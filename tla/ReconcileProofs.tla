-------------------------- MODULE ReconcileProofs --------------------------
(***************************************************************************)
(* Theorems about Reconcile, for every set of callers, teams and debts,    *)
(* every number of postings, failures and invoice changes, and every       *)
(* interleaving of them.                                                   *)
(***************************************************************************)
EXTENDS Reconcile, LedgerOpsProofs
-----------------------------------------------------------------------------
(* The inductive invariant.                                                *)

Row == [team : Team, forTeam : Team, delta : Int \ {0}]

Run == [todo : SUBSET Team, calling : BOOLEAN, team : Team \cup {NoTeam},
        rows : SUBSET Row, owed : SUBSET Team, drift : [Team -> Int]]

Types == db \in Ledgers /\ unpaid \in [Debt -> Nat] /\ run \in [Caller -> Run]

(* A call works on a team still to do, and on debts of that team it read.  *)
CallOK(r) ==
  /\ IF r.calling THEN r.team \in r.todo ELSE r.rows = {} /\ r.owed = {}
  /\ \A t \in r.owed : <<r.team, t>> \in Debt
  /\ \A row \in r.rows : row.team = r.team /\ row.forTeam \in r.owed

(* The read lists each debt once.                                          *)
OneRowPerDebt(r) ==
  \A row, other \in r.rows : row.forTeam = other.forTeam => row = other

Payable(d, t, u) == d[<<t, u, "PAYABLE">>].balance

(* The gap between t and u when the invoices sum to totals and the tables  *)
(* are d; gap of Reconcile is that of the current state.                   *)
GapOf(totals, d, t, u) == totals[<<t, u>>] + Payable(d, t, u)

(* The gap of a debt the call read, with its row still to post or without. *)
Accounted(r, totals, d) ==
  /\ \A row \in r.rows :
       GapOf(totals, d, r.team, row.forTeam) = row.delta + r.drift[row.forTeam]
  /\ \A t \in r.owed :
       (\A row \in r.rows : row.forTeam # t) => GapOf(totals, d, r.team, t) = r.drift[t]

RunOK(r, totals, d) == CallOK(r) /\ OneRowPerDebt(r) /\ Accounted(r, totals, d)

Inv == Types /\ \A c \in Caller : RunOK(run[c], unpaid, db)
-----------------------------------------------------------------------------
(* A debt is a pair of different teams.                                    *)
LEMMA DebtLemma ==
  ASSUME NEW pair \in Debt
  PROVE  /\ pair[1] \in Team /\ pair[2] \in Team /\ pair[1] # pair[2]
         /\ pair = <<pair[1], pair[2]>>
  BY ReconcileAssumption

(* What a change of amount on the creditor's RECEIVABLE does to the        *)
(* PAYABLE balances: the debtor's falls by amount, no other moves.         *)
LEMMA AccrueLemma ==
  ASSUME NEW d \in Ledgers, NEW team \in Team, NEW forTeam \in Team,
         NEW kind \in ChangeType, NEW amount \in Int, NEW day \in Day, NEW ref \in Ref
  PROVE  LET e == postDoubleEntry(d, <<forTeam, team, "RECEIVABLE">>, kind, amount, day, ref)
         IN  /\ e \in Ledgers
             /\ \A t, u \in Team :
                  Payable(e, t, u) = IF t = team /\ u = forTeam
                                     THEN Payable(d, t, u) - amount
                                     ELSE Payable(d, t, u)
  <1> DEFINE a == <<forTeam, team, "RECEIVABLE">>
             e == postDoubleEntry(d, a, kind, amount, day, ref)
  <1>1. a \in Account /\ Mirror(a) = <<team, forTeam, "PAYABLE">>
    BY DEF Account, BalanceType, Mirror, oppositeBalance
  <1>2. /\ e \in Ledgers
        /\ e[Mirror(a)] = postEntryRow(d[Mirror(a)], kind, -amount, day, ref)
        /\ \A b \in Account : b # a /\ b # Mirror(a) => e[b] = d[b]
    <2> HIDE DEF a
    <2> QED
      BY <1>1, PostDoubleEntryLemma
  <1>3. /\ d[Mirror(a)] \in AccountRow
        /\ d[Mirror(a)].balance \in Int
        /\ -amount \in Int
    <2>1. Mirror(a) \in Account
      BY <1>1, MirrorLemma
    <2> HIDE DEF a
    <2>2. d[Mirror(a)] \in AccountRow
      BY <2>1 DEF Ledgers
    <2> QED
      BY <2>2, RowTypeLemma
  <1>4. e[Mirror(a)].balance = d[Mirror(a)].balance - amount
    <2>1. postEntryRow(d[Mirror(a)], kind, -amount, day, ref).balance
            = d[Mirror(a)].balance + (-amount)
      BY <1>3, PostEntryRowLemma
    <2> QED
      BY <1>2, <1>3, <2>1
  <1>5. ASSUME NEW t \in Team, NEW u \in Team
        PROVE  Payable(e, t, u) = IF t = team /\ u = forTeam
                                  THEN Payable(d, t, u) - amount
                                  ELSE Payable(d, t, u)
    <2> DEFINE b == <<t, u, "PAYABLE">>
    <2>1. b \in Account /\ b # a /\ (b = Mirror(a) <=> t = team /\ u = forTeam)
      BY <1>1 DEF Account, BalanceType
    <2>2. CASE t = team /\ u = forTeam
      BY <1>4, <2>1, <2>2 DEF Payable
    <2>3. CASE ~(t = team /\ u = forTeam)
      BY <1>2, <2>1, <2>3 DEF Payable
    <2> QED
      BY <2>2, <2>3
  <1> QED
    BY <1>2, <1>5

(* The same for a change of amount on the debtor's PAYABLE.                *)
LEMMA PayDownLemma ==
  ASSUME NEW d \in Ledgers, NEW team \in Team, NEW forTeam \in Team,
         NEW kind \in ChangeType, NEW amount \in Int, NEW day \in Day, NEW ref \in Ref
  PROVE  LET e == postDoubleEntry(d, <<team, forTeam, "PAYABLE">>, kind, amount, day, ref)
         IN  /\ e \in Ledgers
             /\ \A t, u \in Team :
                  Payable(e, t, u) = IF t = team /\ u = forTeam
                                     THEN Payable(d, t, u) + amount
                                     ELSE Payable(d, t, u)
  <1> DEFINE a == <<team, forTeam, "PAYABLE">>
             e == postDoubleEntry(d, a, kind, amount, day, ref)
  <1>1. a \in Account /\ Mirror(a) = <<forTeam, team, "RECEIVABLE">>
    BY DEF Account, BalanceType, Mirror, oppositeBalance
  <1>2. /\ e \in Ledgers
        /\ e[a] = postEntryRow(d[a], kind, amount, day, ref)
        /\ \A b \in Account : b # a /\ b # Mirror(a) => e[b] = d[b]
    <2> HIDE DEF a
    <2> QED
      BY <1>1, PostDoubleEntryLemma
  <1>3. d[a] \in AccountRow
    BY <1>1 DEF Ledgers
  <1>4. e[a].balance = d[a].balance + amount
    <2> HIDE DEF a
    <2> QED
      BY <1>2, <1>3, PostEntryRowLemma
  <1>5. ASSUME NEW t \in Team, NEW u \in Team
        PROVE  Payable(e, t, u) = IF t = team /\ u = forTeam
                                  THEN Payable(d, t, u) + amount
                                  ELSE Payable(d, t, u)
    <2> DEFINE b == <<t, u, "PAYABLE">>
    <2>1. b \in Account /\ b # Mirror(a) /\ (b = a <=> t = team /\ u = forTeam)
      BY <1>1 DEF Account, BalanceType
    <2>2. CASE t = team /\ u = forTeam
      BY <1>4, <2>1, <2>2 DEF Payable
    <2>3. CASE ~(t = team /\ u = forTeam)
      BY <1>2, <2>1, <2>3 DEF Payable
    <2> QED
      BY <2>2, <2>3
  <1> QED
    BY <1>2, <1>5

(* r is run after a change of the gap of pair by delta: noted in the drift *)
(* of the runs among others that read it, with nothing else changed.       *)
DriftNoted(r, others, pair, delta) ==
  \A c \in Caller :
    /\ r[c].todo = run[c].todo /\ r[c].calling = run[c].calling
    /\ r[c].team = run[c].team /\ r[c].rows = run[c].rows
    /\ r[c].owed = run[c].owed
    /\ \A t \in Team :
         r[c].drift[t] =
           IF c \in others /\ run[c].calling /\ run[c].team = pair[1] /\ t = pair[2]
           THEN run[c].drift[t] + delta ELSE run[c].drift[t]

LEMMA DriftedLemma ==
  ASSUME run \in [Caller -> Run], NEW others \in SUBSET Caller,
         NEW pair \in Debt, NEW delta \in Int
  PROVE  /\ Drifted(others, pair, delta) \in [Caller -> Run]
         /\ DriftNoted(Drifted(others, pair, delta), others, pair, delta)
  <1> DEFINE r == Drifted(others, pair, delta)
  <1>1. pair[1] \in Team /\ pair[2] \in Team
    BY DebtLemma
  <1>2. ASSUME NEW c \in Caller
        PROVE  /\ r[c] \in Run
               /\ r[c].todo = run[c].todo /\ r[c].calling = run[c].calling
               /\ r[c].team = run[c].team /\ r[c].rows = run[c].rows
               /\ r[c].owed = run[c].owed
               /\ \A t \in Team :
                    r[c].drift[t] =
                      IF c \in others /\ run[c].calling /\ run[c].team = pair[1] /\ t = pair[2]
                      THEN run[c].drift[t] + delta ELSE run[c].drift[t]
    <2> DEFINE moved == [run[c].drift EXCEPT ![pair[2]] = @ + delta]
    <2>1. run[c] \in Run /\ run[c].drift \in [Team -> Int]
      BY DEF Run
    <2>2. /\ moved \in [Team -> Int]
          /\ \A t \in Team : moved[t] = IF t = pair[2] THEN run[c].drift[t] + delta
                                                       ELSE run[c].drift[t]
      BY <1>1, <2>1
    <2>3. CASE c \in others /\ run[c].calling /\ run[c].team = pair[1]
      <3>1. r[c] = [run[c] EXCEPT !.drift = moved]
        BY <2>3 DEF Drifted
      <3> HIDE DEF moved, r
      <3>2. /\ r[c].todo = run[c].todo /\ r[c].calling = run[c].calling
            /\ r[c].team = run[c].team /\ r[c].rows = run[c].rows
            /\ r[c].owed = run[c].owed /\ r[c].drift = moved
        BY <2>1, <3>1 DEF Run
      <3>3. r[c] \in Run
        BY <2>1, <2>2, <3>1 DEF Run
      <3> QED
        BY <2>2, <2>3, <3>2, <3>3
    <2>4. CASE ~(c \in others /\ run[c].calling /\ run[c].team = pair[1])
      <3>1. r[c] = run[c]
        BY <2>4 DEF Drifted
      <3> QED
        BY <2>1, <2>4, <3>1
    <2> QED
      BY <2>3, <2>4
  <1>3. r = [c \in Caller |-> r[c]]
    BY DEF Drifted
  <1>4. r \in [Caller -> Run]
    <2> HIDE DEF r
    <2> QED
      BY <1>2, <1>3
  <1>5. DriftNoted(r, others, pair, delta)
    <2> HIDE DEF r
    <2> QED
      BY <1>2 DEF DriftNoted
  <1> QED
    BY <1>4, <1>5
-----------------------------------------------------------------------------
(* One run after a step.                                                   *)

(* A gap is a number.                                                      *)
LEMMA GapLemma ==
  ASSUME NEW totals \in [Debt -> Nat], NEW d \in Ledgers,
         NEW t, NEW u, <<t, u>> \in Debt
  PROVE  /\ t \in Team /\ u \in Team /\ Payable(d, t, u) \in Int
         /\ GapOf(totals, d, t, u) \in Int
  <1>1. t \in Team /\ u \in Team
    BY DebtLemma
  <1> DEFINE a == <<t, u, "PAYABLE">>
  <1>2. a \in Account
    BY <1>1 DEF Account, BalanceType
  <1>3. d[a] \in AccountRow
    BY <1>2 DEF Ledgers
  <1>4. d[a].balance \in Int
    BY <1>3, RowTypeLemma
  <1> QED
    BY <1>1, <1>4 DEF GapOf, Payable

(* A step that moves each gap the run read by as much as the run's drift,  *)
(* and changes nothing else of it, leaves it accounted for.                *)
LEMMA MovedRunOK ==
  ASSUME NEW r \in Run, NEW q \in Run,
         NEW before \in [Debt -> Nat], NEW after \in [Debt -> Nat],
         NEW d \in Ledgers, NEW e \in Ledgers, RunOK(r, before, d),
         /\ q.todo = r.todo /\ q.calling = r.calling /\ q.team = r.team
         /\ q.rows = r.rows /\ q.owed = r.owed,
         \A t \in r.owed : GapOf(after, e, r.team, t) - GapOf(before, d, r.team, t)
                             = q.drift[t] - r.drift[t]
  PROVE  RunOK(q, after, e)
  <1>1. CallOK(q) /\ OneRowPerDebt(q)
    BY DEF RunOK, CallOK, OneRowPerDebt
  <1>2. ASSUME NEW t \in r.owed
        PROVE  /\ GapOf(after, e, r.team, t) \in Int /\ GapOf(before, d, r.team, t) \in Int
               /\ q.drift[t] \in Int /\ r.drift[t] \in Int
    BY GapLemma DEF RunOK, CallOK, Run
  <1>3. ASSUME NEW row \in q.rows
        PROVE  GapOf(after, e, q.team, row.forTeam) = row.delta + q.drift[row.forTeam]
    <2>1. /\ row \in r.rows /\ row.forTeam \in r.owed /\ row.delta \in Int
          /\ GapOf(before, d, r.team, row.forTeam) = row.delta + r.drift[row.forTeam]
      BY DEF RunOK, CallOK, Accounted, Run, Row
    <2> QED
      BY <1>2, <2>1
  <1>4. ASSUME NEW t \in q.owed, \A row \in q.rows : row.forTeam # t
        PROVE  GapOf(after, e, q.team, t) = q.drift[t]
    <2>1. t \in r.owed /\ GapOf(before, d, r.team, t) = r.drift[t]
      BY <1>4 DEF RunOK, Accounted
    <2> QED
      BY <1>2, <2>1
  <1> QED
    BY <1>1, <1>3, <1>4 DEF RunOK, Accounted

(* Between two calls there is nothing to account for.                      *)
LEMMA BetweenLemma ==
  ASSUME NEW todo \in SUBSET Team, NEW totals, NEW d
  PROVE  /\ Between(todo) \in Run /\ RunOK(Between(todo), totals, d)
         /\ Between(todo).todo = todo
  BY DEF Between, NoDrift, Run, RunOK, CallOK, OneRowPerDebt, Accounted
-----------------------------------------------------------------------------
(* The initial states and each action keep the invariant.                  *)

LEMMA InitInv == Init => Inv
  BY EmptyLedgerLemma, BetweenLemma DEF Init, Inv, Types

LEMMA StartRunInv ==
  ASSUME Inv, NEW c \in Caller, NEW teams \in Scope, StartRun(c, teams)
  PROVE  Inv'
  <1>1. teams \in SUBSET Team
    BY ReconcileAssumption
  <1>2. run' = [run EXCEPT ![c] = Between(teams)] /\ UNCHANGED <<db, unpaid>>
    BY DEF StartRun
  <1>3. Types'
    BY <1>1, <1>2, BetweenLemma DEF Inv, Types
  <1>4. ASSUME NEW o \in Caller PROVE RunOK(run'[o], unpaid', db')
    BY <1>1, <1>2, BetweenLemma DEF Inv, Types
  <1> QED
    BY <1>3, <1>4 DEF Inv

(* One row per debt with a gap, and no gap where there is no row.          *)
LEMMA ReadLemma ==
  ASSUME Types, NEW team \in Team
  PROVE  LET rows == payableReconcile(team)
             owed == {t \in Team : <<team, t>> \in Debt /\ unpaid[<<team, t>>] > 0}
         IN  /\ rows \in SUBSET Row
             /\ \A row \in rows : /\ row.team = team /\ row.forTeam \in owed
                                  /\ row.delta = GapOf(unpaid, db, team, row.forTeam)
             /\ \A t \in owed : (\A row \in rows : row.forTeam # t) =>
                                    GapOf(unpaid, db, team, t) = 0
  <1> DEFINE rows == payableReconcile(team)
             owed == {t \in Team : <<team, t>> \in Debt /\ unpaid[<<team, t>>] > 0}
  <1>1. ASSUME NEW pair \in Debt
        PROVE  /\ gap(pair) = GapOf(unpaid, db, pair[1], pair[2])
               /\ gap(pair) \in Int
    BY DebtLemma, GapLemma DEF Types, gap, GapOf, Payable
  <1>2. ASSUME NEW row \in rows
        PROVE  /\ row \in Row /\ row.team = team /\ row.forTeam \in owed
               /\ row.delta = GapOf(unpaid, db, team, row.forTeam)
    <2>1. PICK pair \in Debt :
            /\ pair[1] = team /\ unpaid[pair] > 0 /\ gap(pair) # 0
            /\ row = [team |-> pair[1], forTeam |-> pair[2], delta |-> gap(pair)]
      BY DEF payableReconcile
    <2>2. pair[2] \in owed
      BY <2>1, DebtLemma
    <2> QED
      BY <1>1, <2>1, <2>2 DEF Row
  <1>3. ASSUME NEW t \in owed, \A row \in rows : row.forTeam # t
        PROVE  GapOf(unpaid, db, team, t) = 0
    <2> DEFINE pair == <<team, t>>
               new == [team |-> pair[1], forTeam |-> pair[2], delta |-> gap(pair)]
    <2>1. pair \in Debt /\ unpaid[pair] > 0 /\ pair[1] = team /\ pair[2] = t
      OBVIOUS
    <2>2. gap(pair) # 0 => new \in rows
      BY <2>1 DEF payableReconcile
    <2>3. gap(pair) = 0
      BY <1>3, <2>1, <2>2
    <2> QED
      BY <1>1, <2>1, <2>3
  <1> QED
    BY <1>2, <1>3

LEMMA ReadGapsInv ==
  ASSUME Inv, NEW c \in Caller, NEW team \in Team, ReadGaps(c, team)
  PROVE  Inv'
  <1> DEFINE rows == payableReconcile(team)
             owed == {t \in Team : <<team, t>> \in Debt /\ unpaid[<<team, t>>] > 0}
             q == [run[c] EXCEPT !.calling = TRUE, !.team = team, !.rows = rows,
                                 !.owed = owed, !.drift = NoDrift]
  <1>1. run[c] \in Run /\ team \in run[c].todo
    BY DEF Inv, Types, ReadGaps
  <1>2. run' = [run EXCEPT ![c] = q] /\ UNCHANGED <<db, unpaid>>
    BY DEF ReadGaps
  <1>3. /\ rows \in SUBSET Row
        /\ \A row \in rows : /\ row.team = team /\ row.forTeam \in owed
                             /\ row.delta = GapOf(unpaid, db, team, row.forTeam)
        /\ \A t \in owed : (\A row \in rows : row.forTeam # t) =>
                               GapOf(unpaid, db, team, t) = 0
    BY ReadLemma DEF Inv
  <1>4. /\ owed \in SUBSET Team /\ \A t \in owed : <<team, t>> \in Debt
        /\ NoDrift \in [Team -> Int] /\ \A t \in owed : NoDrift[t] = 0
    BY DEF NoDrift
  <1> HIDE DEF rows, owed
  <1>5. /\ q \in Run /\ q.todo = run[c].todo /\ q.calling /\ q.team = team
        /\ q.rows = rows /\ q.owed = owed /\ q.drift = NoDrift
    BY <1>1, <1>3, <1>4 DEF Run
  <1> HIDE DEF q
  <1>6. RunOK(q, unpaid, db)
    <2>1. CallOK(q)
      BY <1>1, <1>3, <1>4, <1>5 DEF CallOK
    <2>2. OneRowPerDebt(q)
      <3>1. ASSUME NEW row \in rows, NEW other \in rows, row.forTeam = other.forTeam
            PROVE  row = other
        BY <1>3, <3>1 DEF Row
      <3> QED
        BY <1>5, <3>1 DEF OneRowPerDebt
    <2>3. \A row \in rows : row.delta \in Int
      BY <1>3 DEF Row
    <2>4. Accounted(q, unpaid, db)
      BY <1>3, <1>4, <1>5, <2>3 DEF Accounted
    <2> QED
      BY <2>1, <2>2, <2>4 DEF RunOK
  <1>7. Types'
    BY <1>2, <1>5 DEF Inv, Types
  <1>8. ASSUME NEW o \in Caller PROVE RunOK(run'[o], unpaid', db')
    BY <1>2, <1>6 DEF Inv, Types
  <1> QED
    BY <1>7, <1>8 DEF Inv

(* A call that ends leaves its team out of what is to do.                  *)
LEMMA EndCallInv ==
  ASSUME Inv, NEW c \in Caller, EndCall(c), UNCHANGED <<db, unpaid>>
  PROVE  Inv'
  <1>1. run[c].todo \ {run[c].team} \in SUBSET Team
    BY DEF Inv, Types, Run
  <1>2. run' = [run EXCEPT ![c] = Between(run[c].todo \ {run[c].team})]
    BY DEF EndCall
  <1>3. Types'
    BY <1>1, <1>2, BetweenLemma DEF Inv, Types
  <1>4. ASSUME NEW o \in Caller PROVE RunOK(run'[o], unpaid', db')
    BY <1>1, <1>2, BetweenLemma DEF Inv, Types
  <1> QED
    BY <1>3, <1>4 DEF Inv

(* A change of the invoices or of the books that moves the gap of one pair *)
(* by delta, and is noted as such in every run, keeps every run accounted. *)
LEMMA DriftInv ==
  ASSUME Inv, NEW pair \in Debt, NEW delta \in Int,
         unpaid' \in [Debt -> Nat], db' \in Ledgers,
         run' = Drifted(Caller, pair, delta),
         \A t, u \in Team : <<t, u>> \in Debt =>
           GapOf(unpaid', db', t, u) =
             IF t = pair[1] /\ u = pair[2] THEN GapOf(unpaid, db, t, u) + delta
                                           ELSE GapOf(unpaid, db, t, u)
  PROVE  Inv'
  <1>1. /\ run' \in [Caller -> Run]
        /\ DriftNoted(run', Caller, pair, delta)
    BY DriftedLemma DEF Inv, Types
  <1>2. Types'
    BY <1>1 DEF Types
  <1>3. ASSUME NEW c \in Caller PROVE RunOK(run'[c], unpaid', db')
    <2>1. /\ run[c] \in Run /\ run'[c] \in Run /\ RunOK(run[c], unpaid, db)
          /\ unpaid \in [Debt -> Nat] /\ db \in Ledgers
      BY <1>1 DEF Inv, Types
    <2>2. ASSUME NEW t \in run[c].owed
          PROVE  GapOf(unpaid', db', run[c].team, t) - GapOf(unpaid, db, run[c].team, t)
                   = run'[c].drift[t] - run[c].drift[t]
      <3>1. <<run[c].team, t>> \in Debt /\ run[c].calling
        BY <2>1 DEF RunOK, CallOK
      <3>2. /\ run[c].team \in Team /\ t \in Team
            /\ GapOf(unpaid, db, run[c].team, t) \in Int
        BY <2>1, <3>1, GapLemma
      <3>3. run[c].drift[t] \in Int
        BY <2>1, <3>2 DEF Run
      <3> QED
        BY <1>1, <3>1, <3>2, <3>3 DEF DriftNoted
    <2> QED
      BY <1>1, <2>1, <2>2, MovedRunOK DEF DriftNoted
  <1> QED
    BY <1>2, <1>3 DEF Inv

LEMMA InvoicesChangeInv ==
  ASSUME Inv, NEW pair \in Debt, NEW total \in Amount \cup {0},
         InvoicesChange(pair, total)
  PROVE  Inv'
  <1> DEFINE delta == total - unpaid[pair]
  <1>1. /\ pair[1] \in Team /\ pair[2] \in Team /\ pair = <<pair[1], pair[2]>>
        /\ total \in Nat
    BY DebtLemma, ReconcileAssumption
  <1>2. /\ unpaid \in [Debt -> Nat] /\ db \in Ledgers
    BY DEF Inv, Types
  <1>3. /\ unpaid' = [unpaid EXCEPT ![pair] = total] /\ db' = db
        /\ run' = Drifted(Caller, pair, delta)
    BY DEF InvoicesChange
  <1>4. unpaid' \in [Debt -> Nat] /\ delta \in Int /\ db' \in Ledgers
    BY <1>1, <1>2, <1>3
  <1>5. ASSUME NEW t \in Team, NEW u \in Team, <<t, u>> \in Debt
        PROVE  GapOf(unpaid', db', t, u) =
                 IF t = pair[1] /\ u = pair[2] THEN GapOf(unpaid, db, t, u) + delta
                                               ELSE GapOf(unpaid, db, t, u)
    <2>1. /\ GapOf(unpaid, db, t, u) = unpaid[<<t, u>>] + Payable(db, t, u)
          /\ GapOf(unpaid', db', t, u) = unpaid'[<<t, u>>] + Payable(db, t, u)
      BY <1>3 DEF GapOf
    <2>2. Payable(db, t, u) \in Int /\ unpaid[<<t, u>>] \in Int
      BY <1>2, <1>5, GapLemma
    <2>3. CASE t = pair[1] /\ u = pair[2]
      BY <1>1, <1>2, <1>3, <1>5, <2>1, <2>2, <2>3
    <2>4. CASE ~(t = pair[1] /\ u = pair[2])
      BY <1>1, <1>2, <1>3, <1>5, <2>1, <2>4
    <2> QED
      BY <2>3, <2>4
  <1> HIDE DEF delta
  <1> QED
    BY <1>3, <1>4, <1>5, DriftInv

LEMMA OtherPostingInv ==
  ASSUME Inv, NEW pair \in Debt, NEW amount \in Amount, NEW day \in Day,
         OtherPosting(pair, amount, day)
  PROVE  Inv'
  <1>1. /\ pair[1] \in Team /\ pair[2] \in Team
        /\ amount \in Int /\ -amount \in Int /\ "PRODUCT_FEE" \in ChangeType
    BY DebtLemma, ReconcileAssumption DEF ChangeType
  <1>2. /\ unpaid \in [Debt -> Nat] /\ db \in Ledgers
    BY DEF Inv, Types
  <1>3. /\ db' = postDoubleEntry(db, <<pair[2], pair[1], "RECEIVABLE">>, "PRODUCT_FEE",
                                 amount, day, NoRef)
        /\ unpaid' = unpaid /\ run' = Drifted(Caller, pair, -amount)
    BY DEF OtherPosting
  <1>4. /\ db' \in Ledgers
        /\ \A t, u \in Team :
             Payable(db', t, u) = IF t = pair[1] /\ u = pair[2]
                                  THEN Payable(db, t, u) - amount ELSE Payable(db, t, u)
    BY <1>1, <1>2, <1>3, AccrueLemma, RefAssumption
  <1>5. ASSUME NEW t \in Team, NEW u \in Team, <<t, u>> \in Debt
        PROVE  GapOf(unpaid', db', t, u) =
                 IF t = pair[1] /\ u = pair[2] THEN GapOf(unpaid, db, t, u) + (-amount)
                                               ELSE GapOf(unpaid, db, t, u)
    <2>1. Payable(db, t, u) \in Int /\ unpaid[<<t, u>>] \in Int
      BY <1>2, <1>5, GapLemma
    <2> QED
      BY <1>1, <1>3, <1>4, <2>1 DEF GapOf
  <1> QED
    BY <1>1, <1>2, <1>3, <1>4, <1>5, DriftInv

(* The posting of row closes the gap of its debt by the row's delta,       *)
(* whichever of the two accounts it is posted on.                          *)
LEMMA AdjustmentLemma ==
  ASSUME Types, NEW row \in Row, NEW day \in Day
  PROVE  LET req == adjustment(row)
             e == postDoubleEntry(db, req.acct, "ADJUSTMENT", req.amount, day, NoRef)
         IN  /\ e \in Ledgers
             /\ \A t, u \in Team :
                  Payable(e, t, u) = IF t = row.team /\ u = row.forTeam
                                     THEN Payable(db, t, u) - row.delta
                                     ELSE Payable(db, t, u)
  <1> DEFINE req == adjustment(row)
             e == postDoubleEntry(db, req.acct, "ADJUSTMENT", req.amount, day, NoRef)
  <1>1. /\ row.team \in Team /\ row.forTeam \in Team
        /\ row.delta \in Int /\ -row.delta \in Int
        /\ "ADJUSTMENT" \in ChangeType /\ db \in Ledgers
    BY DEF Row, Types, ChangeType
  <1>2. CASE row.delta > 0
    <2>1. e = postDoubleEntry(db, <<row.forTeam, row.team, "RECEIVABLE">>, "ADJUSTMENT",
                              row.delta, day, NoRef)
      BY <1>2 DEF adjustment
    <2> HIDE DEF e
    <2> QED
      BY <1>1, <2>1, AccrueLemma, RefAssumption DEF e
  <1>3. CASE ~(row.delta > 0)
    <2>1. e = postDoubleEntry(db, <<row.team, row.forTeam, "PAYABLE">>, "ADJUSTMENT",
                              -row.delta, day, NoRef)
      BY <1>3 DEF adjustment
    <2>2. /\ e \in Ledgers
          /\ \A t, u \in Team :
               Payable(e, t, u) = IF t = row.team /\ u = row.forTeam
                                  THEN Payable(db, t, u) + (-row.delta)
                                  ELSE Payable(db, t, u)
      <3> HIDE DEF e
      <3> QED
        BY <1>1, <2>1, PayDownLemma, RefAssumption
    <2>3. \A t, u \in Team : Payable(db, t, u) \in Int
      <3> SUFFICES ASSUME NEW t \in Team, NEW u \in Team
                   PROVE  db[<<t, u, "PAYABLE">>].balance \in Int
        BY DEF Payable
      <3>1. <<t, u, "PAYABLE">> \in Account
        BY DEF Account, BalanceType
      <3>2. db[<<t, u, "PAYABLE">>] \in AccountRow
        BY <1>1, <3>1 DEF Ledgers
      <3> QED
        BY <3>2, RowTypeLemma
    <2> HIDE DEF e
    <2> QED
      BY <1>1, <2>2, <2>3 DEF e
  <1> QED
    BY <1>2, <1>3

(* The call that posts a row has it off its list, the other runs note it.  *)
LEMMA PostAdjustmentInv ==
  ASSUME Inv, NEW c \in Caller, NEW row \in run[c].rows, NEW day \in Day,
         PostAdjustment(c, row, day)
  PROVE  Inv'
  <1> DEFINE team == run[c].team
             u == row.forTeam
             pair == <<team, u>>
             moved == Drifted(Caller \ {c}, pair, -row.delta)
  <1>1. /\ unpaid \in [Debt -> Nat] /\ db \in Ledgers /\ run \in [Caller -> Run]
        /\ Caller \ {c} \in SUBSET Caller
    BY DEF Inv, Types
  <1>2. RunOK(run[c], unpaid, db)
    BY DEF Inv
  <1>3. /\ row \in Row /\ row.team = team /\ row.delta \in Int /\ -row.delta \in Int
        /\ u \in run[c].owed /\ pair \in Debt /\ pair[1] = team /\ pair[2] = u
        /\ team \in Team /\ u \in Team
    BY <1>1, <1>2 DEF RunOK, CallOK, Run, Row
  <1>4. /\ db' = postDoubleEntry(db, adjustment(row).acct, "ADJUSTMENT",
                                 adjustment(row).amount, day, NoRef)
        /\ unpaid' = unpaid
        /\ run' = [moved EXCEPT ![c].rows = @ \ {row}]
    BY <1>3 DEF PostAdjustment
  <1>5. /\ db' \in Ledgers
        /\ \A t, v \in Team :
             Payable(db', t, v) = IF t = team /\ v = u
                                  THEN Payable(db, t, v) - row.delta ELSE Payable(db, t, v)
    BY <1>3, <1>4, AdjustmentLemma DEF Inv
  <1>6. ASSUME NEW t, NEW v, <<t, v>> \in Debt
        PROVE  /\ GapOf(unpaid, db, t, v) \in Int
               /\ GapOf(unpaid', db', t, v) =
                    IF t = team /\ v = u THEN GapOf(unpaid, db, t, v) - row.delta
                                         ELSE GapOf(unpaid, db, t, v)
    <2>1. /\ t \in Team /\ v \in Team /\ unpaid[<<t, v>>] \in Int
          /\ Payable(db, t, v) \in Int /\ GapOf(unpaid, db, t, v) \in Int
      BY <1>1, <1>6, GapLemma
    <2> QED
      BY <1>3, <1>4, <1>5, <2>1 DEF GapOf
  <1>7. /\ moved \in [Caller -> Run]
        /\ DriftNoted(moved, Caller \ {c}, pair, -row.delta)
    <2> HIDE DEF pair
    <2> QED
      BY <1>1, <1>3, DriftedLemma
  <1> HIDE DEF moved, team, u, pair
  <1>8. /\ \A o \in Caller : o # c => run'[o] = moved[o]
        /\ run'[c] = [moved[c] EXCEPT !.rows = moved[c].rows \ {row}]
    BY <1>4, <1>7
  <1>9. /\ run'[c] \in Run
        /\ run'[c].todo = run[c].todo /\ run'[c].calling = run[c].calling
        /\ run'[c].team = team /\ run'[c].rows = run[c].rows \ {row}
        /\ run'[c].owed = run[c].owed
        /\ \A t \in Team : run'[c].drift[t] = run[c].drift[t]
    <2> DEFINE m == moved[c]
               rows == run[c].rows \ {row}
    <2>1. /\ m \in Run /\ m.todo = run[c].todo /\ m.calling = run[c].calling
          /\ m.team = team /\ m.rows = run[c].rows /\ m.owed = run[c].owed
          /\ \A t \in Team : m.drift[t] = run[c].drift[t]
      BY <1>7 DEF DriftNoted, team
    <2>2. run'[c] = [m EXCEPT !.rows = rows] /\ rows \in SUBSET Row
      BY <1>1, <1>8, <2>1 DEF Run
    <2> HIDE DEF m, rows
    <2>3. run'[c] \in Run
      BY <2>1, <2>2 DEF Run
    <2>4. /\ run'[c].todo = m.todo /\ run'[c].calling = m.calling
          /\ run'[c].team = m.team /\ run'[c].rows = rows
          /\ run'[c].owed = m.owed /\ run'[c].drift = m.drift
      BY <2>1, <2>2 DEF Run
    <2> QED
      BY <2>1, <2>3, <2>4 DEF rows
  <1>10. run' \in [Caller -> Run]
    <2>1. run' = [o \in Caller |-> run'[o]]
      BY <1>4, <1>7
    <2>2. \A o \in Caller : run'[o] \in Run
      BY <1>7, <1>8, <1>9
    <2> QED
      BY <2>1, <2>2
  <1>11. Types'
    BY <1>1, <1>4, <1>5, <1>10 DEF Types
  <1>12. ASSUME NEW o \in Caller, o # c PROVE RunOK(run'[o], unpaid', db')
    <2>1. /\ run[o] \in Run /\ run'[o] \in Run /\ RunOK(run[o], unpaid, db)
          /\ unpaid' \in [Debt -> Nat] /\ run'[o] = moved[o]
      BY <1>1, <1>4, <1>8, <1>10, <1>12 DEF Inv
    <2>2. ASSUME NEW t \in run[o].owed
          PROVE  GapOf(unpaid', db', run[o].team, t) - GapOf(unpaid, db, run[o].team, t)
                   = run'[o].drift[t] - run[o].drift[t]
      <3>1. <<run[o].team, t>> \in Debt /\ run[o].calling
        BY <2>1 DEF RunOK, CallOK
      <3>2. t \in Team /\ run[o].drift[t] \in Int
        BY <1>1, <2>1, <3>1, GapLemma DEF Run
      <3>3. run'[o].drift[t] = IF run[o].team = team /\ t = u
                               THEN run[o].drift[t] + (-row.delta) ELSE run[o].drift[t]
        BY <1>3, <1>7, <1>12, <2>1, <3>1, <3>2 DEF DriftNoted
      <3> QED
        BY <1>3, <1>6, <3>1, <3>2, <3>3
    <2>3. /\ run'[o].todo = run[o].todo /\ run'[o].calling = run[o].calling
          /\ run'[o].team = run[o].team /\ run'[o].rows = run[o].rows
          /\ run'[o].owed = run[o].owed
      BY <1>7, <2>1 DEF DriftNoted
    <2> QED
      BY <1>1, <1>5, <2>1, <2>2, <2>3, MovedRunOK
  <1>13. RunOK(run'[c], unpaid', db')
    <2>1. CallOK(run'[c]) /\ OneRowPerDebt(run'[c])
      BY <1>2, <1>9 DEF RunOK, CallOK, OneRowPerDebt, team
    <2>2. ASSUME NEW t \in run[c].owed
          PROVE  <<team, t>> \in Debt /\ t \in Team /\ run[c].drift[t] \in Int
      BY <1>1, <1>2, GapLemma DEF RunOK, CallOK, Run, team
    <2>3. ASSUME NEW other \in run[c].rows \ {row}
          PROVE  GapOf(unpaid', db', team, other.forTeam)
                   = other.delta + run'[c].drift[other.forTeam]
      <3>1. /\ other.forTeam \in run[c].owed /\ other.forTeam # u
            /\ GapOf(unpaid, db, team, other.forTeam)
                 = other.delta + run[c].drift[other.forTeam]
        BY <1>2 DEF RunOK, CallOK, OneRowPerDebt, Accounted, team, u
      <3> QED
        BY <1>6, <1>9, <2>2, <3>1
    <2>4. ASSUME NEW t \in run[c].owed, \A other \in run[c].rows \ {row} : other.forTeam # t
          PROVE  GapOf(unpaid', db', team, t) = run'[c].drift[t]
      <3>1. CASE t = u
        <4>1. GapOf(unpaid, db, team, t) = row.delta + run[c].drift[t]
          BY <1>2, <3>1 DEF RunOK, Accounted, team, u
        <4>2. /\ GapOf(unpaid, db, team, t) \in Int
              /\ GapOf(unpaid', db', team, t) = GapOf(unpaid, db, team, t) - row.delta
          BY <1>6, <2>2, <3>1
        <4>3. /\ row.delta \in Int /\ run[c].drift[t] \in Int
              /\ run'[c].drift[t] = run[c].drift[t]
          BY <1>3, <1>9, <2>2
        <4>4. GapOf(unpaid, db, team, t) - row.delta = run[c].drift[t]
          BY <4>1, <4>3
        <4> QED
          BY <4>2, <4>3, <4>4
      <3>2. CASE t # u
        <4>1. GapOf(unpaid, db, team, t) = run[c].drift[t]
          BY <1>2, <2>4, <3>2 DEF RunOK, Accounted, team, u
        <4> QED
          BY <1>6, <1>9, <2>2, <3>2, <4>1
      <3> QED
        BY <3>1, <3>2
    <2> QED
      BY <1>9, <2>1, <2>3, <2>4 DEF RunOK, Accounted
  <1> QED
    BY <1>11, <1>12, <1>13 DEF Inv

LEMMA InvStep == Inv /\ [Next]_vars => Inv'
  <1> SUFFICES ASSUME Inv, [Next]_vars PROVE Inv'
    OBVIOUS
  <1>1. ASSUME NEW c \in Caller, Step(c) PROVE Inv'
    BY <1>1, ReadGapsInv, PostAdjustmentInv, EndCallInv DEF Step, Reconciled
  <1>2. ASSUME NEW c \in Caller, CallFails(c) PROVE Inv'
    BY <1>2, EndCallInv DEF CallFails
  <1>3. ASSUME UNCHANGED vars PROVE Inv'
    BY <1>3 DEF vars, Inv, Types
  <1> QED
    BY <1>1, <1>2, <1>3, StartRunInv, InvoicesChangeInv, OtherPostingInv DEF Next
-----------------------------------------------------------------------------
(* The invariant holds of every reachable state.                           *)
THEOREM ReconcileInvariant == Spec => []Inv
  <1> QED
    BY InitInv, InvStep, PTL DEF Spec, SafeSpec

(* The tables, the totals and the runs have their types, and every row a   *)
(* call still has to post is a non-zero difference of a debt it read.      *)
THEOREM ReconcileTypes == Spec => []TypeOK
  <1>1. Inv => TypeOK
    <2> SUFFICES ASSUME Inv, NEW c \in Caller
                 PROVE  /\ run[c].todo \subseteq Team
                        /\ run[c].calling => run[c].team \in run[c].todo
                        /\ run[c].rows \subseteq
                             [team : {run[c].team}, forTeam : run[c].owed, delta : Int \ {0}]
                        /\ run[c].drift \in [Team -> Int]
      BY DEF Inv, Types, TypeOK
    <2>1. run[c] \in Run /\ CallOK(run[c])
      BY DEF Inv, Types, RunOK
    <2> QED
      BY <2>1 DEF Run, Row, CallOK
  <1> QED
    BY <1>1, ReconcileInvariant, PTL

(* However many callers, writers and invoice changes interleave with it,   *)
(* a reconcile neither loses nor repeats a change of a debt it read.       *)
THEOREM ReconcileLosesNothing == Spec => []NoChangeLost
  <1>1. Inv => NoChangeLost
    <2> SUFFICES ASSUME Inv, NEW c \in Caller, NEW t \in run[c].owed,
                        NEW left, left = {row \in run[c].rows : row.forTeam = t}
                 PROVE  gap(<<run[c].team, t>>)
                          = (IF left = {} THEN 0 ELSE (CHOOSE row \in left : TRUE).delta)
                              + run[c].drift[t]
      BY DEF NoChangeLost
    <2> DEFINE pair == <<run[c].team, t>>
               one == CHOOSE row \in left : TRUE
    <2>1. RunOK(run[c], unpaid, db) /\ run[c] \in Run
      BY DEF Inv, Types
    <2>2. t \in Team /\ run[c].drift[t] \in Int
      BY <2>1, DebtLemma DEF RunOK, CallOK, Run
    <2>3. gap(pair) = GapOf(unpaid, db, run[c].team, t)
      BY DEF gap, GapOf, Payable
    <2>4. CASE left = {}
      BY <2>1, <2>2, <2>3, <2>4 DEF RunOK, Accounted
    <2>5. CASE left # {}
      <3>1. one \in left
        BY <2>5
      <3> HIDE DEF one
      <3>2. one \in run[c].rows /\ one.forTeam = t
        BY <3>1
      <3>3. gap(pair) = one.delta + run[c].drift[t]
        BY <2>1, <2>3, <3>2 DEF RunOK, Accounted
      <3> QED
        BY <2>5, <3>3 DEF one
    <2> QED
      BY <2>4, <2>5
  <1> QED
    BY <1>1, ReconcileInvariant, PTL

(* No failure of one team's call makes sync-legacy pass over another team. *)
THEOREM ReconcileSkipsNoTeam == Spec => NoTeamSkipped
  <1>1. Inv /\ [Next]_vars =>
          [\A c \in Caller : \A team \in run[c].todo \ run'[c].todo :
             run[c].calling /\ run[c].team = team]_vars
    <2> SUFFICES ASSUME Inv, Next, NEW c \in Caller, NEW team \in run[c].todo \ run'[c].todo
                 PROVE  run[c].calling /\ run[c].team = team
      OBVIOUS
    <2>1. run \in [Caller -> Run]
      BY DEF Inv, Types
    <2>2. ASSUME NEW o \in Caller, NEW teams \in Scope, StartRun(o, teams)
          PROVE  FALSE
      BY <2>1, <2>2 DEF StartRun
    <2>3. ASSUME NEW o \in Caller, NEW t \in Team, ReadGaps(o, t)
          PROVE  FALSE
      <3>1. run'[o].todo = run[o].todo
        BY <2>1, <2>3 DEF ReadGaps, Run
      <3>2. o # c => run'[c] = run[c]
        BY <2>1, <2>3 DEF ReadGaps
      <3> QED
        BY <3>1, <3>2
    <2>4. ASSUME NEW o \in Caller, run[o].calling, EndCall(o)
          PROVE  run[c].calling /\ run[c].team = team
      BY <2>1, <2>4 DEF EndCall, Between
    <2>5. ASSUME NEW others \in SUBSET Caller, NEW pair \in Debt, NEW delta \in Int,
                 run'[c].todo = Drifted(others, pair, delta)[c].todo
          PROVE  FALSE
      <3>1. DriftNoted(Drifted(others, pair, delta), others, pair, delta)
        BY <2>1, DriftedLemma
      <3>2. run'[c].todo = run[c].todo
        BY <2>5, <3>1 DEF DriftNoted
      <3> QED
        BY <3>2
    <2>6. ASSUME NEW o \in Caller, NEW row \in run[o].rows, NEW day \in Day,
                 PostAdjustment(o, row, day)
          PROVE  FALSE
      <3> DEFINE pair == <<row.team, row.forTeam>>
                 moved == Drifted(Caller \ {o}, pair, -row.delta)
      <3>1. pair \in Debt /\ -row.delta \in Int
        BY <2>1 DEF Inv, RunOK, CallOK, Run, Row
      <3>2. run' = [moved EXCEPT ![o].rows = @ \ {row}]
        BY <2>6 DEF PostAdjustment
      <3>3. Caller \ {o} \in SUBSET Caller
        OBVIOUS
      <3> HIDE DEF pair
      <3>4. moved \in [Caller -> Run]
        BY <2>1, <3>1, <3>3, DriftedLemma
      <3>5. run'[c].todo = moved[c].todo
        <4> HIDE DEF moved
        <4> QED
          BY <3>2, <3>4 DEF Run
      <3> QED
        BY <2>5, <3>1, <3>3, <3>5
    <2>7. ASSUME NEW pair \in Debt, NEW total \in Amount \cup {0}, InvoicesChange(pair, total)
          PROVE  FALSE
      <3>1. total - unpaid[pair] \in Int /\ Caller \in SUBSET Caller
        BY ReconcileAssumption DEF Inv, Types
      <3>2. run' = Drifted(Caller, pair, total - unpaid[pair])
        BY <2>7 DEF InvoicesChange
      <3> QED
        BY <2>5, <3>1, <3>2
    <2>8. ASSUME NEW pair \in Debt, NEW amount \in Amount, NEW day \in Day,
                 OtherPosting(pair, amount, day)
          PROVE  FALSE
      <3>1. -amount \in Int /\ Caller \in SUBSET Caller
        BY ReconcileAssumption
      <3>2. run' = Drifted(Caller, pair, -amount)
        BY <2>8 DEF OtherPosting
      <3> QED
        BY <2>5, <3>1, <3>2
    <2> QED
      BY <2>2, <2>3, <2>4, <2>6, <2>7, <2>8 DEF Next, Step, Reconciled, CallFails
  <1> QED
    BY <1>1, ReconcileInvariant, PTL DEF Spec, SafeSpec, NoTeamSkipped
=============================================================================
